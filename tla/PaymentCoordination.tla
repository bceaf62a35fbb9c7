------------------------ MODULE PaymentCoordination ------------------------
(***************************************************************************)
(* The shared payment coordinator, lib/payments/coordination.ts.  Both     *)
(* programmes (the legacy company validation and the facilities            *)
(* applications) keep one PaymentObligation row per application and run    *)
(* every remote payment operation through it:                              *)
(*                                                                         *)
(*   - a claim bumps the generation and names a new owner, so that what a  *)
(*     late owner writes can be told from what the current owner writes;   *)
(*   - the outcome of a remote call is first appended, in a commit of its  *)
(*     own, to the PaymentOperationResult table, and only then used;       *)
(*   - the obligation is only read and written under the row lock of its   *)
(*     application.                                                        *)
(*                                                                         *)
(* This module is the state-free part: the rows and the functions from an  *)
(* obligation and the result table to the next obligation.  LegacyPayment  *)
(* and FacilitiesPayment embed them in the transactions of the programmes. *)
(***************************************************************************)
EXTENDS Naturals

CONSTANTS
  Workers,      \* server invocations that may run at the same time
  Payments,     \* identifiers of payment rows of the application
  Authorities,  \* payment authorities the gateway may issue
  None          \* SQL NULL

ASSUME NoneIsFresh == None \notin Workers \cup Payments \cup Authorities

States == {"ABSENT", "READY", "REQUESTING", "PAYABLE", "VERIFYING",
           "UNCERTAIN", "SETTLED"}
Reasons == {"NONE", "HISTORICAL_ATTEMPT", "HISTORICAL_MULTIPLE_ATTEMPTS",
            "HISTORICAL_MULTIPLE_CAPTURES",
            "REQUEST_UNRESOLVED", "VERIFY_UNRESOLVED"}

\* A row of PaymentObligation.  The state "ABSENT" stands for no row.  The
\* owner is the invocation that made the claim (a random UUID in the code);
\* leaseUntil is written by the code and read nowhere.
Obligation == [state      : States,
               generation : Nat,
               owner      : Workers \cup {None},
               operation  : {"NONE", "REQUEST", "VERIFY"},
               reason     : Reasons,
               selected   : Payments \cup {None}]

\* A row of PaymentOperationResult, of the one obligation of the model.
Result == [generation : Nat,
           owner      : Workers \cup Payments,
           operation  : {"REQUEST", "VERIFY", "CALLBACK"},
           outcome    : {"AUTHORITY", "CAPTURED", "REJECTED", "UNKNOWN",
                         "COMPETING_CALLBACK"},
           authority  : Authorities \cup {None}]

NoObligation == [state |-> "ABSENT", generation |-> 0, owner |-> None,
                 operation |-> "NONE", reason |-> "NONE", selected |-> None]

-----------------------------------------------------------------------------
(* paymentObligation: the obligation of an application that has none yet,   *)
(* from the payment rows it already has.                                    *)

TheOnly(S) == CHOOSE p \in S : S = {p}
IsSingleton(S) == \E p \in S : S = {p}

\* Mutant: a failed payment is taken for the end of it.
CreatedAfterFailure(rows, verified) ==
  [NoObligation EXCEPT !.selected = IF verified # {} THEN CHOOSE p \in verified : TRUE
                                    ELSE None,
                       !.state = IF verified # {} THEN "SETTLED" ELSE "READY"]

CreatedObligation(rows, verified) ==
  [NoObligation EXCEPT
     !.selected = IF IsSingleton(verified) THEN TheOnly(verified)
                  ELSE IF IsSingleton(rows) THEN TheOnly(rows) ELSE None,
     !.state    = IF verified # {} THEN "SETTLED"
                  ELSE IF rows # {} THEN "UNCERTAIN" ELSE "READY",
     !.reason   = IF rows = {} THEN "NONE"
                  ELSE IF IsSingleton(rows) THEN "HISTORICAL_ATTEMPT"
                  ELSE "HISTORICAL_MULTIPLE_ATTEMPTS"]

\* The migration that introduced the table made the same choice for the
\* applications that had payments, but for the reason of several captures.
BackfilledObligation(rows, verified) ==
  IF rows = {} THEN NoObligation
  ELSE IF verified # {} /\ ~IsSingleton(verified)
       THEN [CreatedObligation(rows, verified) EXCEPT
               !.reason = "HISTORICAL_MULTIPLE_CAPTURES"]
       ELSE CreatedObligation(rows, verified)

-----------------------------------------------------------------------------
(* claimPaymentOperation                                                    *)

Claimed(o, op, p, w) ==
  [state      |-> IF op = "REQUEST" THEN "REQUESTING" ELSE "VERIFYING",
   operation  |-> op,
   owner      |-> w,
   generation |-> o.generation + 1,
   reason     |-> "NONE",
   selected   |-> p]

(* savePaymentResult: append, unless the unique index has such a row        *)

SavedResult(results, r) ==
  IF \E q \in results : /\ q.generation = r.generation
                        /\ q.outcome = r.outcome
                        /\ q.owner = r.owner
  THEN results
  ELSE results \cup {r}

(* markPaymentUncertain: only the current owner, and never over SETTLED     *)

\* Mutant: a late owner may still write.
UnfencedUncertain(o, gen, w, reason) ==
  [o EXCEPT !.state = "UNCERTAIN", !.reason = reason]

Uncertain(o, gen, w, reason) ==
  IF o.generation = gen /\ o.owner = w /\ o.state # "SETTLED"
  THEN [o EXCEPT !.state = "UNCERTAIN", !.reason = reason]
  ELSE o

-----------------------------------------------------------------------------
(* recoverPaymentAuthority: an authority that was saved by the current      *)
(* owner of a REQUEST whose invocation did not live to publish it.          *)

SavedAuthorities(o, results) ==
  {r.authority : r \in {q \in results : /\ q.generation = o.generation
                                        /\ q.owner = o.owner
                                        /\ q.outcome = "AUTHORITY"}}

Recoverable(o, results) ==
  /\ o.operation = "REQUEST"
  /\ o.state # "SETTLED"
  /\ SavedAuthorities(o, results) # {}

RecoveredAuthority(o, results) ==
  CHOOSE a \in SavedAuthorities(o, results) : TRUE

Payable(o) == [o EXCEPT !.state = "PAYABLE", !.reason = "NONE"]

-----------------------------------------------------------------------------
(* beginPaymentVerification: the decision, once the selected payment and    *)
(* the state have been looked at.                                           *)

CaptureSaved(results, a) ==
  \E r \in results : r.outcome = "CAPTURED" /\ r.authority = a

\* A claim has at most one VERIFY result, so "the latest" is "the".
PriorRejected(o, results, a) ==
  \E r \in results : /\ r.generation = o.generation
                     /\ r.owner = o.owner
                     /\ r.operation = "VERIFY"
                     /\ r.authority = a
                     /\ r.outcome = "REJECTED"

\* Mutant: a call that never answered is tried again.
CanCheckUnanswered(o, results, a) ==
  \/ o.state = "PAYABLE"
  \/ o.operation = "NONE" /\ o.reason = "HISTORICAL_ATTEMPT"
  \/ o.operation = "VERIFY" /\ o.state = "UNCERTAIN"

CanCheck(o, results, a) ==
  \/ o.state = "PAYABLE"
  \/ o.operation = "NONE" /\ o.reason = "HISTORICAL_ATTEMPT"
  \/ o.operation = "VERIFY" /\ PriorRejected(o, results, a)

(* finishPaymentRequest: may the owner of a request still publish it?       *)

\* Mutant: only the selection is compared, not the claim.
MayFinishLate(o, gen, w, p) == o.state # "SETTLED" /\ o.selected = p

MayFinish(o, gen, w, p) ==
  /\ o.owner = w
  /\ o.generation = gen
  /\ o.state # "SETTLED"
  /\ o.selected = p

=============================================================================
