------------------------- MODULE PaymentInvocation -------------------------
(***************************************************************************)
(* Server invocations that pay for one application, of either programme:   *)
(* they claim and send a payment request, publish the authority, take      *)
(* callbacks, verify and keep the evidence.  The legacy programme and the  *)
(* facilities programme write this twice in their own words around the     *)
(* same coordinator (lib/payments/coordination.ts); LegacyPayment and      *)
(* FacilitiesPayment embed the steps below in what is their own.           *)
(*                                                                         *)
(* Every database transaction is one step, because each takes the row lock *)
(* of the application first; everything an invocation does between two     *)
(* transactions is a step of its own, and an invocation may end after any  *)
(* of them (Abort: a crash, an error that propagates, a rejected form).    *)
(*                                                                         *)
(* The gateway and the applicant at the bank page are the environment.  A  *)
(* remote call lives in `calls' from the moment it is sent until the       *)
(* gateway is done with it, whether or not anyone still waits for it.      *)
(***************************************************************************)
EXTENDS PaymentCoordination

CONSTANTS
  Programme,      \* "legacy" or "facilities", a parameter of the coordinator
  Retriers,       \* the invocations that callbacks keep starting
  MaxGeneration   \* the gateway answers "not paid" only below this one

ASSUME ProgrammeIsOne == Programme \in {"legacy", "facilities"}
ASSUME RetriersInvoke == Retriers \subseteq Workers
ASSUME MaxGenerationNat == MaxGeneration \in Nat

VARIABLES
  payments,    \* the payment rows of the application
  obligation,  \* its PaymentObligation row
  results,     \* PaymentOperationResult rows
  job,         \* what each server invocation is doing
  gateway,     \* what the gateway knows of each authority
  calls,       \* remote calls the gateway is not done with
  offered,     \* authorities whose payment page an applicant was sent to
  requests     \* how many payment requests were ever sent

records == <<payments, obligation, results>>
outside == <<gateway, calls, offered, requests>>
payVars == <<records, job, outside>>

\* The legacy programme knows INITIATED, VERIFIED and FAILED only.
PaymentRow == [status : {"ABSENT", "INITIATED", "REDIRECT_READY", "PENDING",
                         "VERIFIED", "FAILED", "CANCELLED", "TIMED_OUT"},
               authority : Authorities \cup {None}]
NoPayment == [status |-> "ABSENT", authority |-> None]

Rows     == {p \in Payments : payments[p].status # "ABSENT"}
Verified == {p \in Payments : payments[p].status = "VERIFIED"}

Steps == {"idle", "reserve", "request", "awaitAuthority", "saveAuthority",
          "finish", "saveNoAuthority", "requestUncertain",
          "settle", "verify", "awaitVerdict", "saveCaptured", "record",
          "saveRejected", "saveNoVerdict", "verifyUncertain",
          "complete", "claimIntent", "sms", "smsSent", "smsFailed"}

Job == [pc : Steps, payment : Payments \cup {None},
        authority : Authorities \cup {None}, generation : Nat]
Idle == [pc |-> "idle", payment |-> None, authority |-> None, generation |-> 0]

Call == [owner : Workers, generation : Nat, payment : Payments,
         authority : Authorities \cup {None}]

PaymentTypeOK ==
  /\ payments \in [Payments -> PaymentRow]
  /\ obligation \in Obligation
  /\ results \subseteq Result
  /\ job \in [Workers -> Job]
  /\ gateway \in [Authorities -> {"UNISSUED", "OPEN", "PAID", "CAPTURED"}]
  /\ calls \subseteq Call
  /\ offered \subseteq Authorities
  /\ requests \in Nat

(***************************************************************************)
(* An application enters the model either new, or with the payments (of    *)
(* the kinds in history) an earlier version of the program left: the       *)
(* migration has given it an obligation, or its rows were imported after   *)
(* the migration.                                                          *)
(***************************************************************************)
Issued(a) == \E p \in Payments : payments[p].authority = a

PaymentInit(history) ==
  /\ payments \in [Payments -> {NoPayment} \cup history]
  /\ \A p, q \in Payments :
       p # q /\ payments[p].authority # None
         => payments[p].authority # payments[q].authority
  /\ gateway \in [Authorities -> {"UNISSUED", "OPEN", "PAID", "CAPTURED"}]
  /\ \A a \in Authorities : gateway[a] = "UNISSUED" <=> ~Issued(a)
  /\ \A p \in Verified : gateway[payments[p].authority] = "CAPTURED"
  /\ obligation \in {NoObligation, BackfilledObligation(Rows, Verified)}
  /\ offered = {a \in Authorities : Issued(a)}
  /\ results = {}
  /\ job = [w \in Workers |-> Idle]
  /\ calls = {}
  /\ requests = 0

-----------------------------------------------------------------------------
(* What an invocation does next, and what paymentObligation(tx) leaves      *)
(* behind in every transaction that calls it.                               *)

At(w, step) == job[w].pc = step
GoTo(w, step) == job' = [job EXCEPT ![w].pc = step]
Return(w) == job' = [job EXCEPT ![w] = Idle]

\* Mutant: the facilities programme leaves the attempt INITIATED.
PublishedAuthority(row, a) == [row EXCEPT !.authority = a]

\* What both programmes write into the row of a payment that can be paid.
Published(row, a) ==
  [status    |-> IF Programme = "facilities" THEN "REDIRECT_READY" ELSE row.status,
   authority |-> a]

Recovering ==
  /\ Recoverable(obligation, results)
  /\ Programme = "facilities" =>
       LET row == payments[obligation.selected]
       IN \/ row.status = "INITIATED"
          \/ row.authority = RecoveredAuthority(obligation, results)

LoadedObligation ==
  IF obligation.state = "ABSENT" THEN CreatedObligation(Rows, Verified)
  ELSE IF Recovering THEN Payable(obligation) ELSE obligation

LoadedPayments ==
  IF /\ Recovering
     /\ Programme = "facilities" => payments[obligation.selected].status = "INITIATED"
  THEN [payments EXCEPT ![obligation.selected] =
                           Published(@, RecoveredAuthority(obligation, results))]
  ELSE payments

-----------------------------------------------------------------------------
(* Paying                                                                   *)

\* There is an obligation under way: send the applicant to its payment page
\* if it is payable, check its authority if there is one, or report "pending".
ServeExisting(w) ==
  /\ At(w, "reserve")
  /\ obligation' = LoadedObligation
  /\ payments' = LoadedPayments
  /\ LET p == LoadedObligation.selected
         a == IF p = None THEN None ELSE LoadedPayments[p].authority
     IN \/ /\ a # None
           /\ LoadedObligation.state = "PAYABLE"
           /\ offered' = offered \cup {a}
           /\ Return(w)
        \/ /\ a # None
           /\ LoadedObligation.state # "PAYABLE"
           /\ job' = [job EXCEPT ![w] = [pc |-> "settle", payment |-> p,
                                         authority |-> a, generation |-> 0]]
           /\ UNCHANGED offered
        \/ /\ a = None
           /\ Return(w)
           /\ UNCHANGED offered
  /\ UNCHANGED <<results, gateway, calls, requests>>

\* Nothing was ever asked for: create the payment row and claim the request.
NewPayment(w) ==
  /\ At(w, "reserve")
  /\ LoadedObligation.state = "READY"
  /\ \E p \in Payments \ Rows :
       /\ payments' = [payments EXCEPT ![p].status = "INITIATED"]
       /\ obligation' = Claimed(LoadedObligation, "REQUEST", p, w)
       /\ job' = [job EXCEPT ![w] =
                    [pc |-> "request", payment |-> p, authority |-> None,
                     generation |-> LoadedObligation.generation + 1]]
  /\ UNCHANGED <<results, outside>>

SendRequest(w) ==
  /\ At(w, "request")
  /\ calls' = calls \cup {[owner |-> w, generation |-> job[w].generation,
                           payment |-> job[w].payment, authority |-> None]}
  /\ requests' = requests + 1
  /\ GoTo(w, "awaitAuthority")
  /\ UNCHANGED <<records, gateway, offered>>

\* finishPaymentRequest, first commit: the authority is evidence on its own.
SaveAuthority(w) ==
  /\ At(w, "saveAuthority")
  /\ results' = SavedResult(results,
       [generation |-> job[w].generation, owner |-> w, operation |-> "REQUEST",
        outcome |-> "AUTHORITY", authority |-> job[w].authority])
  /\ GoTo(w, "finish")
  /\ UNCHANGED <<payments, obligation, outside>>

Publishes(w) == MayFinish(obligation, job[w].generation, w, job[w].payment)

\* Second commit: publish it, unless the obligation has moved on.  What the
\* invocation does then is the programme's own.
Publish(w) ==
  /\ At(w, "finish")
  /\ IF Publishes(w)
     THEN /\ obligation' = Payable(obligation)
          /\ payments' = [payments EXCEPT ![job[w].payment] =
                                             Published(@, job[w].authority)]
          /\ offered' = offered \cup {job[w].authority}
     ELSE UNCHANGED <<obligation, payments, offered>>
  /\ UNCHANGED <<results, gateway, calls, requests>>

\* The request failed, in whatever way; the row may itself fail to be saved.
SaveNoAuthority(w) ==
  /\ At(w, "saveNoAuthority")
  /\ \/ results' = SavedResult(results,
          [generation |-> job[w].generation, owner |-> w,
           operation |-> "REQUEST", outcome |-> "UNKNOWN", authority |-> None])
     \/ UNCHANGED results
  /\ GoTo(w, "requestUncertain")
  /\ UNCHANGED <<payments, obligation, outside>>

RequestUncertain(w) ==
  /\ At(w, "requestUncertain")
  /\ obligation' = Uncertain(obligation, job[w].generation, w,
                             "REQUEST_UNRESOLVED")
  /\ Return(w)
  /\ UNCHANGED <<payments, results, outside>>

-----------------------------------------------------------------------------
(* Settling                                                                 *)

BeginVerification(w) ==
  LET p == job[w].payment
      a == job[w].authority
      o == LoadedObligation
  IN
  /\ At(w, "settle")
  /\ payments' = LoadedPayments
  /\ \/ /\ o.selected # p
        /\ results' = SavedResult(results,
             [generation |-> o.generation, owner |-> p,
              operation |-> "CALLBACK", outcome |-> "COMPETING_CALLBACK",
              authority |-> a])
        /\ obligation' = o
        /\ Return(w)
     \/ /\ o.selected = p
        /\ o.state = "SETTLED"
        /\ obligation' = o
        /\ GoTo(w, "complete")
        /\ UNCHANGED results
     \/ /\ o.selected = p
        /\ o.state # "SETTLED"
        /\ CaptureSaved(results, a)
        /\ obligation' = o
        /\ GoTo(w, "record")
        /\ UNCHANGED results
     \/ /\ o.selected = p
        /\ o.state # "SETTLED"
        /\ ~CaptureSaved(results, a)
        /\ CanCheck(o, results, a)
        /\ obligation' = Claimed(o, "VERIFY", p, w)
        /\ job' = [job EXCEPT ![w].pc = "verify",
                              ![w].generation = o.generation + 1]
        /\ UNCHANGED results
     \/ /\ o.selected = p
        /\ o.state # "SETTLED"
        /\ ~CaptureSaved(results, a)
        /\ ~CanCheck(o, results, a)
        /\ obligation' = o
        /\ Return(w)
        /\ UNCHANGED results
  /\ UNCHANGED outside

SendVerify(w) ==
  /\ At(w, "verify")
  /\ calls' = calls \cup {[owner |-> w, generation |-> job[w].generation,
                           payment |-> job[w].payment,
                           authority |-> job[w].authority]}
  /\ GoTo(w, "awaitVerdict")
  /\ UNCHANGED <<records, gateway, offered, requests>>

VerifyResult(w, outcome) ==
  [generation |-> job[w].generation, owner |-> w, operation |-> "VERIFY",
   outcome |-> outcome, authority |-> job[w].authority]

\* If the evidence cannot be saved the invocation ends ("persist-failed").
SaveCaptured(w) ==
  /\ At(w, "saveCaptured")
  /\ results' = SavedResult(results, VerifyResult(w, "CAPTURED"))
  /\ GoTo(w, "record")
  /\ UNCHANGED <<payments, obligation, outside>>

SaveNotCaptured(w) ==
  /\ At(w, "saveRejected") \/ At(w, "saveNoVerdict")
  /\ \/ results' = SavedResult(results,
          VerifyResult(w, IF At(w, "saveRejected") THEN "REJECTED" ELSE "UNKNOWN"))
     \/ UNCHANGED results
  /\ GoTo(w, "verifyUncertain")
  /\ UNCHANGED <<payments, obligation, outside>>

VerifyUncertain(w) ==
  /\ At(w, "verifyUncertain")
  /\ obligation' = Uncertain(obligation, job[w].generation, w,
                             "VERIFY_UNRESOLVED")
  /\ Return(w)
  /\ UNCHANGED <<payments, results, outside>>

-----------------------------------------------------------------------------
(* Any invocation may end early.  What it has sent to the gateway lives on. *)

Abort(w) ==
  /\ ~At(w, "idle")
  /\ Return(w)
  /\ UNCHANGED <<records, outside>>

-----------------------------------------------------------------------------
(* The gateway (external), as the adapter in lib/payments/zarinpal.ts       *)
(* reads its answers.                                                       *)

Waiting(c) == /\ job[c.owner].pc \in {"awaitAuthority", "awaitVerdict"}
              /\ job[c.owner].generation = c.generation

Deliver(c, step, a) ==
  job' = [job EXCEPT ![c.owner].pc = step, ![c.owner].authority = a]

\* A request is granted a new authority.  The answer may be lost.
GatewayGrants ==
  \E c \in calls, a \in Authorities :
    /\ c.authority = None
    /\ gateway[a] = "UNISSUED"
    /\ gateway' = [gateway EXCEPT ![a] = "OPEN"]
    /\ calls' = calls \ {c}
    /\ \/ Waiting(c) /\ Deliver(c, "saveAuthority", a)
       \/ UNCHANGED job
    /\ UNCHANGED <<records, offered, requests>>

\* Verifying a paid authority captures the money; verifying it again answers
\* the same (codes 100 and 101).  The answer may be lost.
GatewayCaptures ==
  \E c \in calls :
    /\ c.authority # None
    /\ gateway[c.authority] \in {"PAID", "CAPTURED"}
    /\ gateway' = [gateway EXCEPT ![c.authority] = "CAPTURED"]
    /\ calls' = calls \ {c}
    /\ \/ Waiting(c) /\ Deliver(c, "saveCaptured", c.authority)
       \/ UNCHANGED job
    /\ UNCHANGED <<records, offered, requests>>

\* An unpaid authority is rejected with one of the documented codes.
GatewayRejects ==
  \E c \in calls :
    /\ c.authority # None
    /\ gateway[c.authority] = "OPEN"
    /\ Waiting(c)
    /\ c.generation < MaxGeneration
    /\ calls' = calls \ {c}
    /\ Deliver(c, "saveRejected", c.authority)
    /\ UNCHANGED <<records, gateway, offered, requests>>

\* A call that never arrives, or is answered by nothing the adapter trusts.
GatewayDrops ==
  \E c \in calls :
    /\ calls' = calls \ {c}
    /\ UNCHANGED <<records, job, gateway, offered, requests>>

\* The adapter gives up: a timeout, a 5xx, a malformed answer.  The call may
\* still be alive at the gateway.
RemoteFails(w) ==
  /\ \/ At(w, "awaitAuthority") /\ GoTo(w, "saveNoAuthority")
     \/ At(w, "awaitVerdict") /\ GoTo(w, "saveNoVerdict")
  /\ UNCHANGED <<records, outside>>

-----------------------------------------------------------------------------
(* The applicant at the bank page                                           *)

ApplicantPays ==
  \E a \in offered :
    /\ gateway[a] = "OPEN"
    /\ gateway' = [gateway EXCEPT ![a] = "PAID"]
    /\ UNCHANGED <<records, job, calls, offered, requests>>

Remote(w) ==
  \/ SendRequest(w) \/ SaveAuthority(w) \/ SaveNoAuthority(w) \/ RequestUncertain(w)
  \/ SendVerify(w) \/ SaveCaptured(w) \/ SaveNotCaptured(w) \/ VerifyUncertain(w)
  \/ RemoteFails(w)

Gateway ==
  \/ GatewayGrants \/ GatewayCaptures \/ GatewayRejects \/ GatewayDrops
  \/ ApplicantPays

-----------------------------------------------------------------------------
(* Properties                                                               *)

\* At most one payment request is ever sent for an application, whatever
\* crashes, times out or is retried, and none for one that already has a
\* payment row from before: startPayment never charges a second time.
OneRequest ==
  /\ requests <= 1
  /\ requests = 1 => \E p \in Payments : Rows = {p}

\* Why OneRequest holds, as an inductive invariant: an obligation is READY
\* only while the application has no payment row at all, a claimed request
\* leaves a row behind at once, and no row is ever taken away; so the one
\* invocation on its way to send a request was the first to get that far.
\* And a payment becomes verified and its obligation settled together.
WithPayment == Steps \ {"idle", "reserve", "complete", "claimIntent", "sms",
                         "smsSent", "smsFailed"}

RowsAreReal ==
  /\ \A p \in Payments : payments[p].authority # None => p \in Rows
  /\ obligation.selected # None => obligation.selected \in Rows
  /\ \A w \in Workers : job[w].pc \in WithPayment => job[w].payment \in Rows
  /\ \A w \in Workers :
       job[w].pc \in {"saveAuthority", "finish"} => job[w].authority # None

FreshObligation ==
  /\ obligation.state \in {"ABSENT", "READY"}
       => obligation.selected = None /\ obligation.owner = None
  /\ obligation.state = "READY" => Rows = {}

SettledIsVerified ==
  obligation.state # "ABSENT" => (obligation.state = "SETTLED" <=> Verified # {})

OneRequester ==
  /\ \A w \in Workers : At(w, "request") => requests = 0 /\ IsSingleton(Rows)
  /\ \A v, w \in Workers : At(v, "request") /\ At(w, "request") => v = w

PaymentInv ==
  /\ PaymentTypeOK
  /\ RowsAreReal
  /\ FreshObligation
  /\ SettledIsVerified
  /\ OneRequester
  /\ OneRequest

\* No remote call is issued while an earlier one may still be alive at the
\* gateway, even one whose caller timed out or crashed: what the comment on
\* canCheck in beginPaymentVerification promises.
OneLiveCall == \A c, d \in calls : c = d

\* An obligation is settled exactly when a payment of the application is
\* verified, the selected one; and when the program itself verified it, the
\* evidence that the gateway captured its authority is on record.
SettledIsBacked ==
  /\ SettledIsVerified
  /\ obligation.state = "SETTLED" /\ obligation.selected # None
       => /\ obligation.selected \in Verified
          /\ obligation.operation # "NONE" =>
               CaptureSaved(results, payments[obligation.selected].authority)

\* Nothing but the gateway's own confirmation makes a payment verified or
\* counts as capture evidence: the browser's return proves nothing.
CaptureIsGenuine ==
  /\ \A p \in Verified : /\ payments[p].authority # None
                        /\ gateway[payments[p].authority] = "CAPTURED"
  /\ \A a \in Authorities :
       CaptureSaved(results, a) => gateway[a] = "CAPTURED"

\* The payment page that is offered is the selected payment's, so the money
\* that arrives is money the program will look for.
OfferIsSelected ==
  obligation.state = "PAYABLE" =>
    /\ obligation.selected # None
    /\ payments[obligation.selected].authority \in Authorities
    /\ offered \subseteq {payments[obligation.selected].authority}

\* What the program believes of the gateway is true: a call it takes for dead
\* is dead, evidence of a capture is genuine, and the page it offers is that of
\* the payment it will look for.
CallsAreTrue == OneLiveCall /\ CaptureIsGenuine /\ OfferIsSelected

\* Why CallsAreTrue and SettledIsBacked hold, as an inductive invariant on top
\* of PaymentInv.  Whoever is on its way with the present generation made the
\* present claim; everybody else was overtaken.
Asking   == {"request", "awaitAuthority", "saveAuthority", "finish",
             "saveNoAuthority", "requestUncertain"}
Checking == {"verify", "awaitVerdict", "saveCaptured", "saveRejected",
             "saveNoVerdict", "verifyUncertain"}

ClaimsFit ==
  /\ obligation.state = "ABSENT" => obligation = NoObligation
  /\ obligation.state = "READY" => obligation.operation = "NONE"
  /\ \A w \in Workers :
       job[w].pc \in Asking \cup Checking =>
         /\ job[w].generation <= obligation.generation
         /\ job[w].generation = obligation.generation =>
              /\ obligation.owner = w
              /\ obligation.selected = job[w].payment
              /\ obligation.operation =
                   IF job[w].pc \in Asking THEN "REQUEST" ELSE "VERIFY"

\* Whatever the gateway was asked, it was asked for the only row there is.
OneRow ==
  /\ obligation.operation # "NONE" => Rows = {obligation.selected}
  /\ obligation.reason = "HISTORICAL_ATTEMPT" => IsSingleton(Rows)

\* The present claim was answered, so nothing of it is alive any more.
Answers == {"AUTHORITY", "CAPTURED", "REJECTED"}
Answered ==
  \/ obligation.state = "PAYABLE"
  \/ \E r \in results : /\ r.generation = obligation.generation
                        /\ r.outcome \in Answers
  \/ \E w \in Workers :
       /\ job[w].pc \in {"saveAuthority", "finish", "saveCaptured", "saveRejected"}
       /\ job[w].generation = obligation.generation

Sending(w) == job[w].pc \in {"request", "verify"}

CallsFit ==
  /\ OneLiveCall
  /\ \A c \in calls :
       /\ c.generation = obligation.generation
       /\ c.owner = obligation.owner
       /\ c.payment = obligation.selected
       /\ c.authority = None => obligation.operation = "REQUEST"
       /\ c.authority # None => /\ obligation.operation = "VERIFY"
                                /\ c.authority = payments[c.payment].authority
  /\ \A w \in Workers : Sending(w) => /\ job[w].generation = obligation.generation
                                      /\ calls = {}
  /\ calls # {} \/ (\E w \in Workers : Sending(w)) => ~Answered

\* One authority at most is issued for the request of the program, and every
\* authority that anybody holds was issued.
Unissued(a) == gateway[a] = "UNISSUED"
Ungranted == \/ Rows = {}
             \/ \E w \in Workers : job[w].pc = "request"
             \/ \E c \in calls : c.authority = None

AuthoritiesFit ==
  /\ \A p \in Payments : payments[p].authority # None => ~Unissued(payments[p].authority)
  /\ \A w \in Workers :
       job[w].pc \in {"saveAuthority", "finish"} => ~Unissued(job[w].authority)
  /\ \A a \in Authorities :
       a \in offered \/ gateway[a] \in {"PAID", "CAPTURED"} => Issued(a)
  /\ Ungranted => \A a \in Authorities : Unissued(a)
  /\ obligation.operation = "REQUEST" =>
       \A a, b \in Authorities : Unissued(a) \/ Unissued(b) \/ a = b

\* Evidence is no newer than the claim, genuine, and of the selected payment.
EvidenceFits ==
  \A r \in results :
    /\ r.outcome \in Answers => r.generation <= obligation.generation
    /\ r.outcome = "AUTHORITY" => r.authority # None /\ ~Unissued(r.authority)
    /\ r.outcome = "CAPTURED" =>
         /\ obligation.operation = "VERIFY"
         /\ r.authority # None
         /\ r.authority = payments[obligation.selected].authority
         /\ gateway[r.authority] = "CAPTURED"

\* Who settles a payment has its authority, and from the claim on the payment
\* is the selected one.
SettlementsFit ==
  \A w \in Workers :
    /\ job[w].pc \in Checking \cup {"settle", "record"} =>
         /\ job[w].authority # None
         /\ job[w].authority = payments[job[w].payment].authority
    /\ job[w].pc \in Checking \cup {"record"} =>
         /\ obligation.operation = "VERIFY"
         /\ obligation.selected = job[w].payment
    /\ job[w].pc = "saveCaptured" => gateway[job[w].authority] = "CAPTURED"
    /\ job[w].pc = "record" => CaptureSaved(results, job[w].authority)

\* The only page that was ever offered is that of the one authority.
OffersFit ==
  /\ obligation.state = "PAYABLE" =>
       /\ obligation.operation = "REQUEST"
       /\ payments[obligation.selected].authority # None
  /\ obligation.operation = "REQUEST" =>
       offered \subseteq {payments[obligation.selected].authority}

EvidenceInv ==
  /\ PaymentInv
  /\ ClaimsFit
  /\ OneRow
  /\ CallsFit
  /\ AuthoritiesFit
  /\ EvidenceFits
  /\ SettlementsFit
  /\ OffersFit
  /\ CaptureIsGenuine
  /\ SettledIsBacked

\* What the triggers of the migration forbid is never even tried, so no
\* transaction of the coordinator is aborted by them: the selection and a
\* settlement are final, and results are only ever added.
SelectionIsFinal ==
  [][ /\ obligation.selected # None => obligation'.selected = obligation.selected
      /\ obligation.state = "SETTLED" => obligation'.state = "SETTLED"
      /\ results \subseteq results' ]_payVars

\* Once a verification was claimed the obligation is never payable again: a
\* late answer to the request cannot reopen the payment page's state.
NeverReopened ==
  [][ obligation.operation = "VERIFY" =>
        /\ obligation'.operation = "VERIFY"
        /\ obligation'.state # "PAYABLE" ]_payVars

\* Money whose capture is on record is recorded as paid, whatever crashed
\* between the two commits.
EvidenceSettles ==
  (\E a \in Authorities : CaptureSaved(results, a))
    ~> (obligation.state = "SETTLED")

=============================================================================
