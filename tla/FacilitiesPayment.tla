------------------------- MODULE FacilitiesPayment -------------------------
(***************************************************************************)
(* The payment of one facilities application that has a fee:               *)
(* startFacilitiesPayment, the verification of a callback, the two phases  *)
(* of recording and submitting, and submitFacilitiesApplication, run by    *)
(* several server invocations at once (lib/actions/facilities-payment.ts). *)
(***************************************************************************)
EXTENDS PaymentInvocation

VARIABLE status  \* FacilitiesApplication.status

vars == <<payVars, status>>

Unsubmitted == {"DRAFT", "PENDING_PAYMENT"}
Reviewed    == {"SUBMITTED", "UNDER_REVIEW", "NEEDS_EDIT", "VALIDATION_COMPLETED"}
Active      == {"INITIATED", "REDIRECT_READY", "PENDING", "TIMED_OUT"}

\* Types of the payment and the status.
TypeOK == PaymentTypeOK /\ status \in Unsubmitted \cup Reviewed

\* The attempts that the migration found.  An authority was always written
\* together with REDIRECT_READY.
History ==
  {r \in PaymentRow :
     /\ r.status # "ABSENT"
     /\ r.status \in {"REDIRECT_READY", "PENDING", "VERIFIED"} => r.authority # None
     /\ r.status = "INITIATED" => r.authority = None}

\* The unique indexes of the table allow one active and one verified attempt.
Init ==
  /\ PaymentInit(History)
  /\ \A p, q \in Payments :
       p # q /\ payments[p].status \in Active => payments[q].status \notin Active
  /\ Verified # {} => IsSingleton(Verified)
  /\ status \in IF Verified = {} THEN Unsubmitted
                ELSE {"DRAFT", "PENDING_PAYMENT", "SUBMITTED"}

-----------------------------------------------------------------------------
(* startFacilitiesPayment                                                   *)

StartPayment(w) ==
  /\ At(w, "idle")
  /\ GoTo(w, "reserve")
  /\ UNCHANGED <<records, outside, status>>

\* A captured payment that was not submitted: complete it.
ReserveCaptured(w) ==
  /\ At(w, "reserve")
  /\ status = "PENDING_PAYMENT"
  /\ Verified # {}
  /\ GoTo(w, "complete")
  /\ UNCHANGED <<records, outside, status>>

\* A payment is under way or in doubt.
ReserveExisting(w) ==
  /\ status \notin {"SUBMITTED", "VALIDATION_COMPLETED"}
  /\ ~(status = "PENDING_PAYMENT" /\ Verified # {})
  /\ LoadedObligation.state \notin {"READY", "SETTLED"}
  /\ ServeExisting(w)
  /\ UNCHANGED status

\* The fee is paid: submit, or resubmit after a correction.
ReservePaid(w) ==
  /\ At(w, "reserve")
  /\ status \in {"DRAFT", "NEEDS_EDIT"}
  /\ LoadedObligation.state \in {"READY", "SETTLED"}
  /\ Verified # {}
  /\ obligation' = LoadedObligation
  /\ status' = "SUBMITTED"
  /\ Return(w)
  /\ UNCHANGED <<payments, results, outside>>

\* Nothing was ever asked for.  (An unpaid application under review, or an
\* unpaid settled obligation, has no state to occur in: SubmittedIsPaid,
\* SettledIsBacked.)  A leftover PENDING_PAYMENT passes through DRAFT.
ReserveNew(w) ==
  /\ Verified = {}
  /\ status \in Unsubmitted
  /\ NewPayment(w)
  /\ status' = "PENDING_PAYMENT"

\* The commit may be reported as failed although it was made.
FinishRequest(w) ==
  /\ Publish(w)
  /\ Return(w) \/ GoTo(w, "saveNoAuthority")
  /\ UNCHANGED status

\* Unlike the legacy programme, a failure to save or to publish the authority
\* is handled like a failure of the request itself.
FinishFails(w) ==
  /\ At(w, "saveAuthority") \/ At(w, "finish")
  /\ GoTo(w, "saveNoAuthority")
  /\ UNCHANGED <<records, outside, status>>

-----------------------------------------------------------------------------
(* verifyFacilitiesPaymentCallback                                          *)

\* A callback whose authority is not the row's own changes nothing, nor does
\* one for a closed attempt that does not claim to be OK.
Callback(w, p) ==
  /\ At(w, "idle")
  /\ payments[p].authority # None
  /\ job' = [job EXCEPT ![w] =
               [pc |-> IF p \in Verified THEN "complete" ELSE "settle",
                payment |-> p, authority |-> payments[p].authority,
                generation |-> 0]]
  /\ UNCHANGED <<records, outside, status>>

Verify(w) ==
  /\ BeginVerification(w)
  /\ UNCHANGED status

\* Mutant: a closed attempt is not reopened for the money that came late.
RecordInTime(w) ==
  /\ At(w, "record")
  /\ payments[job[w].payment].status \in Active
  /\ payments' = [payments EXCEPT ![job[w].payment].status = "VERIFIED"]
  /\ obligation' = [obligation EXCEPT !.state = "SETTLED", !.reason = "NONE"]
  /\ GoTo(w, "complete")
  /\ UNCHANGED <<results, outside, status>>

\* First phase: record the money, whatever the attempt's state (late capture).
RecordCapture(w) ==
  /\ At(w, "record")
  /\ \/ /\ job[w].payment \in Verified
        /\ GoTo(w, "complete")
        /\ UNCHANGED <<payments, obligation>>
     \/ /\ job[w].payment \notin Verified
        /\ payments[job[w].payment].authority = job[w].authority
        /\ payments' = [payments EXCEPT ![job[w].payment].status = "VERIFIED"]
        /\ obligation' = [obligation EXCEPT !.state = "SETTLED",
                                            !.reason = "NONE"]
        /\ GoTo(w, "complete")
  /\ UNCHANGED <<results, outside, status>>

\* Second phase: submit, or hand the form back when its documents no longer
\* qualify; a failed transaction is swallowed.
CompleteSubmission(w) ==
  /\ At(w, "complete")
  /\ \/ /\ status \in Unsubmitted
        /\ status' = "SUBMITTED"
     \/ /\ status = "PENDING_PAYMENT"
        /\ status' = "DRAFT"
     \/ UNCHANGED status
  /\ Return(w)
  /\ UNCHANGED <<records, outside>>

-----------------------------------------------------------------------------
(* submitFacilitiesApplication, and the review                              *)

\* Mutant: only the form is checked, not the payment.
SubmitUnpaid ==
  /\ status \in Unsubmitted \cup {"NEEDS_EDIT"}
  /\ status' = "SUBMITTED"
  /\ UNCHANGED payVars

Submit ==
  /\ status \in Unsubmitted \cup {"NEEDS_EDIT"}
  /\ Verified # {}
  /\ status' = "SUBMITTED"
  /\ UNCHANGED payVars

AllowedNext(s) ==
  CASE s = "SUBMITTED"    -> {"UNDER_REVIEW"}
    [] s = "UNDER_REVIEW" -> {"NEEDS_EDIT", "VALIDATION_COMPLETED"}
    [] OTHER              -> {}

Review ==
  /\ status' \in AllowedNext(status)
  /\ UNCHANGED payVars

-----------------------------------------------------------------------------
Invocation(w) ==
  \/ ReserveCaptured(w) \/ ReserveExisting(w) \/ ReservePaid(w) \/ ReserveNew(w)
  \/ FinishRequest(w) \/ FinishFails(w)
  \/ Verify(w) \/ RecordCapture(w) \/ CompleteSubmission(w)
  \/ Remote(w) /\ UNCHANGED status

Next ==
  \/ \E w \in Workers : \/ StartPayment(w)
                        \/ \E p \in Payments : Callback(w, p)
                        \/ Invocation(w)
                        \/ Abort(w) /\ UNCHANGED status
  \/ Gateway /\ UNCHANGED status
  \/ Submit
  \/ Review

Spec == Init /\ [][Next]_vars

-----------------------------------------------------------------------------
(* Properties                                                               *)

\* An application is submitted, reviewed or returned only when it is paid.
SubmittedIsPaid == status \in Reviewed => Verified # {}

\* What the trigger enforce_facilities_payment_integrity lets an attempt do.
LegalAttempt(old, new) ==
  \/ new = old
  \/ old.status = "ABSENT" /\ new.status = "INITIATED"
  \/ /\ old.status # "VERIFIED"
     /\ new.status \in {"REDIRECT_READY", "PENDING", "VERIFIED"} => new.authority # None
     /\ new.status = old.status \/
        new.status \in
          CASE old.status = "INITIATED" ->
                 {"REDIRECT_READY", "PENDING", "FAILED", "CANCELLED", "TIMED_OUT"}
            [] old.status = "REDIRECT_READY" ->
                 {"PENDING", "VERIFIED", "FAILED", "CANCELLED", "TIMED_OUT"}
            [] old.status = "PENDING" ->
                 {"VERIFIED", "FAILED", "CANCELLED", "TIMED_OUT"}
            [] old.status = "TIMED_OUT" -> {"VERIFIED", "FAILED"}
            [] old.status \in {"FAILED", "CANCELLED"} /\ old.authority # None ->
                 {"VERIFIED"}
            [] OTHER -> {}

\* ... and enforce_facilities_application_status_transition an application.
LegalStatus ==
  {<<"DRAFT", "PENDING_PAYMENT">>, <<"DRAFT", "SUBMITTED">>,
   <<"PENDING_PAYMENT", "DRAFT">>, <<"PENDING_PAYMENT", "SUBMITTED">>,
   <<"SUBMITTED", "UNDER_REVIEW">>, <<"UNDER_REVIEW", "NEEDS_EDIT">>,
   <<"UNDER_REVIEW", "VALIDATION_COMPLETED">>, <<"NEEDS_EDIT", "SUBMITTED">>}

\* A step whose every write the triggers and the unique indexes allow.
LegalStep ==
  /\ \A p \in Payments : LegalAttempt(payments[p], payments'[p])
  /\ status' # status => <<status, status'>> \in LegalStatus
  /\ \A p, q \in Payments :
       p # q /\ payments'[p].status \in Active => payments'[q].status \notin Active
  /\ Verified' # {} => IsSingleton(Verified')

\* The promise of LegacyPayment, kept by the facilities programme.
Promise == INSTANCE PaymentPromise WITH
  attempts <- Rows,
  captured <- {p \in Rows : /\ payments[p].authority # None
                            /\ gateway[payments[p].authority] = "CAPTURED"},
  recorded <- Verified,
  filed    <- status \in Reviewed

KeepsPromise == Promise!Spec

=============================================================================
