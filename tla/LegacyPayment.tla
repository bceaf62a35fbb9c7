--------------------------- MODULE LegacyPayment ---------------------------
(***************************************************************************)
(* The payment of one legacy (company validation) application: the server  *)
(* action startPayment, the gateway's callback route, the settlement they  *)
(* share, and the submission notice that follows, run by several server    *)
(* invocations at once.  The reviewers who may pick the application up     *)
(* are part of the environment.                                            *)
(***************************************************************************)
EXTENDS PaymentInvocation

VARIABLES
  status,      \* Application.status
  intent,      \* PaymentNotificationIntent.state
  notices      \* how many times the submission SMS were sent

vars == <<payVars, status, intent, notices>>

Unsubmitted == {"DRAFT", "PENDING_PAYMENT"}
Reviewed    == {"SUBMITTED", "UNDER_REVIEW", "NEEDS_EDIT", "VALIDATION_COMPLETED"}

\* Types of the payment, the status and the notice to the reviewers.
TypeOK ==
  /\ PaymentTypeOK
  /\ status \in Unsubmitted \cup Reviewed
  /\ intent \in {"NONE", "PENDING", "CLAIMED", "SENT", "UNKNOWN"}
  /\ notices \in Nat

\* The payments that the migration found.
History ==
  {r \in PaymentRow :
     /\ r.status \in {"INITIATED", "VERIFIED", "FAILED"}
     /\ r.status = "VERIFIED" => r.authority # None}

Init ==
  /\ PaymentInit(History)
  /\ status \in IF Rows = {} THEN {"DRAFT"}
                ELSE IF Verified = {} THEN Unsubmitted
                ELSE {"PENDING_PAYMENT", "SUBMITTED"}
  /\ intent = "NONE"
  /\ notices = 0

\* What recoverPaymentAuthority does to the status on its way.
LoadedStatus ==
  IF Recovering /\ status = "DRAFT" THEN "PENDING_PAYMENT" ELSE status

-----------------------------------------------------------------------------
(* startPayment                                                             *)

\* The unlocked read: a paid application that was never submitted is
\* completed before the form is looked at.
StartPayment(w) ==
  /\ At(w, "idle")
  /\ GoTo(w, IF status = "PENDING_PAYMENT" /\ Verified # {}
             THEN "complete" ELSE "reserve")
  /\ UNCHANGED <<records, outside, status, intent, notices>>

\* The reservation transaction of an application that is already paid: an
\* unsubmitted or returned form is submitted without another payment.
ReservePaid(w) ==
  /\ At(w, "reserve")
  /\ Verified # {}
  /\ \/ /\ status \in Unsubmitted \cup {"NEEDS_EDIT"}
        /\ status' = "SUBMITTED"
        /\ intent' = IF /\ status # "NEEDS_EDIT" /\ obligation.state # "ABSENT"
                        /\ intent = "NONE"
                     THEN "PENDING" ELSE intent
     \/ /\ status \notin Unsubmitted \cup {"NEEDS_EDIT"}
        /\ UNCHANGED <<status, intent>>
  /\ GoTo(w, "claimIntent")
  /\ UNCHANGED <<records, outside, notices>>

\* A payment is under way or in doubt.
ReserveExisting(w) ==
  /\ Verified = {}
  /\ LoadedObligation.state # "READY"
  /\ ServeExisting(w)
  /\ status' = LoadedStatus
  /\ UNCHANGED <<intent, notices>>

\* Nothing was ever asked for.  (The code's branch for an application under review with nothing paid has no
\* state to run in: SubmittedIsPaid.)
ReserveNew(w) ==
  /\ Verified = {}
  /\ status \in Unsubmitted
  /\ NewPayment(w)
  /\ UNCHANGED <<status, intent, notices>>

FinishRequest(w) ==
  /\ Publish(w)
  /\ Return(w)
  /\ status' = IF Publishes(w) /\ status = "DRAFT" THEN "PENDING_PAYMENT" ELSE status
  /\ UNCHANGED <<intent, notices>>

-----------------------------------------------------------------------------
(* The callback route, and settleLegacyPayment                              *)

\* A callback whose authority is not the row's own changes nothing.  The
\* Status parameter of the browser is not looked at.
Callback(w, p) ==
  /\ At(w, "idle")
  /\ payments[p].authority # None
  /\ job' = [job EXCEPT ![w] =
               [pc |-> IF p \in Verified THEN "complete" ELSE "settle",
                payment |-> p, authority |-> payments[p].authority,
                generation |-> 0]]
  /\ UNCHANGED <<records, outside, status, intent, notices>>

\* The recovery in its first transaction may also move the status.
Verify(w) ==
  /\ BeginVerification(w)
  /\ status' = LoadedStatus
  /\ UNCHANGED <<intent, notices>>

\* The money is recorded before, and apart from, the submission.
RecordCapture(w) ==
  /\ At(w, "record")
  /\ IF obligation.state # "SETTLED" /\ job[w].payment \notin Verified
     THEN /\ payments' = [payments EXCEPT ![job[w].payment].status = "VERIFIED"]
          /\ obligation' = [obligation EXCEPT !.state = "SETTLED",
                                              !.reason = "NONE"]
     ELSE UNCHANGED <<payments, obligation>>
  /\ GoTo(w, "complete")
  /\ UNCHANGED <<results, outside, status, intent, notices>>

\* Mutant: nobody goes on to send the notice that was recorded.
CompleteWithoutNotice(w) ==
  /\ At(w, "complete")
  /\ status' = IF status \in Unsubmitted /\ Verified # {} THEN "SUBMITTED" ELSE status
  /\ intent' = IF status \in Unsubmitted /\ intent = "NONE" THEN "PENDING" ELSE intent
  /\ Return(w)
  /\ UNCHANGED <<records, outside, notices>>

\* completeVerifiedLegacySubmission: submit, or send the form back for repair
\* when its documents no longer qualify; a failed transaction is swallowed.
CompleteSubmission(w) ==
  /\ At(w, "complete")
  /\ \/ /\ status \in Unsubmitted
        /\ Verified # {}
        /\ status' = "SUBMITTED"
        /\ intent' = IF obligation.state # "ABSENT" /\ intent = "NONE"
                     THEN "PENDING" ELSE intent
     \/ /\ status = "PENDING_PAYMENT"
        /\ Verified # {}
        /\ status' = "DRAFT"
        /\ UNCHANGED intent
     \/ UNCHANGED <<status, intent>>
  /\ GoTo(w, "claimIntent")
  /\ UNCHANGED <<records, outside, notices>>

-----------------------------------------------------------------------------
(* dispatchSubmissionIntent                                                 *)

\* Mutant: an uncertain notice is sent again.
ClaimUncertainIntent(w) ==
  /\ At(w, "claimIntent")
  /\ IF intent \in {"PENDING", "UNKNOWN"}
     THEN intent' = "CLAIMED" /\ GoTo(w, "sms")
     ELSE Return(w) /\ UNCHANGED intent
  /\ UNCHANGED <<records, outside, status, notices>>

ClaimIntent(w) ==
  /\ At(w, "claimIntent")
  /\ IF intent = "PENDING"
     THEN intent' = "CLAIMED" /\ GoTo(w, "sms")
     ELSE Return(w) /\ UNCHANGED intent
  /\ UNCHANGED <<records, outside, status, notices>>

SendNotices(w) ==
  /\ At(w, "sms")
  /\ notices' = notices + 1
  /\ \/ GoTo(w, "smsSent")
     \/ GoTo(w, "smsFailed")
  /\ UNCHANGED <<records, outside, status, intent>>

\* When SENT cannot be written, the same handler falls back to UNKNOWN.
RecordNotices(w) ==
  /\ At(w, "smsSent") \/ At(w, "smsFailed")
  /\ intent' \in IF At(w, "smsSent") THEN {"SENT", "UNKNOWN"} ELSE {"UNKNOWN"}
  /\ Return(w)
  /\ UNCHANGED <<records, outside, status, notices>>

-----------------------------------------------------------------------------
(* The review that may follow                                               *)

AllowedNext(s) ==
  CASE s = "SUBMITTED"    -> {"UNDER_REVIEW", "NEEDS_EDIT", "VALIDATION_COMPLETED"}
    [] s = "UNDER_REVIEW" -> {"NEEDS_EDIT", "VALIDATION_COMPLETED"}
    [] s = "NEEDS_EDIT"   -> {"UNDER_REVIEW"}
    [] OTHER              -> {}

\* changeSubmissionStatus, as far as the payment sees it
Review ==
  /\ status' \in AllowedNext(status)
  /\ UNCHANGED <<payVars, intent, notices>>

-----------------------------------------------------------------------------
Invocation(w) ==
  \/ ReservePaid(w) \/ ReserveExisting(w) \/ ReserveNew(w) \/ FinishRequest(w)
  \/ Verify(w) \/ RecordCapture(w) \/ CompleteSubmission(w)
  \/ ClaimIntent(w) \/ SendNotices(w) \/ RecordNotices(w)
  \/ Remote(w) /\ UNCHANGED <<status, intent, notices>>

Next ==
  \/ \E w \in Workers : \/ StartPayment(w)
                        \/ \E p \in Payments : Callback(w, p)
                        \/ Invocation(w)
                        \/ Abort(w) /\ UNCHANGED <<status, intent, notices>>
  \/ Gateway /\ UNCHANGED <<status, intent, notices>>
  \/ Review

Spec == Init /\ [][Next]_vars

-----------------------------------------------------------------------------
(* Properties                                                               *)

\* An application leaves the applicant's hands only when it is paid.
SubmittedIsPaid == status \in Reviewed => Verified # {}

\* The submission SMS are sent at most once, and only for a submitted
\* application that is paid, although every callback and every click on "pay"
\* tries to send them.
NoticeOnce ==
  /\ notices <= 1
  /\ notices = 1 => status \in Reviewed /\ Verified # {}

\* The whole promise at once, of which a part is that no late callback or retry
\* pulls an application back out of the review: LegacyPayment implements
\* PaymentPromise, with the money followed from the gateway to the payment row.
Promise == INSTANCE PaymentPromise WITH
  attempts <- Rows,
  captured <- {p \in Rows : /\ payments[p].authority # None
                            /\ gateway[payments[p].authority] = "CAPTURED"},
  recorded <- Verified,
  filed    <- status \in Reviewed

KeepsPromise == Promise!Spec

\* Nothing that comes late undoes what was done: no answer reopens the payment,
\* an obligation is settled only with a verified payment and its evidence, and
\* the promise of the payment is kept, in either programme: what it is made of,
\* Rows, Verified and Reviewed, is the same.
SubmissionHolds == NeverReopened /\ []SettledIsBacked /\ KeepsPromise

-----------------------------------------------------------------------------
(* Liveness.  The payment page or the gateway keeps calling back: one slot  *)
(* of invocations takes callbacks again and again, runs on until it returns *)
(* or ends early, and a transaction that it tries again and again does not  *)
(* fail every time.  Nothing is assumed of the other invocations, of the    *)
(* gateway's answers, of payment or of the reviewers.                       *)

Fairness ==
  \A w \in Retriers :
    /\ WF_vars(Invocation(w))
    /\ \A p \in Payments : SF_vars(Callback(w, p))
    /\ SF_vars(Verify(w))
    /\ SF_vars(RecordCapture(w))
    /\ SF_vars(CompleteSubmission(w) /\ status' # "PENDING_PAYMENT")
    /\ SF_vars(ClaimIntent(w))

FairSpec == Spec /\ Fairness

\* A paid application does not stay behind in PENDING_PAYMENT: it is submitted
\* or handed back for repair.
PaidMovesOn ==
  (Verified # {} /\ status = "PENDING_PAYMENT") ~> (status # "PENDING_PAYMENT")

\* A pending submission notice is eventually taken up.
NoticeIsClaimed == (intent = "PENDING") ~> (intent # "PENDING")

\* What the callback route says of the outcomes "unknown" and
\* "persist-failed": the row "is re-verified on the next retry or
\* re-delivery".  The code re-verifies only after a rejection.
UnresolvedIsReverified ==
  \A g \in 1..MaxGeneration :
    (obligation.reason = "VERIFY_UNRESOLVED" /\ obligation.generation = g)
      ~> (obligation.generation > g \/ obligation.state = "SETTLED")

=============================================================================
