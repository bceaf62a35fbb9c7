------------------------ MODULE LegacyPaymentProofs ------------------------
(* What holds of LegacyPayment for every number of invocations, payments    *)
(* and authorities, proved.                                                 *)
EXTENDS LegacyPayment, PaymentInvocationProofs

(* Every step keeps PaymentInv.  The steps the programmes share are done in *)
(* PaymentInvocationProofs; here they get what the legacy programme adds.   *)

LEMMA LegacyInit == Init => PaymentInv
<1>1. History \subseteq {r \in PaymentRow : r.status # "ABSENT"}
  BY DEF History
<1>. QED  BY <1>1, InitInv DEF Init

LEMMA CallbackStep ==
  ASSUME PaymentInv, NEW w \in Workers, NEW p \in Payments, Callback(w, p)
  PROVE  PaymentInv' /\ Kept
<1>1. p \in Rows /\ payments[p].authority \in Authorities
  BY DEF Callback, PaymentInv, RowsAreReal, PaymentTypeOK, PaymentRow
<1>2. job' \in [Workers -> Job] /\ StaysOnRow
  BY <1>1, SettleStays DEF Callback
<1>. QED  BY <1>2, JobOnly DEF Callback

\* The steps of the submission and of its notice: no money is touched.
LEMMA BusinessStep ==
  ASSUME PaymentInv, NEW w \in Workers,
         ReservePaid(w) \/ CompleteSubmission(w) \/ ClaimIntent(w)
           \/ SendNotices(w) \/ RecordNotices(w) \/ StartPayment(w)
  PROVE  PaymentInv' /\ Kept
<1>1. \/ Return(w)
      \/ \E step \in {"claimIntent", "sms", "smsSent", "smsFailed", "complete",
                      "reserve"} : GoTo(w, step)
  BY DEF ReservePaid, CompleteSubmission, ClaimIntent, SendNotices, RecordNotices,
         StartPayment
<1>2. job' \in [Workers -> Job] /\ StaysOnRow
  BY <1>1, ReturnStays, GoToStays DEF Steps, WithPayment
<1>3. UNCHANGED <<records, outside>>
  BY DEF ReservePaid, CompleteSubmission, ClaimIntent, SendNotices, RecordNotices,
         StartPayment
<1>. QED  BY <1>2, <1>3, JobOnly

LEMMA InvocationStep ==
  ASSUME PaymentInv, NEW w \in Workers, Invocation(w)
  PROVE  PaymentInv' /\ Kept
<1>1. CASE ReserveExisting(w)
  BY <1>1, ServeExistingStep DEF ReserveExisting
<1>2. CASE ReserveNew(w)
  BY <1>2, NewPaymentStep DEF ReserveNew
<1>3. CASE FinishRequest(w)
  BY <1>3, PublishStep DEF FinishRequest
<1>4. CASE Verify(w)
  BY <1>4, BeginVerificationStep DEF Verify
<1>5. CASE RecordCapture(w)
  BY <1>5, RecordStep DEF RecordCapture
<1>. QED
  BY <1>1, <1>2, <1>3, <1>4, <1>5, BusinessStep, RemoteStep DEF Invocation

LEMMA StepInv == PaymentInv /\ [Next]_vars => PaymentInv' /\ Kept
<1>. SUFFICES ASSUME PaymentInv, [Next]_vars PROVE PaymentInv' /\ Kept
  OBVIOUS
<1>1. CASE UNCHANGED payVars
  BY <1>1, StutterStep
<1>. QED
  BY <1>1, InvocationStep, CallbackStep, BusinessStep, AbortStep, GatewayStep
     DEF Next, Review, vars

-----------------------------------------------------------------------------
(* The theorems                                                             *)

\* However many invocations run, crash and retry, a legacy application never
\* has two payments under way: the inductive invariant of startPayment, its
\* callback and its settlement.
THEOREM LegacyInvariant == Spec => []PaymentInv
<1>. QED  BY LegacyInit, StepInv, PTL DEF Spec

\* startPayment sends at most one payment request for an application.
THEOREM LegacyChargedOnce == Spec => []OneRequest
<1>1. PaymentInv => OneRequest
  BY DEF PaymentInv
<1>. QED  BY <1>1, LegacyInvariant, PTL

\* No step tries what the triggers of the database would refuse: to select
\* another payment, to leave SETTLED, or to take back a result.
THEOREM LegacySelectionKept == Spec => SelectionIsFinal
<1>. DEFINE Sel == /\ obligation.selected # None
                       => obligation'.selected = obligation.selected
                   /\ obligation.state = "SETTLED" => obligation'.state = "SETTLED"
                   /\ results \subseteq results'
<1>1. PaymentInv /\ [Next]_vars => [Sel]_payVars
  BY StepInv DEF Kept
<1>. QED  BY <1>1, LegacyInvariant, PTL DEF Spec, SelectionIsFinal

LEMMA StatusStep ==
  ASSUME PaymentInv, SubmittedIsPaid, [Next]_vars, status' \in Reviewed
  PROVE  Verified # {}
<1>1. CASE status' = status \/ status \in Reviewed
  BY <1>1 DEF SubmittedIsPaid
<1>2. ASSUME NEW w \in Workers, ReservePaid(w) \/ CompleteSubmission(w)
      PROVE  Verified # {}
  BY <1>1, <1>2 DEF ReservePaid, CompleteSubmission, Reviewed
<1>3. CASE status' \in {status, "PENDING_PAYMENT"}
  BY <1>1, <1>3 DEF Reviewed
<1>4. CASE Review
  BY <1>1, <1>4 DEF Review, AllowedNext, Reviewed
<1>5. ASSUME NEW w \in Workers, Invocation(w)
      PROVE  Verified # {}
  BY <1>2, <1>3, <1>5 DEF Invocation, ReserveExisting, ReserveNew, FinishRequest,
     Verify, LoadedStatus, RecordCapture, ClaimIntent, SendNotices, RecordNotices
<1>. QED
  BY <1>1, <1>4, <1>5 DEF Next, vars, StartPayment, Callback

\* No application is under review, returned or completed unless a payment of it
\* is verified, whatever form, callback or retry moved it there.
THEOREM LegacySubmittedOnlyPaid == Spec => []SubmittedIsPaid
<1>1. Init => SubmittedIsPaid
  BY DEF Init, SubmittedIsPaid, Reviewed, Unsubmitted, Rows, Verified
<1>2. PaymentInv /\ SubmittedIsPaid /\ [Next]_vars => SubmittedIsPaid'
  BY StepInv, StatusStep DEF SubmittedIsPaid, Kept
<1>. QED  BY <1>1, <1>2, LegacyInvariant, PTL DEF Spec

\* Every variable keeps its type.
LEMMA OwnTypes ==
  ASSUME TypeOK, [Next]_vars
  PROVE  /\ status' \in Unsubmitted \cup Reviewed
         /\ intent' \in {"NONE", "PENDING", "CLAIMED", "SENT", "UNKNOWN"}
         /\ notices' \in Nat
<1>1. AllowedNext(status) \subseteq Reviewed
  BY DEF AllowedNext, Reviewed
<1>2. ASSUME NEW w \in Workers, Invocation(w)
      PROVE  /\ status' \in Unsubmitted \cup Reviewed
             /\ intent' \in {"NONE", "PENDING", "CLAIMED", "SENT", "UNKNOWN"}
             /\ notices' \in Nat
  BY <1>2 DEF TypeOK, Invocation, ReservePaid, ReserveExisting, ReserveNew,
     FinishRequest, Verify, RecordCapture, CompleteSubmission, ClaimIntent,
     SendNotices, RecordNotices, LoadedStatus, Unsubmitted, Reviewed
<1>. QED
  BY <1>1, <1>2 DEF TypeOK, Next, vars, StartPayment, Callback, Review

THEOREM LegacyTypeCorrect == Spec => []TypeOK
<1>1. Init => TypeOK
  BY LegacyInit DEF Init, TypeOK, PaymentInv, Unsubmitted, Reviewed
<1>2. PaymentInv' /\ TypeOK /\ [Next]_vars => TypeOK'
  BY OwnTypes DEF TypeOK, PaymentInv
<1>. QED  BY <1>1, <1>2, LegacyInvariant, PTL DEF Spec

-----------------------------------------------------------------------------
(* What the gateway knows, and the promise of the payment.                  *)

LEMMA LegacyInitEvidence == Init => EvidenceInv
<1>1. History \subseteq {r \in PaymentRow : /\ r.status # "ABSENT"
                                            /\ r.status = "VERIFIED" => r.authority # None}
  BY DEF History
<1>. QED  BY <1>1, InitEvidence DEF Init

LEMMA BusinessEvidence ==
  ASSUME EvidenceInv, NEW w \in Workers,
         ReservePaid(w) \/ CompleteSubmission(w) \/ ClaimIntent(w)
           \/ SendNotices(w) \/ RecordNotices(w) \/ StartPayment(w)
  PROVE  EvidenceInv' /\ Progress
<1>1. \/ Return(w)
      \/ \E step \in {"claimIntent", "sms", "smsSent", "smsFailed", "complete",
                      "reserve"} : GoTo(w, step)
  BY DEF ReservePaid, CompleteSubmission, ClaimIntent, SendNotices, RecordNotices,
         StartPayment
<1>2. UNCHANGED <<records, outside>>
  BY DEF ReservePaid, CompleteSubmission, ClaimIntent, SendNotices, RecordNotices,
         StartPayment
<1>. QED
  BY <1>1, <1>2, ReturnEvidence, GoToEvidence DEF Steps, WithPayment, Asking, Checking

LEMMA InvocationEvidence ==
  ASSUME EvidenceInv, NEW w \in Workers, Invocation(w)
  PROVE  EvidenceInv' /\ Progress
<1>1. CASE ReserveExisting(w)
  BY <1>1, ServeExistingEvidence DEF ReserveExisting
<1>2. CASE ReserveNew(w)
  BY <1>2, NewPaymentEvidence DEF ReserveNew
<1>3. CASE FinishRequest(w)
  BY <1>3, PublishEvidence DEF FinishRequest
<1>4. CASE Verify(w)
  BY <1>4, BeginVerificationEvidence DEF Verify
<1>5. CASE RecordCapture(w)
  BY <1>5, RecordEvidence DEF RecordCapture
<1>. QED
  BY <1>1, <1>2, <1>3, <1>4, <1>5, BusinessEvidence, RemoteEvidence DEF Invocation

LEMMA EvidenceStep == EvidenceInv /\ [Next]_vars => EvidenceInv' /\ Progress
<1>. SUFFICES ASSUME EvidenceInv, [Next]_vars PROVE EvidenceInv' /\ Progress
  OBVIOUS
<1>1. CASE UNCHANGED payVars
  BY <1>1, StutterEvidence
<1>2. ASSUME NEW w \in Workers, NEW p \in Payments, Callback(w, p)
      PROVE  EvidenceInv' /\ Progress
  BY <1>2, SettleEvidence DEF Callback
<1>. QED
  BY <1>1, <1>2, InvocationEvidence, BusinessEvidence, AbortEvidence, GatewayEvidence
     DEF Next, Review, vars

\* Whatever is lost, late or repeated between the invocations of a legacy
\* payment and the gateway, the claim, the calls, the evidence and the
\* authorities fit together: the inductive invariant of the coordination.
THEOREM LegacyEvidence == Spec => []EvidenceInv
<1>. QED  BY LegacyInitEvidence, EvidenceStep, PTL DEF Spec

\* The legacy payment never has two remote calls alive at the gateway, takes
\* nothing for captured that the gateway has not captured, and offers no page
\* but that of the payment it will look for.
THEOREM LegacyCallsAreTrue == Spec => []CallsAreTrue
<1>. QED  BY LegacyEvidence, EvidenceShows, PTL

\* An application is filed only by a step that touches no money, and it is
\* never taken back.
LEMMA FilingStep ==
  ASSUME EvidenceInv, SubmittedIsPaid, [Next]_vars
  PROVE  \/ (status \in Reviewed)' <=> status \in Reviewed
         \/ /\ Verified # {}
            /\ status \notin Reviewed
            /\ status' \in Reviewed
            /\ UNCHANGED <<payments, gateway>>
<1>1. CASE status' = status
  BY <1>1
<1>2. CASE status = "DRAFT" /\ status' = "PENDING_PAYMENT"
  BY <1>2 DEF Reviewed
<1>3. CASE Review
  BY <1>3 DEF Review, AllowedNext, Reviewed
<1>4. ASSUME NEW w \in Workers, ReservePaid(w) \/ CompleteSubmission(w)
      PROVE  \/ (status \in Reviewed)' <=> status \in Reviewed
             \/ /\ Verified # {}
                /\ status \notin Reviewed
                /\ status' \in Reviewed
                /\ UNCHANGED <<payments, gateway>>
  BY <1>4 DEF ReservePaid, CompleteSubmission, Reviewed, Unsubmitted, records, outside
<1>5. ASSUME NEW w \in Workers, Invocation(w)
      PROVE  \/ status' = status
             \/ status = "DRAFT" /\ status' = "PENDING_PAYMENT"
             \/ ReservePaid(w) \/ CompleteSubmission(w)
  BY <1>5 DEF Invocation, ReserveExisting, ReserveNew, FinishRequest, Verify,
     LoadedStatus, RecordCapture, ClaimIntent, SendNotices, RecordNotices
<1>. QED
  BY <1>1, <1>2, <1>3, <1>4, <1>5 DEF Next, vars, StartPayment, Callback

LEMMA PromiseInit == Init => Promise!Init
<1>. SUFFICES ASSUME Init PROVE Promise!Init
  OBVIOUS
<1>1. EvidenceInv
  BY LegacyInitEvidence
<1>2. Rows \subseteq Payments /\ Verified \subseteq Captured
  BY <1>1 DEF Rows, Verified, Captured, EvidenceInv, CaptureIsGenuine
<1>3. status \in Reviewed => Verified # {}
  BY DEF Init, Reviewed, Unsubmitted, Rows, Verified
<1>. QED  BY <1>2, <1>3 DEF Promise!Init, Captured

LEMMA PromiseStep ==
  EvidenceInv /\ SubmittedIsPaid /\ [Next]_vars => [Promise!Next]_(Promise!promised)
<1>. SUFFICES ASSUME EvidenceInv, SubmittedIsPaid, [Next]_vars
              PROVE  [Promise!Next]_(Promise!promised)
  OBVIOUS
<1>1. Progress
  BY EvidenceStep
<1>2. CASE (status \in Reviewed)' <=> status \in Reviewed
  <2>1. CASE Rows' = Rows /\ Captured' = Captured /\ Verified' = Verified
    BY <1>2, <2>1 DEF Promise!promised, Captured
  <2>2. CASE /\ Rows = {}
             /\ \E p \in Payments : Rows' = {p}
             /\ Captured' = Captured
             /\ Verified' = Verified
    BY <1>2, <2>2 DEF Promise!Next, Promise!Ask, Captured
  <2>3. CASE /\ \E p \in Payments : Rows = {p} /\ Captured = {} /\ Captured' = {p}
             /\ Rows' = Rows
             /\ Verified' = Verified
    BY <1>2, <2>3 DEF Promise!Next, Promise!Capture, Captured
  <2>4. CASE /\ Verified = {}
             /\ \E p \in Captured : Verified' = {p}
             /\ Rows' = Rows
             /\ Captured' = Captured
    BY <1>2, <2>4 DEF Promise!Next, Promise!Record, Captured
  <2>. QED  BY <1>1, <2>1, <2>2, <2>3, <2>4 DEF Progress
<1>3. CASE /\ Verified # {}
           /\ status \notin Reviewed
           /\ status' \in Reviewed
           /\ UNCHANGED <<payments, gateway>>
  <2>1. Rows' = Rows /\ Captured' = Captured /\ Verified' = Verified
    BY <1>3 DEF Rows, Captured, Verified
  <2>. QED  BY <1>3, <2>1 DEF Promise!Next, Promise!File, Captured
<1>. QED  BY <1>2, <1>3, FilingStep

\* The legacy programme implements PaymentPromise: from the gateway to the
\* status of the application no money is asked for twice, captured on another
\* attempt, recorded without a capture, or filed without a record.
THEOREM LegacyKeepsPromise == Spec => KeepsPromise
<1>. QED
  BY LegacyEvidence, LegacySubmittedOnlyPaid, PromiseInit, PromiseStep, PTL
     DEF Spec, KeepsPromise, Promise!Spec

\* Nothing that comes late undoes what was done, in the legacy programme: no
\* answer reopens the payment, an obligation is settled only with its evidence,
\* and the promise of the payment is kept.
THEOREM LegacySubmissionHolds == Spec => SubmissionHolds
<1>. DEFINE Stays == obligation.operation = "VERIFY" =>
                       /\ obligation'.operation = "VERIFY"
                       /\ obligation'.state # "PAYABLE"
<1>1. EvidenceInv /\ [Next]_vars => [Stays]_payVars
  BY EvidenceStep, NeverPayable
<1>2. Spec => NeverReopened
  BY <1>1, LegacyEvidence, PTL DEF Spec, NeverReopened
<1>3. EvidenceInv => SettledIsBacked
  BY DEF EvidenceInv
<1>. QED  BY <1>2, <1>3, LegacyEvidence, LegacyKeepsPromise, PTL DEF SubmissionHolds

-----------------------------------------------------------------------------
(* The notice of the submission                                             *)

\* Why it is sent once: the intent is recorded with the submission, one
\* invocation claims it, and what was claimed is never pending again.
Sms == {"sms", "smsSent", "smsFailed"}

NoticeInv ==
  /\ intent # "NONE" => status \in Reviewed /\ Verified # {}
  /\ intent \in {"NONE", "PENDING"} =>
       notices = 0 /\ \A w \in Workers : job[w].pc \notin Sms
  /\ notices \in {0, 1}
  /\ \A w \in Workers : At(w, "sms") => notices = 0
  /\ \A w \in Workers : job[w].pc \in Sms => intent = "CLAIMED"
  /\ \A v, w \in Workers : job[v].pc \in Sms /\ job[w].pc \in Sms => v = w

\* Only the dispatch of the notice itself takes an invocation there.
NoSms == \A v \in Workers : job'[v].pc \in Sms => job'[v].pc = job[v].pc

LEMMA SharedNoSms ==
  ASSUME PaymentInv, NEW w \in Workers,
         \/ NewPayment(w) \/ ServeExisting(w) \/ BeginVerification(w) \/ Remote(w)
         \/ Abort(w)
         \/ \E step \in Steps \ Sms : GoTo(w, step)
         \/ Return(w)
         \/ \E p \in Payments : Callback(w, p)
  PROVE  NoSms
<1>0. PaymentTypeOK
  BY DEF PaymentInv
<1>. SUFFICES ASSUME NEW v \in Workers, job'[v].pc \in Sms, job'[v].pc # job[v].pc
              PROVE  FALSE
  BY DEF NoSms
<1>1. ASSUME NEW step \in Steps \ Sms, GoTo(w, step) \/ Return(w)
      PROVE  FALSE
  BY <1>0, <1>1, GoToJob, ReturnJob DEF PaymentTypeOK, Sms
<1>2. ASSUME NEW step \in Steps \ Sms, NEW p, NEW a, NEW g,
             job' = [job EXCEPT ![w] = [pc |-> step, payment |-> p,
                                        authority |-> a, generation |-> g]]
      PROVE  FALSE
  BY <1>0, <1>2 DEF PaymentTypeOK, Sms
<1>3. CASE NewPayment(w)
  <2>1. PICK p \in Payments :
          job' = [job EXCEPT ![w] =
                    [pc |-> "request", payment |-> p, authority |-> None,
                     generation |-> LoadedObligation.generation + 1]]
    BY <1>3 DEF NewPayment
  <2>. QED  BY <1>2, <2>1 DEF Steps, Sms
<1>4. CASE ServeExisting(w)
  BY <1>1, <1>2, <1>4 DEF ServeExisting, Steps, Sms
<1>5. CASE BeginVerification(w)
  <2>1. CASE job' = [job EXCEPT ![w].pc = "verify",
                     ![w].generation = LoadedObligation.generation + 1]
    BY <1>0, <2>1 DEF PaymentTypeOK, Job, Sms
  <2>. QED  BY <1>1, <1>5, <2>1 DEF BeginVerification, Steps, Sms
<1>6. CASE Remote(w)
  BY <1>1, <1>6 DEF Remote, SendRequest, SaveAuthority, SaveNoAuthority,
     RequestUncertain, SendVerify, SaveCaptured, SaveNotCaptured, VerifyUncertain,
     RemoteFails, Steps, Sms
<1>7. ASSUME NEW p \in Payments, Callback(w, p)
      PROVE  FALSE
  BY <1>2, <1>7 DEF Callback, Steps, Sms
<1>8. CASE Abort(w)
  BY <1>1, <1>8 DEF Abort, Steps, Sms
<1>. QED  BY <1>1, <1>3, <1>4, <1>5, <1>6, <1>7, <1>8 DEF Steps, Sms

LEMMA GatewayNoSms ==
  ASSUME PaymentInv, Gateway
  PROVE  NoSms
<1>0. PaymentTypeOK
  BY DEF PaymentInv
<1>1. ASSUME NEW c \in calls, NEW a,
             NEW step \in {"saveAuthority", "saveCaptured", "saveRejected"},
             Deliver(c, step, a)
      PROVE  NoSms
  BY <1>0, <1>1 DEF Deliver, PaymentTypeOK, Job, Call, NoSms, Sms
<1>2. UNCHANGED job => NoSms
  BY DEF NoSms
<1>. QED
  BY <1>1, <1>2 DEF Gateway, GatewayGrants, GatewayCaptures, GatewayRejects,
     GatewayDrops, ApplicantPays

\* A step that neither records a notice nor sends one.
LEMMA NoticeKept ==
  ASSUME NoticeInv, UNCHANGED <<intent, notices>>, NoSms, Verified \subseteq Verified',
         status \in Reviewed => status' \in Reviewed
  PROVE  NoticeInv'
BY DEF NoticeInv, NoSms, Sms, At

LEMMA NoticeStep ==
  ASSUME PaymentInv, SubmittedIsPaid, NoticeInv, [Next]_vars
  PROVE  NoticeInv'
<1>0. Verified \subseteq Verified' /\ job \in [Workers -> Job]
  BY StepInv DEF Kept, PaymentInv, PaymentTypeOK
<1>1. ASSUME NEW w \in Workers, StartPayment(w) \/ (\E p \in Payments : Callback(w, p))
               \/ (Abort(w) /\ UNCHANGED <<status, intent, notices>>)
      PROVE  NoticeInv'
  <2>1. NoSms
    BY <1>1, SharedNoSms DEF StartPayment, Steps, Sms
  <2>. QED  BY <1>0, <1>1, <2>1, NoticeKept DEF StartPayment, Callback
<1>2. ASSUME NEW w \in Workers,
             \/ ReserveExisting(w) \/ ReserveNew(w) \/ FinishRequest(w) \/ Verify(w)
             \/ RecordCapture(w) \/ (Remote(w) /\ UNCHANGED <<status, intent, notices>>)
      PROVE  NoticeInv'
  <2>1. NoSms
    BY <1>2, SharedNoSms DEF ReserveExisting, ReserveNew, FinishRequest, Verify,
       RecordCapture, Steps, Sms
  <2>2. UNCHANGED <<intent, notices>>
    BY <1>2 DEF ReserveExisting, ReserveNew, FinishRequest, Verify, RecordCapture
  <2>3. status' = status \/ status = "DRAFT"
    BY <1>2 DEF ReserveExisting, ReserveNew, FinishRequest, Verify, RecordCapture, LoadedStatus
  <2>. QED  BY <1>0, <2>1, <2>2, <2>3, NoticeKept DEF Reviewed
<1>3. ASSUME NEW w \in Workers, ReservePaid(w) \/ CompleteSubmission(w)
      PROVE  NoticeInv'
  <2>1. NoSms /\ notices' = notices /\ Verified' = Verified
    BY <1>3, SharedNoSms DEF ReservePaid, CompleteSubmission, Steps, Sms, records, Verified
  <2>2. \/ intent' = intent
        \/ /\ intent = "NONE"
           /\ intent' = "PENDING"
           /\ status' = "SUBMITTED"
           /\ Verified # {}
    BY <1>3 DEF ReservePaid, CompleteSubmission
  <2>3. status \in Reviewed => status' \in Reviewed
    BY <1>3 DEF ReservePaid, CompleteSubmission, Reviewed, Unsubmitted
  <2>. QED  BY <2>1, <2>2, <2>3 DEF NoticeInv, NoSms, Sms, At, Reviewed
<1>4. ASSUME NEW w \in Workers, ClaimIntent(w)
      PROVE  NoticeInv'
  <2>1. UNCHANGED <<status, notices>> /\ Verified' = Verified
    BY <1>4 DEF ClaimIntent, records, Verified
  <2>2. CASE intent = "PENDING"
    <3>1. intent' = "CLAIMED" /\ GoTo(w, "sms")
      BY <1>4, <2>2 DEF ClaimIntent
    <3>2. job'[w].pc = "sms" /\ \A v \in Workers \ {w} : job'[v] = job[v]
      BY <1>0, <3>1, GoToJob DEF Steps
    <3>3. notices = 0 /\ (\A v \in Workers : job[v].pc \notin Sms)
            /\ status \in Reviewed /\ Verified # {}
      BY <2>2 DEF NoticeInv
    <3>. QED  BY <2>1, <3>1, <3>2, <3>3 DEF NoticeInv, At
  <2>3. CASE intent # "PENDING"
    <3>1. Return(w) /\ intent' = intent
      BY <1>4, <2>3 DEF ClaimIntent
    <3>. QED  BY <2>1, <3>1, SharedNoSms, NoticeKept
  <2>. QED  BY <2>2, <2>3
<1>5. ASSUME NEW w \in Workers, SendNotices(w)
      PROVE  NoticeInv'
  <2>1. /\ UNCHANGED <<status, intent>>
        /\ Verified' = Verified
        /\ notices' = notices + 1
        /\ job[w].pc = "sms"
        /\ \E step \in {"smsSent", "smsFailed"} : GoTo(w, step)
    BY <1>5 DEF SendNotices, records, Verified, At
  <2>2. /\ job'[w].pc \in {"smsSent", "smsFailed"}
        /\ \A v \in Workers \ {w} : job'[v] = job[v]
    BY <1>0, <2>1, GoToJob DEF Steps
  <2>3. /\ notices = 0
        /\ intent = "CLAIMED"
        /\ \A v \in Workers \ {w} : job[v].pc \notin Sms
    BY <2>1 DEF NoticeInv, At, Sms
  <2>4. notices' = 1
    BY <2>1, <2>3
  <2>. QED  BY <2>1, <2>2, <2>3, <2>4 DEF NoticeInv, At, Sms
<1>6. ASSUME NEW w \in Workers, RecordNotices(w)
      PROVE  NoticeInv'
  <2>1. /\ UNCHANGED <<status, notices>>
        /\ Verified' = Verified
        /\ intent' \in {"SENT", "UNKNOWN"}
        /\ job[w].pc \in Sms
        /\ Return(w)
    BY <1>6 DEF RecordNotices, records, Verified, At, Sms
  <2>2. job'[w].pc = "idle" /\ \A v \in Workers \ {w} : job'[v] = job[v]
    BY <1>0, <2>1, ReturnJob
  <2>3. intent = "CLAIMED" /\ \A v \in Workers \ {w} : job[v].pc \notin Sms
    BY <2>1 DEF NoticeInv
  <2>. QED  BY <2>1, <2>2, <2>3 DEF NoticeInv, At, Sms
<1>7. CASE Gateway /\ UNCHANGED <<status, intent, notices>>
  BY <1>0, <1>7, GatewayNoSms, NoticeKept
<1>8. CASE Review
  BY <1>0, <1>8, NoticeKept DEF Review, payVars, NoSms, AllowedNext, Reviewed
<1>9. CASE UNCHANGED vars
  BY <1>0, <1>9, NoticeKept DEF vars, payVars, NoSms
<1>. QED
  BY <1>1, <1>2, <1>3, <1>4, <1>5, <1>6, <1>7, <1>8, <1>9 DEF Next, Invocation

\* The notice of a submission is sent at most once, by one invocation, and only
\* for an application that is paid and under review, although every callback
\* and every click on "pay" tries to send it.
THEOREM LegacyNoticeOnce == Spec => []NoticeOnce
<1>1. Init => NoticeInv
  BY DEF Init, PaymentInit, NoticeInv, Idle, At, Sms
<1>2. PaymentInv /\ SubmittedIsPaid /\ NoticeInv /\ [Next]_vars => NoticeInv'
  BY NoticeStep
<1>3. NoticeInv => NoticeOnce
  BY DEF NoticeInv, NoticeOnce
<1>. QED
  BY <1>1, <1>2, <1>3, LegacyInvariant, LegacySubmittedOnlyPaid, PTL DEF Spec

=============================================================================
