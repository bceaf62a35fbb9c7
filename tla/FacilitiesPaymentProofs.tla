---------------------- MODULE FacilitiesPaymentProofs ----------------------
(* What holds of FacilitiesPayment for every number of invocations,         *)
(* payments and authorities, proved.                                        *)
EXTENDS FacilitiesPayment, PaymentInvocationProofs

LEMMA FacilitiesInit == Init => PaymentInv
<1>1. History \subseteq {r \in PaymentRow : r.status # "ABSENT"}
  BY DEF History
<1>. QED  BY <1>1, InitInv DEF Init

LEMMA CallbackStep ==
  ASSUME PaymentInv, NEW w \in Workers, NEW p \in Payments, Callback(w, p)
  PROVE  PaymentInv' /\ Kept
<1>1. p \in Rows /\ payments[p].authority \in Authorities
  BY DEF Callback, PaymentInv, RowsAreReal, PaymentTypeOK, PaymentRow
<1>2. job' \in [Workers -> Job] /\ StaysOnRow
  BY <1>1, SettleStays DEF Callback
<1>. QED  BY <1>2, JobOnly DEF Callback

\* The steps that only move the job of an invocation, and the status.
LEMMA BusinessStep ==
  ASSUME PaymentInv, NEW w \in Workers,
         ReserveCaptured(w) \/ CompleteSubmission(w) \/ StartPayment(w)
           \/ FinishFails(w)
  PROVE  PaymentInv' /\ Kept
<1>1. job' \in [Workers -> Job] /\ StaysOnRow
  BY ReturnStays, GoToStays DEF ReserveCaptured, CompleteSubmission, StartPayment,
     FinishFails, At, Steps, WithPayment
<1>2. UNCHANGED <<records, outside>>
  BY DEF ReserveCaptured, CompleteSubmission, StartPayment, FinishFails
<1>. QED  BY <1>1, <1>2, JobOnly

\* A paid application may still be given its obligation when it is submitted.
LEMMA ReservePaidStep ==
  ASSUME PaymentInv, NEW w \in Workers, ReservePaid(w)
  PROVE  PaymentInv' /\ Kept
<1>1. /\ obligation' = LoadedObligation
      /\ Return(w)
      /\ UNCHANGED <<payments, results, outside>>
  BY DEF ReservePaid
<1>2. Rows' = Rows /\ Verified' = Verified /\ PaymentTypeOK
  BY <1>1 DEF Rows, Verified, PaymentInv
<1>3. job' \in [Workers -> Job] /\ StaysOnRow
  BY <1>1, ReturnStays
<1>4. PaymentTypeOK'
  BY <1>1, <1>2, <1>3, LoadedType DEF PaymentTypeOK, outside
<1>5. FreshObligation' /\ SettledIsVerified' /\ Kept
  BY <1>1, <1>2, LoadedFresh DEF FreshObligation, SettledIsVerified, Kept
<1>. QED
  BY <1>1, <1>2, <1>3, <1>4, <1>5, LoadedFresh, Frame
     DEF PaymentInv, RowsAreReal, outside

LEMMA InvocationStep ==
  ASSUME PaymentInv, NEW w \in Workers, Invocation(w)
  PROVE  PaymentInv' /\ Kept
<1>1. CASE ReserveExisting(w)
  BY <1>1, ServeExistingStep DEF ReserveExisting
<1>2. CASE ReserveNew(w)
  BY <1>2, NewPaymentStep DEF ReserveNew
<1>3. CASE FinishRequest(w)
  BY <1>3, PublishStep DEF FinishRequest
<1>4. CASE Verify(w)
  BY <1>4, BeginVerificationStep DEF Verify
<1>5. CASE RecordCapture(w)
  BY <1>5, RecordStep DEF RecordCapture
<1>. QED
  BY <1>1, <1>2, <1>3, <1>4, <1>5, ReservePaidStep, BusinessStep, RemoteStep
     DEF Invocation

LEMMA StepInv == PaymentInv /\ [Next]_vars => PaymentInv' /\ Kept
<1>. SUFFICES ASSUME PaymentInv, [Next]_vars PROVE PaymentInv' /\ Kept
  OBVIOUS
<1>1. CASE UNCHANGED payVars
  BY <1>1, StutterStep
<1>. QED
  BY <1>1, InvocationStep, CallbackStep, BusinessStep, AbortStep, GatewayStep
     DEF Next, Review, Submit, vars

-----------------------------------------------------------------------------
(* The theorems                                                             *)

\* However many invocations run, crash and retry, a facilities application
\* never has two payments under way: the inductive invariant of
\* startFacilitiesPayment and of its callback.
THEOREM FacilitiesInvariant == Spec => []PaymentInv
<1>. QED  BY FacilitiesInit, StepInv, PTL DEF Spec

\* startFacilitiesPayment sends at most one payment request for an application.
THEOREM FacilitiesChargedOnce == Spec => []OneRequest
<1>1. PaymentInv => OneRequest
  BY DEF PaymentInv
<1>. QED  BY <1>1, FacilitiesInvariant, PTL

\* No step tries what the triggers of the database would refuse: to select
\* another payment, to leave SETTLED, or to take back a result.
THEOREM FacilitiesSelectionKept == Spec => SelectionIsFinal
<1>. DEFINE Sel == /\ obligation.selected # None
                       => obligation'.selected = obligation.selected
                   /\ obligation.state = "SETTLED" => obligation'.state = "SETTLED"
                   /\ results \subseteq results'
<1>1. PaymentInv /\ [Next]_vars => [Sel]_payVars
  BY StepInv DEF Kept
<1>. QED  BY <1>1, FacilitiesInvariant, PTL DEF Spec, SelectionIsFinal

\* CompleteSubmission submits whatever is unsubmitted; an invocation only gets
\* there once its payment is verified.
CompletesPaid == \A w \in Workers : At(w, "complete") => Verified # {}

LEMMA CompletesStep ==
  ASSUME PaymentInv, CompletesPaid, [Next]_vars
  PROVE  CompletesPaid'
<1>1. Verified \subseteq Verified'
  BY StepInv DEF Kept
<1>2. PaymentTypeOK
  BY DEF PaymentInv
<1>3. SUFFICES ASSUME NEW v \in Workers, job'[v].pc = "complete",
                      job[v].pc # "complete"
               PROVE  Verified' # {}
  BY <1>1 DEF CompletesPaid, At
<1>4. ASSUME NEW w \in Workers, NEW step \in Steps \ {"complete"},
             GoTo(w, step) \/ Return(w)
      PROVE  FALSE
  BY <1>2, <1>3, <1>4, GoToJob, ReturnJob DEF PaymentTypeOK
<1>5. ASSUME UNCHANGED job
      PROVE  FALSE
  BY <1>3, <1>5
<1>6. ASSUME NEW w \in Workers, RecordCapture(w)
      PROVE  Verified' # {}
  <2>1. job[w].payment \in Payments
    BY <1>6 DEF RecordCapture, At, PaymentInv, RowsAreReal, Rows, WithPayment, Steps
  <2>. QED  BY <1>1, <1>2, <1>6, <2>1 DEF RecordCapture, Verified, PaymentTypeOK, PaymentRow
<1>7. ASSUME NEW w \in Workers, Verify(w)
      PROVE  Verified' # {}
  <2>1. CASE LoadedObligation.state = "SETTLED"
    BY <1>1, <2>1, LoadedFresh
  <2>2. ASSUME LoadedObligation.state # "SETTLED"
        PROVE  FALSE
    <3>1. CASE job' = [job EXCEPT ![w].pc = "verify",
                       ![w].generation = LoadedObligation.generation + 1]
      BY <1>2, <1>3, <3>1 DEF PaymentTypeOK, Job
    <3>. QED  BY <1>4, <1>7, <2>2, <3>1 DEF Verify, BeginVerification, Steps
  <2>. QED  BY <2>1, <2>2
<1>8. ASSUME NEW w \in Workers, NewPayment(w) \/ ServeExisting(w)
      PROVE  FALSE
  <2>1. ASSUME NEW p, NEW a,
               job' = [job EXCEPT ![w] = [pc |-> "settle", payment |-> p,
                                          authority |-> a, generation |-> 0]]
        PROVE  FALSE
    BY <1>2, <1>3, <2>1 DEF PaymentTypeOK
  <2>2. CASE NewPayment(w)
    <3>1. PICK p \in Payments :
            job' = [job EXCEPT ![w] =
                      [pc |-> "request", payment |-> p, authority |-> None,
                       generation |-> LoadedObligation.generation + 1]]
      BY <2>2 DEF NewPayment
    <3>. QED  BY <1>2, <1>3, <3>1 DEF PaymentTypeOK
  <2>3. CASE ServeExisting(w)
    BY <1>4, <2>1, <2>3 DEF ServeExisting, Steps
  <2>. QED  BY <1>8, <2>2, <2>3
<1>9. ASSUME NEW w \in Workers, NEW p \in Payments, Callback(w, p)
      PROVE  Verified' # {}
  <2>1. CASE p \in Verified
    BY <1>1, <2>1
  <2>2. CASE p \notin Verified
    BY <1>2, <1>3, <1>9, <2>2 DEF Callback, PaymentTypeOK
  <2>. QED  BY <2>1, <2>2
<1>10. ASSUME NEW w \in Workers, ReserveCaptured(w)
       PROVE  Verified' # {}
  BY <1>1, <1>10 DEF ReserveCaptured
<1>11. ASSUME NEW w \in Workers, Remote(w)
       PROVE  FALSE
  BY <1>4, <1>11 DEF Remote, SendRequest, SaveAuthority, SaveNoAuthority,
     RequestUncertain, SendVerify, SaveCaptured, SaveNotCaptured, VerifyUncertain,
     RemoteFails, Steps
<1>12. ASSUME Gateway
       PROVE  FALSE
  <2>1. ASSUME NEW c \in calls, NEW a,
               NEW step \in {"saveAuthority", "saveCaptured", "saveRejected"},
               Deliver(c, step, a)
        PROVE  FALSE
    BY <1>2, <1>3, <2>1 DEF Deliver, PaymentTypeOK, Job, Call
  <2>. QED
    BY <1>5, <1>12, <2>1 DEF Gateway, GatewayGrants, GatewayCaptures, GatewayRejects,
       GatewayDrops, ApplicantPays
<1>. QED
  BY <1>4, <1>5, <1>6, <1>7, <1>8, <1>9, <1>10, <1>11, <1>12
     DEF Next, Invocation, vars, payVars, StartPayment, ReserveExisting, ReservePaid,
         ReserveNew, FinishRequest, FinishFails, CompleteSubmission, Abort, Submit,
         Review, Steps

LEMMA StatusStep ==
  ASSUME SubmittedIsPaid, CompletesPaid, [Next]_vars, status' \in Reviewed
  PROVE  Verified # {}
<1>1. CASE status' = status \/ status \in Reviewed
  BY <1>1 DEF SubmittedIsPaid
<1>2. ASSUME NEW w \in Workers, Invocation(w)
      PROVE  Verified # {}
  BY <1>1, <1>2 DEF Invocation, ReserveCaptured, ReserveExisting, ReservePaid,
     ReserveNew, FinishRequest, FinishFails, Verify, RecordCapture,
     CompleteSubmission, CompletesPaid, Reviewed
<1>3. CASE Submit \/ Review
  BY <1>1, <1>3 DEF Submit, Review, AllowedNext, Reviewed
<1>. QED
  BY <1>1, <1>2, <1>3 DEF Next, vars, StartPayment, Callback

LEMMA FacilitiesOnlyPaid == Spec => [](SubmittedIsPaid /\ CompletesPaid)
<1>1. Init => SubmittedIsPaid /\ CompletesPaid
  BY DEF Init, PaymentInit, SubmittedIsPaid, CompletesPaid, At, Idle, Reviewed,
         Unsubmitted
<1>2. PaymentInv /\ SubmittedIsPaid /\ CompletesPaid /\ [Next]_vars
        => SubmittedIsPaid' /\ CompletesPaid'
  BY StepInv, CompletesStep, StatusStep DEF SubmittedIsPaid, Kept
<1>. QED  BY <1>1, <1>2, FacilitiesInvariant, PTL DEF Spec

\* No facilities application is under review, returned or completed unless its
\* fee is verified as paid.
THEOREM FacilitiesSubmittedOnlyPaid == Spec => []SubmittedIsPaid
<1>. QED  BY FacilitiesOnlyPaid, PTL

LEMMA OwnTypes ==
  ASSUME TypeOK, [Next]_vars
  PROVE  status' \in Unsubmitted \cup Reviewed
<1>1. AllowedNext(status) \subseteq Reviewed
  BY DEF AllowedNext, Reviewed
<1>2. ASSUME NEW w \in Workers, Invocation(w)
      PROVE  status' \in Unsubmitted \cup Reviewed
  BY <1>2 DEF TypeOK, Invocation, ReserveCaptured, ReserveExisting, ReservePaid,
     ReserveNew, FinishRequest, FinishFails, Verify, RecordCapture,
     CompleteSubmission, Unsubmitted, Reviewed
<1>. QED
  BY <1>1, <1>2 DEF TypeOK, Next, vars, StartPayment, Callback, Submit, Review, Reviewed

\* Every variable keeps its type.
THEOREM FacilitiesTypeCorrect == Spec => []TypeOK
<1>1. Init => TypeOK
  BY FacilitiesInit DEF Init, TypeOK, PaymentInv, Unsubmitted, Reviewed
<1>2. PaymentInv' /\ TypeOK /\ [Next]_vars => TypeOK'
  BY OwnTypes DEF TypeOK, PaymentInv
<1>. QED  BY <1>1, <1>2, FacilitiesInvariant, PTL DEF Spec

-----------------------------------------------------------------------------
(* What the gateway knows, and the promise of the payment.                  *)

LEMMA FacilitiesInitEvidence == Init => EvidenceInv
<1>1. History \subseteq {r \in PaymentRow : /\ r.status # "ABSENT"
                                            /\ r.status = "VERIFIED" => r.authority # None}
  BY DEF History
<1>. QED  BY <1>1, InitEvidence DEF Init

LEMMA BusinessEvidence ==
  ASSUME EvidenceInv, NEW w \in Workers,
         ReserveCaptured(w) \/ CompleteSubmission(w) \/ StartPayment(w)
           \/ FinishFails(w)
  PROVE  EvidenceInv' /\ Progress
<1>1. UNCHANGED <<records, outside>>
  BY DEF ReserveCaptured, CompleteSubmission, StartPayment, FinishFails
<1>2. \/ Return(w)
      \/ \E step \in {"complete", "reserve"} : GoTo(w, step)
      \/ GoTo(w, "saveNoAuthority") /\ job[w].pc \in {"saveAuthority", "finish"}
  BY DEF ReserveCaptured, CompleteSubmission, StartPayment, FinishFails, At
<1>. QED
  BY <1>1, <1>2, ReturnEvidence, GoToEvidence DEF Steps, WithPayment, Asking, Checking

\* The transaction that submits a paid form gives it its obligation at most.
LEMMA ReservePaidEvidence ==
  ASSUME EvidenceInv, NEW w \in Workers, ReservePaid(w)
  PROVE  EvidenceInv' /\ Progress
<1>1. /\ obligation' = LoadedObligation
      /\ Return(w)
      /\ UNCHANGED <<payments, results, gateway, calls, offered>>
      /\ Verified # {}
  BY DEF ReservePaid, outside
<1>2. PaymentInv' /\ Kept
  BY ReservePaidStep DEF EvidenceInv
<1>3. ~Recovering
  BY <1>1, RecoveredFits
<1>4. payments' = LoadedPayments
  BY <1>1, <1>3 DEF LoadedPayments
<1>5. LoadedObligation.state # "READY"
  BY <1>1, LoadedFresh DEF EvidenceInv
<1>6. /\ SameClaim
      /\ QuietPayments
      /\ AuthoritiesKept
      /\ Rows' = Rows
      /\ Verified' = Verified
      /\ SettledIsBacked'
      /\ obligation'.state = "PAYABLE" =>
           /\ Answered
           /\ obligation'.operation = "REQUEST"
           /\ payments'[obligation'.selected].authority # None
      /\ obligation'.operation = "REQUEST" =>
           \A b \in offered : b = payments'[obligation'.selected].authority
      /\ \A b \in offered : Issued(b)'
  BY <1>1, <1>2, <1>4, <1>5, LoadedQuiet DEF QuietPayments
<1>7. QuietJobs
  BY <1>1, <1>6, ReturnQuiet
<1>8. Answered' => Answered
  BY <1>1, <1>6, <1>7, AnsweredBefore DEF SameClaim
<1>9. Quiet
  BY <1>1, <1>6, <1>7, <1>8 DEF Quiet, Calm, QuietResults
<1>10. OffersFit'
  BY <1>1, <1>6 DEF OffersFit
<1>11. \A b \in offered' : Issued(b)'
  BY <1>1, <1>6
<1>. QED  BY <1>2, <1>6, <1>9, <1>10, <1>11, QuietFrame

LEMMA InvocationEvidence ==
  ASSUME EvidenceInv, NEW w \in Workers, Invocation(w)
  PROVE  EvidenceInv' /\ Progress
<1>1. CASE ReserveExisting(w)
  BY <1>1, ServeExistingEvidence DEF ReserveExisting
<1>2. CASE ReserveNew(w)
  BY <1>2, NewPaymentEvidence DEF ReserveNew
<1>3. CASE FinishRequest(w)
  BY <1>3, PublishEvidence DEF FinishRequest
<1>4. CASE Verify(w)
  BY <1>4, BeginVerificationEvidence DEF Verify
<1>5. CASE RecordCapture(w)
  BY <1>5, RecordEvidence DEF RecordCapture
<1>. QED
  BY <1>1, <1>2, <1>3, <1>4, <1>5, ReservePaidEvidence, BusinessEvidence,
     RemoteEvidence DEF Invocation

LEMMA EvidenceStep == EvidenceInv /\ [Next]_vars => EvidenceInv' /\ Progress
<1>. SUFFICES ASSUME EvidenceInv, [Next]_vars PROVE EvidenceInv' /\ Progress
  OBVIOUS
<1>1. CASE UNCHANGED payVars
  BY <1>1, StutterEvidence
<1>2. ASSUME NEW w \in Workers, NEW p \in Payments, Callback(w, p)
      PROVE  EvidenceInv' /\ Progress
  BY <1>2, SettleEvidence DEF Callback
<1>. QED
  BY <1>1, <1>2, InvocationEvidence, BusinessEvidence, AbortEvidence, GatewayEvidence
     DEF Next, Review, Submit, vars

\* Whatever is lost, late or repeated between the invocations of a facilities
\* payment and the gateway, the claim, the calls, the evidence and the
\* authorities fit together: the inductive invariant of the coordination.
THEOREM FacilitiesEvidence == Spec => []EvidenceInv
<1>. QED  BY FacilitiesInitEvidence, EvidenceStep, PTL DEF Spec

\* The facilities payment never has two remote calls alive at the gateway,
\* takes nothing for captured that the gateway has not captured, and offers no
\* page but that of the payment it will look for.
THEOREM FacilitiesCallsAreTrue == Spec => []CallsAreTrue
<1>. QED  BY FacilitiesEvidence, EvidenceShows, PTL

\* No late answer makes a facilities obligation payable again once its
\* verification was claimed.
THEOREM FacilitiesNeverReopened == Spec => NeverReopened
<1>. DEFINE Stays == obligation.operation = "VERIFY" =>
                       /\ obligation'.operation = "VERIFY"
                       /\ obligation'.state # "PAYABLE"
<1>1. EvidenceInv /\ [Next]_vars => [Stays]_payVars
  BY EvidenceStep, NeverPayable
<1>. QED  BY <1>1, FacilitiesEvidence, PTL DEF Spec, NeverReopened

\* An application is filed only by a step that touches no money, and it is
\* never taken back.
LEMMA FilingStep ==
  ASSUME EvidenceInv, SubmittedIsPaid, CompletesPaid, [Next]_vars
  PROVE  \/ (status \in Reviewed)' <=> status \in Reviewed
         \/ /\ Verified # {}
            /\ status \notin Reviewed
            /\ status' \in Reviewed
            /\ UNCHANGED <<payments, gateway>>
<1>1. CASE status' = status
  BY <1>1
<1>2. CASE status \in Unsubmitted /\ status' = "PENDING_PAYMENT"
  BY <1>2 DEF Reviewed, Unsubmitted
<1>3. CASE Review
  BY <1>3 DEF Review, AllowedNext, Reviewed
<1>4. ASSUME NEW w \in Workers, ReservePaid(w) \/ CompleteSubmission(w) \/ Submit
      PROVE  \/ (status \in Reviewed)' <=> status \in Reviewed
             \/ /\ Verified # {}
                /\ status \notin Reviewed
                /\ status' \in Reviewed
                /\ UNCHANGED <<payments, gateway>>
  BY <1>4 DEF ReservePaid, CompleteSubmission, Submit, Reviewed, Unsubmitted, records,
     outside, payVars, CompletesPaid
<1>5. ASSUME NEW w \in Workers, Invocation(w)
      PROVE  \/ status' = status
             \/ status \in Unsubmitted /\ status' = "PENDING_PAYMENT"
             \/ ReservePaid(w) \/ CompleteSubmission(w)
  BY <1>5 DEF Invocation, ReserveCaptured, ReserveExisting, ReserveNew, FinishRequest,
     FinishFails, Verify, RecordCapture
<1>6. CASE Submit
  BY <1>6 DEF Submit, Reviewed, Unsubmitted, payVars, records, outside
<1>. QED
  BY <1>1, <1>2, <1>3, <1>4, <1>5, <1>6 DEF Next, vars, StartPayment, Callback

LEMMA PromiseInit == Init => Promise!Init
<1>. SUFFICES ASSUME Init PROVE Promise!Init
  OBVIOUS
<1>1. EvidenceInv
  BY FacilitiesInitEvidence
<1>2. Rows \subseteq Payments /\ Verified \subseteq Captured
  BY <1>1 DEF Rows, Verified, Captured, EvidenceInv, CaptureIsGenuine
<1>3. status \in Reviewed => Verified # {}
  BY DEF Init, Reviewed, Unsubmitted, Rows, Verified
<1>. QED  BY <1>2, <1>3 DEF Promise!Init, Captured

LEMMA PromiseStep ==
  EvidenceInv /\ SubmittedIsPaid /\ CompletesPaid /\ [Next]_vars
    => [Promise!Next]_(Promise!promised)
<1>. SUFFICES ASSUME EvidenceInv, SubmittedIsPaid, CompletesPaid, [Next]_vars
              PROVE  [Promise!Next]_(Promise!promised)
  OBVIOUS
<1>1. Progress
  BY EvidenceStep
<1>2. CASE (status \in Reviewed)' <=> status \in Reviewed
  <2>1. CASE Rows' = Rows /\ Captured' = Captured /\ Verified' = Verified
    BY <1>2, <2>1 DEF Promise!promised, Captured
  <2>2. CASE /\ Rows = {}
             /\ \E p \in Payments : Rows' = {p}
             /\ Captured' = Captured
             /\ Verified' = Verified
    BY <1>2, <2>2 DEF Promise!Next, Promise!Ask, Captured
  <2>3. CASE /\ \E p \in Payments : Rows = {p} /\ Captured = {} /\ Captured' = {p}
             /\ Rows' = Rows
             /\ Verified' = Verified
    BY <1>2, <2>3 DEF Promise!Next, Promise!Capture, Captured
  <2>4. CASE /\ Verified = {}
             /\ \E p \in Captured : Verified' = {p}
             /\ Rows' = Rows
             /\ Captured' = Captured
    BY <1>2, <2>4 DEF Promise!Next, Promise!Record, Captured
  <2>. QED  BY <1>1, <2>1, <2>2, <2>3, <2>4 DEF Progress
<1>3. CASE /\ Verified # {}
           /\ status \notin Reviewed
           /\ status' \in Reviewed
           /\ UNCHANGED <<payments, gateway>>
  <2>1. Rows' = Rows /\ Captured' = Captured /\ Verified' = Verified
    BY <1>3 DEF Rows, Captured, Verified
  <2>. QED  BY <1>3, <2>1 DEF Promise!Next, Promise!File, Captured
<1>. QED  BY <1>2, <1>3, FilingStep

\* The facilities programme implements the same PaymentPromise.
THEOREM FacilitiesKeepsPromise == Spec => KeepsPromise
<1>. QED
  BY FacilitiesEvidence, FacilitiesOnlyPaid, PromiseInit, PromiseStep, PTL
     DEF Spec, KeepsPromise, Promise!Spec

-----------------------------------------------------------------------------
(* What the triggers and the unique indexes of the database allow           *)

\* Why it is never more than that: what a request may still publish is the row
\* it created or published before, and what is not yet published has no
\* authority to be captured.
LegalInv ==
  /\ \A p \in Payments : payments[p].status \in {"ABSENT", "INITIATED"}
                           => payments[p].authority = None
  /\ obligation.operation = "REQUEST" /\ obligation.state # "SETTLED"
       => payments[obligation.selected].status \in {"INITIATED", "REDIRECT_READY"}
  /\ \A p, q \in Payments :
       p # q /\ payments[p].status \in Active => payments[q].status \notin Active
  /\ Verified # {} => IsSingleton(Verified)

\* The ways in which a step writes the payment rows.
Created(p) == /\ Rows = {}
              /\ obligation'.selected = p
              /\ payments' = [payments EXCEPT ![p].status = "INITIATED"]
MadePayable(p, a) ==
  /\ a \in Authorities
  /\ payments[p].status \in {"INITIATED", "REDIRECT_READY"}
  /\ payments' = [payments EXCEPT ![p] = [status |-> "REDIRECT_READY", authority |-> a]]
Recorded(p) == /\ Rows = {p}
               /\ payments[p].status # "VERIFIED"
               /\ payments[p].authority # None
               /\ obligation'.operation = "VERIFY"
               /\ payments' = [payments EXCEPT ![p].status = "VERIFIED"]

RequestKept == obligation'.operation = "REQUEST" => obligation.operation = "REQUEST"

RowMoves ==
  \/ payments' = payments /\ RequestKept
  \/ \E p \in Payments : Created(p)
  \/ RequestKept /\ \E p \in Payments, a \in Authorities : MadePayable(p, a)
  \/ \E p \in Payments : Recorded(p)

LEMMA LoadedMoves ==
  ASSUME EvidenceInv, Programme = "facilities", payments' = LoadedPayments, RequestKept
  PROVE  RowMoves
<1>1. CASE payments' = payments
  BY <1>1 DEF RowMoves
<1>2. CASE payments' # payments
  <2>. DEFINE p == obligation.selected
              a == RecoveredAuthority(obligation, results)
  <2>1. /\ Recovering
        /\ payments[p].status = "INITIATED"
        /\ payments' = [payments EXCEPT ![p] = Published(@, a)]
    BY <1>2 DEF LoadedPayments
  <2>2. p \in Payments /\ a \in Authorities
    BY <2>1, RecoveredFits
  <2>3. Published(payments[p], a) = [status |-> "REDIRECT_READY", authority |-> a]
    BY DEF Published
  <2>4. payments' = [payments EXCEPT ![p] = [status |-> "REDIRECT_READY", authority |-> a]]
    BY <2>1, <2>3
  <2>. HIDE DEF a, p
  <2>. QED  BY <2>1, <2>2, <2>4 DEF RowMoves, MadePayable
<1>. QED  BY <1>1, <1>2

LEMMA RemoteRequestKept ==
  ASSUME EvidenceInv, NEW w \in Workers, Remote(w)
  PROVE  UNCHANGED payments /\ RequestKept
<1>1. ASSUME NEW r, obligation' = Uncertain(obligation, job[w].generation, w, r)
      PROVE  RequestKept
  BY <1>1 DEF Uncertain, RequestKept, EvidenceInv, PaymentInv, PaymentTypeOK, Obligation
<1>. QED
  BY <1>1 DEF Remote, SendRequest, SaveAuthority, SaveNoAuthority, RequestUncertain,
     SendVerify, SaveCaptured, SaveNotCaptured, VerifyUncertain, RemoteFails, records,
     RequestKept

LEMMA PublishMoves ==
  ASSUME EvidenceInv, LegalInv, Programme = "facilities", NEW w \in Workers, Publish(w)
  PROVE  RowMoves
<1>. DEFINE p == job[w].payment
            a == job[w].authority
<1>0. job[w].pc = "finish" /\ PaymentTypeOK
  BY DEF Publish, At, EvidenceInv, PaymentInv
<1>1. CASE ~Publishes(w)
  BY <1>1 DEF Publish, RowMoves, RequestKept
<1>2. CASE Publishes(w)
  <2>1. /\ obligation' = Payable(obligation)
        /\ payments' = [payments EXCEPT ![p] = Published(@, a)]
        /\ obligation.generation = job[w].generation
        /\ obligation.selected = p
        /\ obligation.state # "SETTLED"
    BY <1>2 DEF Publish, Publishes, MayFinish
  <2>2. /\ obligation.operation = "REQUEST"
        /\ p \in Payments
        /\ a \in Authorities
    BY <1>0, <2>1 DEF EvidenceInv, ClaimsFit, Asking, PaymentInv, RowsAreReal,
       WithPayment, Steps, Rows, PaymentTypeOK, Job
  <2>3. payments[p].status \in {"INITIATED", "REDIRECT_READY"}
    BY <2>1, <2>2 DEF LegalInv
  <2>4. Published(payments[p], a) = [status |-> "REDIRECT_READY", authority |-> a]
    BY DEF Published
  <2>5. payments' = [payments EXCEPT ![p] = [status |-> "REDIRECT_READY", authority |-> a]]
    BY <2>1, <2>4
  <2>6. RequestKept
    BY <2>2 DEF RequestKept
  <2>. HIDE DEF a, p
  <2>. QED  BY <2>2, <2>3, <2>5, <2>6 DEF RowMoves, MadePayable
<1>. QED  BY <1>1, <1>2

LEMMA RecordMoves ==
  ASSUME EvidenceInv, NEW w \in Workers, RecordCapture(w)
  PROVE  RowMoves
<1>. DEFINE p == job[w].payment
<1>1. CASE UNCHANGED <<payments, obligation>>
  BY <1>1 DEF RowMoves, RequestKept
<1>2. CASE ~UNCHANGED <<payments, obligation>>
  <2>1. /\ job[w].pc = "record"
        /\ p \notin Verified
        /\ payments' = [payments EXCEPT ![p].status = "VERIFIED"]
        /\ obligation' = [obligation EXCEPT !.state = "SETTLED", !.reason = "NONE"]
    BY <1>2 DEF RecordCapture, At
  <2>2. /\ obligation.operation = "VERIFY"
        /\ obligation.selected = p
        /\ job[w].authority # None
        /\ payments[p].authority = job[w].authority
    BY <2>1 DEF EvidenceInv, SettlementsFit
  <2>3. Rows = {p} /\ p \in Payments
    BY <2>2 DEF EvidenceInv, OneRow, Rows
  <2>4. obligation'.operation = "VERIFY"
    BY <2>1, <2>2 DEF EvidenceInv, PaymentInv, PaymentTypeOK, Obligation
  <2>. QED  BY <2>1, <2>2, <2>3, <2>4 DEF RowMoves, Recorded, Verified
<1>. QED  BY <1>1, <1>2

LEMMA StepMoves ==
  ASSUME EvidenceInv, LegalInv, Programme = "facilities", [Next]_vars
  PROVE  RowMoves
<1>0. LoadedObligation.operation = obligation.operation
  BY LoadedClaim
<1>1. ASSUME UNCHANGED <<payments, obligation>>
      PROVE  RowMoves
  BY <1>1 DEF RowMoves, RequestKept
<1>2. ASSUME NEW w \in Workers, ServeExisting(w)
      PROVE  RowMoves
  BY <1>0, <1>2, LoadedMoves DEF ServeExisting, RequestKept
<1>3. ASSUME NEW w \in Workers, BeginVerification(w)
      PROVE  RowMoves
  <2>1. \/ obligation' = LoadedObligation
        \/ obligation' = Claimed(LoadedObligation, "VERIFY", job[w].payment, w)
    BY <1>3 DEF BeginVerification
  <2>2. RequestKept
    BY <1>0, <2>1 DEF RequestKept, Claimed
  <2>. QED  BY <1>3, <2>2, LoadedMoves DEF BeginVerification
<1>4. ASSUME NEW w \in Workers, NewPayment(w)
      PROVE  RowMoves
  <2>1. PICK p \in Payments \ Rows :
          /\ payments' = [payments EXCEPT ![p].status = "INITIATED"]
          /\ obligation' = Claimed(LoadedObligation, "REQUEST", p, w)
    BY <1>4 DEF NewPayment
  <2>2. Rows = {} /\ obligation'.selected = p
    BY <1>4, <2>1, LoadedFresh DEF NewPayment, EvidenceInv, Claimed
  <2>. QED  BY <2>1, <2>2 DEF RowMoves, Created
<1>5. ASSUME NEW w \in Workers, ReservePaid(w)
      PROVE  RowMoves
  BY <1>0, <1>5 DEF ReservePaid, RowMoves, RequestKept
<1>6. ASSUME NEW w \in Workers, Invocation(w)
      PROVE  RowMoves
  <2>1. CASE ReserveCaptured(w) \/ FinishFails(w) \/ CompleteSubmission(w)
    BY <1>1, <2>1 DEF ReserveCaptured, FinishFails, CompleteSubmission, records
  <2>2. CASE Remote(w)
    BY <2>2, RemoteRequestKept DEF RowMoves
  <2>. QED
    BY <1>2, <1>3, <1>4, <1>5, <1>6, <2>1, <2>2, PublishMoves, RecordMoves
       DEF Invocation, ReserveExisting, ReserveNew, FinishRequest, Verify
<1>7. CASE Gateway
  BY <1>1, <1>7 DEF Gateway, GatewayGrants, GatewayCaptures, GatewayRejects,
     GatewayDrops, ApplicantPays, records
<1>8. ASSUME NEW w \in Workers, StartPayment(w) \/ (\E p \in Payments : Callback(w, p)) \/ Abort(w)
      PROVE  RowMoves
  BY <1>1, <1>8 DEF StartPayment, Callback, Abort, records
<1>. QED
  BY <1>1, <1>6, <1>7, <1>8 DEF Next, Submit, Review, vars, payVars, records

\* Each way keeps LegalInv and writes only what the database allows.
LEMMA RowsStayLegal ==
  ASSUME EvidenceInv, EvidenceInv', Kept, LegalInv, RowMoves
  PROVE  /\ LegalInv'
         /\ \A p \in Payments : LegalAttempt(payments[p], payments'[p])
<1>0. /\ payments \in [Payments -> PaymentRow]
      /\ payments' \in [Payments -> PaymentRow]
  BY DEF EvidenceInv, PaymentInv, PaymentTypeOK
<1>1. ASSUME RequestKept, obligation'.operation = "REQUEST", obligation'.state # "SETTLED"
      PROVE  /\ obligation'.selected = obligation.selected
             /\ obligation.selected \in Payments
             /\ payments[obligation.selected].status \in {"INITIATED", "REDIRECT_READY"}
  <2>1. obligation.operation = "REQUEST" /\ obligation.state # "SETTLED"
    BY <1>1 DEF RequestKept, Kept
  <2>2. obligation.selected \in Payments
    BY <2>1 DEF EvidenceInv, OneRow, Rows
  <2>. QED  BY <2>1, <2>2, NoneIsFresh DEF LegalInv, Kept
<1>2. CASE payments' = payments /\ RequestKept
  <2>1. \A p \in Payments : LegalAttempt(payments[p], payments'[p])
    BY <1>2 DEF LegalAttempt
  <2>2. Verified' = Verified
    BY <1>2 DEF Verified
  <2>. QED  BY <1>1, <1>2, <2>1, <2>2 DEF LegalInv
<1>3. ASSUME NEW p \in Payments, Created(p)
      PROVE  /\ LegalInv'
             /\ \A q \in Payments : LegalAttempt(payments[q], payments'[q])
  <2>1. /\ payments'[p].status = "INITIATED"
        /\ payments'[p].authority = payments[p].authority
        /\ \A q \in Payments \ {p} : payments'[q] = payments[q]
    BY <1>0, <1>3 DEF Created, PaymentRow
  <2>2. \A q \in Payments : payments[q].status = "ABSENT" /\ payments[q].authority = None
    BY <1>3 DEF Created, Rows, LegalInv
  <2>3. Verified' = {}
    BY <2>1, <2>2 DEF Verified
  <2>4. obligation'.selected = p
    BY <1>3 DEF Created
  <2>. QED  BY <2>1, <2>2, <2>3, <2>4 DEF LegalInv, LegalAttempt, Active
<1>4. ASSUME RequestKept, NEW p \in Payments, NEW a \in Authorities, MadePayable(p, a)
      PROVE  /\ LegalInv'
             /\ \A q \in Payments : LegalAttempt(payments[q], payments'[q])
  <2>1. /\ payments'[p].status = "REDIRECT_READY"
        /\ payments'[p].authority = a
        /\ a # None
        /\ payments[p].status \in {"INITIATED", "REDIRECT_READY"}
        /\ \A q \in Payments \ {p} : payments'[q] = payments[q]
    BY <1>0, <1>4, NoneIsFresh DEF MadePayable
  <2>2. Verified' = Verified
    BY <2>1 DEF Verified
  <2>3. \A q \in Payments : payments'[q].status \in Active <=> payments[q].status \in Active
    BY <2>1 DEF Active
  <2>4. ASSUME obligation'.operation = "REQUEST", obligation'.state # "SETTLED"
        PROVE  payments'[obligation'.selected].status \in {"INITIATED", "REDIRECT_READY"}
    BY <1>1, <1>4, <2>1, <2>4
  <2>5. LegalInv'
    BY <2>1, <2>2, <2>3, <2>4 DEF LegalInv
  <2>6. \A q \in Payments : LegalAttempt(payments[q], payments'[q])
    BY <2>1 DEF LegalAttempt
  <2>. QED  BY <2>5, <2>6
<1>5. ASSUME NEW p \in Payments, Recorded(p)
      PROVE  /\ LegalInv'
             /\ \A q \in Payments : LegalAttempt(payments[q], payments'[q])
  <2>1. /\ payments'[p].status = "VERIFIED"
        /\ payments'[p].authority = payments[p].authority
        /\ payments[p].authority # None
        /\ payments[p].status \notin {"VERIFIED", "ABSENT", "INITIATED"}
        /\ \A q \in Payments \ {p} : payments'[q] = payments[q]
    BY <1>0, <1>5 DEF Recorded, PaymentRow, LegalInv
  <2>2. \A q \in Payments \ {p} : payments[q].status = "ABSENT"
    BY <1>5 DEF Recorded, Rows
  <2>3. Verified' = {p} /\ IsSingleton(Verified')
    BY <2>1, <2>2 DEF Verified, IsSingleton
  <2>4. payments[p].status \in {"REDIRECT_READY", "PENDING", "FAILED", "CANCELLED", "TIMED_OUT"}
    BY <1>0, <2>1 DEF PaymentRow
  <2>5. LegalInv'
    BY <1>5, <2>1, <2>2, <2>3 DEF LegalInv, Recorded, Active
  <2>6. LegalAttempt(payments[p], payments'[p])
    BY <2>1, <2>4 DEF LegalAttempt
  <2>7. \A q \in Payments : LegalAttempt(payments[q], payments'[q])
    BY <2>1, <2>6 DEF LegalAttempt
  <2>. QED  BY <2>5, <2>7
<1>. QED  BY <1>2, <1>3, <1>4, <1>5 DEF RowMoves

LEMMA StatusMoves ==
  ASSUME TypeOK, [Next]_vars
  PROVE  status' # status => <<status, status'>> \in LegalStatus
<1>1. CASE Review
  BY <1>1 DEF Review, AllowedNext, LegalStatus
<1>2. CASE Submit
  BY <1>2 DEF Submit, Unsubmitted, LegalStatus
<1>3. ASSUME NEW w \in Workers, Invocation(w)
      PROVE  status' # status => <<status, status'>> \in LegalStatus
  <2>1. CASE ReservePaid(w) \/ ReserveNew(w) \/ CompleteSubmission(w)
    BY <2>1 DEF ReservePaid, ReserveNew, CompleteSubmission, Unsubmitted, LegalStatus
  <2>. QED
    BY <1>3, <2>1 DEF Invocation, ReserveCaptured, ReserveExisting, FinishRequest,
       FinishFails, Verify, RecordCapture
<1>. QED
  BY <1>1, <1>2, <1>3 DEF Next, vars, StartPayment, Callback

\* The database never refuses a step of the facilities payment, which would
\* leave captured money unrecorded: every write of every invocation, early,
\* late or repeated, is one its triggers and unique indexes allow.
THEOREM FacilitiesNeverRefused ==
  Programme = "facilities" => (Spec => [][LegalStep]_vars)
<1>. SUFFICES ASSUME Programme = "facilities"
              PROVE  Spec => [][LegalStep]_vars
  OBVIOUS
<1>1. Init => LegalInv
  <2>. SUFFICES ASSUME Init PROVE LegalInv
    OBVIOUS
  <2>1. EvidenceInv
    BY FacilitiesInitEvidence
  <2>2. \A p \in Payments : payments[p] \in History \/ payments[p] = NoPayment
    BY DEF Init, PaymentInit
  <2>3. \A p \in Payments : payments[p].status \in {"ABSENT", "INITIATED"}
                              => payments[p].authority = None
    BY <2>2 DEF History, NoPayment
  <2>4. obligation.operation = "NONE"
    <3>1. obligation = NoObligation \/ obligation = BackfilledObligation(Rows, Verified)
      BY DEF Init, PaymentInit
    <3>2. Rows \in SUBSET Payments /\ Verified \in SUBSET Rows
      BY DEF Rows, Verified
    <3>3. CreatedObligation(Rows, Verified).operation = "NONE"
             /\ CreatedObligation(Rows, Verified) \in Obligation
      BY <3>2, CreatedChosen, CreatedType
    <3>. QED  BY <3>1, <3>3 DEF NoObligation, BackfilledObligation, Obligation
  <2>. QED  BY <2>3, <2>4 DEF Init, LegalInv
<1>2. EvidenceInv /\ EvidenceInv' /\ LegalInv /\ TypeOK /\ TypeOK' /\ [Next]_vars
        => LegalInv' /\ LegalStep
  <2>. SUFFICES ASSUME EvidenceInv, EvidenceInv', LegalInv, TypeOK, [Next]_vars
                PROVE  LegalInv' /\ LegalStep
    OBVIOUS
  <2>1. RowMoves
    BY StepMoves
  <2>2. Kept
    BY StepInv DEF EvidenceInv
  <2>3. /\ LegalInv'
        /\ \A p \in Payments : LegalAttempt(payments[p], payments'[p])
    BY <2>1, <2>2, RowsStayLegal
  <2>4. status' # status => <<status, status'>> \in LegalStatus
    BY StatusMoves
  <2>. QED  BY <2>3, <2>4 DEF LegalStep, LegalInv, IsSingleton
<1>3. EvidenceInv /\ EvidenceInv' /\ LegalInv /\ TypeOK /\ TypeOK' /\ [Next]_vars
        => [LegalStep]_vars
  BY <1>2
<1>. QED
  BY <1>1, <1>2, <1>3, FacilitiesEvidence, FacilitiesTypeCorrect, PTL DEF Spec

=============================================================================
