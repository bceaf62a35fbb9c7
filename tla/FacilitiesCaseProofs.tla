------------------------ MODULE FacilitiesCaseProofs ------------------------
(* What holds of FacilitiesCase for any number of pages, reviewers, members *)
(* and corrections, and of ProfileForm for any number of people, rows and   *)
(* uploads, proved.                                                         *)
EXTENDS FacilitiesCase, ProfileForm, SequenceTheorems, FiniteSetTheorems, TLAPS

\* A page is based on no later version than the profile has, and one that is
\* about to complete this very version has found all documents.
PagesInv ==
  \A p \in Pages : form[p].step # "closed" =>
    /\ form[p].version <= profile.version
    /\ form[p].step = "completing" /\ form[p].version = profile.version
         => Complete(profile.members)

\* A payment is under way only before the application is submitted.
PaymentHolds == payment = "progress" => status = "PENDING_PAYMENT"

\* How far the SMS of a correction has come: it was sent only by the one
\* handler that had claimed it, and nothing ever finds a failed one.
SmsInv ==
  \A c \in Corrections :
    /\ correction[c].sms # "FAILED"
    /\ correction[c].state = "none" =>
         correction[c].attempts = 0 /\ correction[c].sms = "PENDING"
    /\ correction[c].attempts = 0 => sends[c] = 0
    /\ delivery[c] # "none" => correction[c].state # "none"
    /\ delivery[c] = "send" => correction[c].attempts # 0 /\ sends[c] = 0
    /\ delivery[c] = "sent" => sends[c] = 1

\* What a reviewer's page shows is what there is, as long as the application
\* has the version of the page and is under review.
ScreensInv ==
  \A a \in Reviewers : screen[a].step # "closed" =>
    /\ screen[a].status \in {"SUBMITTED", "UNDER_REVIEW", "NEEDS_EDIT", "VALIDATION_COMPLETED"}
    /\ screen[a].version <= reviewVersion
    /\ screen[a].version = reviewVersion =>
         /\ screen[a].status = status
         /\ (screen[a].step = "shown" /\ status \in {"SUBMITTED", "UNDER_REVIEW"})
              => screen[a].evidence = Evidence

CaseInv ==
  /\ CaseTypeOK
  /\ PagesInv /\ PaymentHolds /\ CompleteIsBacked
  /\ SmsInv /\ OneCorrection
  /\ ScreensInv

-----------------------------------------------------------------------------
(* Which actions change what.                                               *)

FormStep(p) ==
  \/ OpenForm(p) \/ EditForm(p) \/ SaveRead(p) \/ SaveCommit(p) \/ SaveRefused(p)
  \/ CompleteRead(p) \/ CompleteWrite(p)

FileStep(s) == Prepare(s) \/ Admit(s) \/ CommitUpload(s) \/ UploadFails(s)

RowStep ==
  \/ CreateDraft \/ RefreshSnapshot \/ UpdateDetails
  \/ StartPayment \/ PaymentEnds \/ CompletePaid \/ Submit

Decision(a) == StartReview(a) \/ CompleteValidation(a) \/ RequestCorrection(a)

LoadStep(a) == LoadRow(a) \/ LoadEvidence(a)

SmsStep(c) == Claim(c) \/ Send(c) \/ SaveResult(c) \/ DeliveryEnds(c)

LEMMA StepKinds ==
  ASSUME CaseNext
  PROVE  \/ \E p \in Pages : FormStep(p)
         \/ \E s \in Documents : FileStep(s)
         \/ PassGate
         \/ RowStep
         \/ Resubmit
         \/ \E a \in Reviewers : LoadStep(a)
         \/ \E a \in Reviewers : Decision(a)
         \/ \E c \in Corrections : SmsStep(c)
BY DEF CaseNext, FormStep, FileStep, RowStep, LoadStep, Decision, SmsStep

LEMMA FormFrame ==
  ASSUME NEW p \in Pages, FormStep(p)
  PROVE  UNCHANGED <<files, passed, case, review>>
BY DEF FormStep, OpenForm, EditForm, SaveRead, SaveCommit, SaveRefused, CompleteRead,
       CompleteWrite

LEMMA FileFrame ==
  ASSUME NEW s \in Documents, FileStep(s)
  PROVE  UNCHANGED <<company, passed, case, review>>
BY DEF FileStep, Prepare, Admit, CommitUpload, UploadFails

LEMMA RowFrame ==
  ASSUME RowStep
  PROVE  UNCHANGED <<company, files, review>>
BY DEF RowStep, CreateDraft, RefreshSnapshot, UpdateDetails, StartPayment, PaymentEnds,
       CompletePaid, Submit

LEMMA LoadFrame ==
  ASSUME NEW a \in Reviewers, LoadStep(a)
  PROVE  UNCHANGED <<company, files, passed, case, correction, sms>>
BY DEF LoadStep, LoadRow, LoadEvidence

LEMMA DecisionFrame ==
  ASSUME NEW a \in Reviewers, Decision(a)
  PROVE  UNCHANGED <<company, doc, passed, payment, snapshot>>
BY DEF Decision, StartReview, CompleteValidation, RequestCorrection, files

LEMMA SmsFrame ==
  ASSUME NEW c \in Corrections, SmsStep(c)
  PROVE  UNCHANGED <<company, files, passed, case, screen>>
BY DEF SmsStep, Claim, Send, SaveResult, DeliveryEnds

-----------------------------------------------------------------------------
(* Types.                                                                   *)

LEMMA CaseInitInv == CaseInit => CaseInv
<1>. SUFFICES ASSUME CaseInit PROVE CaseInv
  OBVIOUS
<1>1. CaseTypeOK
  BY DEF CaseInit, CaseTypeOK, CompanyTypes, FileTypes, ApplicationTypes, SmsTypes,
         ScreenTypes, Statuses, Request, Unsent
<1>2. PagesInv /\ ScreensInv
  BY DEF CaseInit, PagesInv, ScreensInv, Shut
<1>3. PaymentHolds /\ CompleteIsBacked
  BY DEF CaseInit, PaymentHolds, CompleteIsBacked
<1>4. SmsInv /\ OneCorrection
  BY DEF CaseInit, SmsInv, OneCorrection, Open, Unsent
<1>. QED  BY <1>1, <1>2, <1>3, <1>4 DEF CaseInv

LEMMA ShutIsShut == Shut.step = "closed"
BY DEF Shut

LEMMA OpenPages ==
  ASSUME CompanyTypes, NEW p \in Pages, form[p].step # "closed"
  PROVE  form[p] \in OpenPage
BY ShutIsShut DEF CompanyTypes

LEMMA FormTypes ==
  ASSUME CompanyTypes, NEW p \in Pages, FormStep(p)
  PROVE  CompanyTypes'
<1>1. form[p].step # "closed" => form[p] \in OpenPage
  BY OpenPages
<1>2. form \in [Pages -> {Shut} \cup OpenPage]
  BY DEF CompanyTypes
<1>3. profile.version \in Nat /\ profile.members \subseteq Officers
  BY DEF CompanyTypes
<1>4. CASE OpenForm(p)
  <2>1. [step |-> "open", version |-> profile.version, seen |-> 0,
         known |-> profile.members, members |-> profile.members] \in OpenPage
    BY <1>3 DEF OpenPage
  <2>. QED  BY <1>2, <1>4, <2>1 DEF OpenForm, CompanyTypes
<1>5. CASE EditForm(p)
  <2>1. PICK o \in Officers :
          /\ minted' = minted \cup {o}
          /\ form' = [form EXCEPT ![p].members = IF o \in @ THEN @ \ {o} ELSE @ \cup {o}]
    BY <1>5 DEF EditForm
  <2>2. [form[p] EXCEPT !.members = IF o \in @ THEN @ \ {o} ELSE @ \cup {o}] \in OpenPage
    BY <1>1, <1>5 DEF EditForm, OpenPage
  <2>. QED  BY <1>2, <1>5, <2>1, <2>2 DEF EditForm, CompanyTypes
<1>6. CASE SaveRead(p)
  <2>1. [form[p] EXCEPT !.step = "saving", !.seen = profile.version] \in OpenPage
    BY <1>1, <1>3, <1>6 DEF SaveRead, OpenPage
  <2>. QED  BY <1>2, <1>6, <2>1 DEF SaveRead, CompanyTypes
<1>7. CASE SaveCommit(p)
  <2>. DEFINE next == profile.version + 1
  <2>0. form[p] \in OpenPage /\ next \in Nat
    BY <1>1, <1>3, <1>7 DEF SaveCommit
  <2>. HIDE DEF next
  <2>1. /\ [form[p] EXCEPT !.step = "open"] \in OpenPage
        /\ [form[p] EXCEPT !.step = "open", !.version = next,
                           !.known = form[p].members] \in OpenPage
        /\ form[p].members \subseteq Officers
    BY <2>0 DEF OpenPage
  <2>2. form' \in [Pages -> {Shut} \cup OpenPage]
    BY <1>2, <1>7, <2>1 DEF SaveCommit, next
  <2>3. profile' \in [version : Nat, members : SUBSET Officers, complete : BOOLEAN]
    BY <1>7, <2>0, <2>1 DEF SaveCommit, next
  <2>. QED  BY <1>7, <2>2, <2>3 DEF SaveCommit, CompanyTypes
<1>8. CASE SaveRefused(p)
  <2>1. [form[p] EXCEPT !.step = "open"] \in OpenPage
    BY <1>1, <1>8 DEF SaveRefused, OpenPage
  <2>. QED  BY <1>2, <1>8, <2>1 DEF SaveRefused, CompanyTypes
<1>9. CASE CompleteRead(p)
  <2>1. [form[p] EXCEPT !.step = "completing"] \in OpenPage
    BY <1>1, <1>9 DEF CompleteRead, OpenPage
  <2>. QED  BY <1>2, <1>9, <2>1 DEF CompleteRead, CompanyTypes
<1>10. CASE CompleteWrite(p)
  <2>1. [profile EXCEPT !.version = @ + 1, !.complete = TRUE]
          \in [version : Nat, members : SUBSET Officers, complete : BOOLEAN]
    <3>1. /\ profile \in [version : Nat, members : SUBSET Officers, complete : BOOLEAN]
          /\ profile.version + 1 \in Nat
      BY <1>3 DEF CompanyTypes
    <3>. QED  BY <3>1
  <2>2. profile' \in [version : Nat, members : SUBSET Officers, complete : BOOLEAN]
    BY <1>10, <2>1 DEF CompleteWrite, CompanyTypes
  <2>. QED  BY <1>2, <1>10, <2>2 DEF CompleteWrite, CompanyTypes
<1>. QED
  BY <1>4, <1>5, <1>6, <1>7, <1>8, <1>9, <1>10 DEF FormStep

LEMMA UploadTypes ==
  ASSUME FileTypes, NEW s \in Documents, FileStep(s)
  PROVE  FileTypes'
BY DEF FileTypes, FileStep, Prepare, Admit, CommitUpload, UploadFails

LEMMA RowTypes ==
  ASSUME ApplicationTypes, CompanyTypes, RowStep
  PROVE  ApplicationTypes'
<1>1. profile.members \subseteq Officers
  BY DEF CompanyTypes
<1>2. CASE CreateDraft
  BY <1>1, <1>2 DEF CreateDraft, ApplicationTypes, Statuses
<1>3. CASE RefreshSnapshot
  BY <1>1, <1>3 DEF RefreshSnapshot, ApplicationTypes, Statuses
<1>4. CASE UpdateDetails
  BY <1>4 DEF UpdateDetails, Touch, ApplicationTypes, Statuses
<1>5. CASE StartPayment \/ PaymentEnds
  BY <1>1, <1>5 DEF StartPayment, PaymentEnds, Touch, ApplicationTypes, Statuses
<1>6. CASE CompletePaid \/ Submit
  BY <1>1, <1>6 DEF CompletePaid, Submit, Touch, ApplicationTypes, Statuses
<1>. QED  BY <1>2, <1>3, <1>4, <1>5, <1>6 DEF RowStep

LEMMA DecisionTypes ==
  ASSUME ApplicationTypes, FileTypes, SmsTypes, ScreenTypes, NEW a \in Reviewers, Decision(a)
  PROVE  ApplicationTypes' /\ FileTypes' /\ SmsTypes' /\ ScreenTypes'
<1>1. ApplicationTypes'
  BY DecisionFrame DEF Decision, StartReview, CompleteValidation, RequestCorrection,
     Decides, Touch, ApplicationTypes, Statuses
<1>2. FileTypes'
  BY DEF Decision, StartReview, CompleteValidation, RequestCorrection, FileTypes, files
<1>3. SmsTypes'
  <2>1. CASE RequestCorrection(a)
    <3>1. PICK c \in Corrections :
            /\ correction' = [correction EXCEPT ![c].state = "open"]
            /\ delivery' = [delivery EXCEPT ![c] = "claim"]
      BY <2>1 DEF RequestCorrection
    <3>2. [correction[c] EXCEPT !.state = "open"] \in Request
      BY DEF SmsTypes, Request
    <3>. QED  BY <2>1, <3>1, <3>2 DEF RequestCorrection, SmsTypes
  <2>2. CASE StartReview(a) \/ CompleteValidation(a)
    BY <2>2 DEF StartReview, CompleteValidation, SmsTypes, sms
  <2>. QED  BY <2>1, <2>2 DEF Decision
<1>4. ScreenTypes'
  BY DEF Decision, StartReview, CompleteValidation, RequestCorrection, Decides, ScreenTypes
<1>. QED  BY <1>1, <1>2, <1>3, <1>4

LEMMA LoadTypes ==
  ASSUME ApplicationTypes, FileTypes, ScreenTypes, NEW a \in Reviewers, LoadStep(a)
  PROVE  ScreenTypes'
<1>1. CASE LoadRow(a)
  <2>1. [step |-> "row", version |-> reviewVersion, status |-> status] \in RowPage
    BY DEF RowPage, ApplicationTypes
  <2>. QED  BY <1>1, <2>1 DEF LoadRow, ScreenTypes
<1>2. CASE LoadEvidence(a)
  <2>1. screen[a] \in RowPage
    BY <1>2, ShutIsShut DEF LoadEvidence, ScreenTypes, ShownPage
  <2>2. [step |-> "shown", version |-> screen[a].version, status |-> screen[a].status,
         evidence |-> Evidence] \in ShownPage
    BY <2>1 DEF RowPage, ShownPage, Evidence, ApplicationTypes, FileTypes
  <2>. QED  BY <1>2, <2>2 DEF LoadEvidence, ScreenTypes
<1>. QED  BY <1>1, <1>2 DEF LoadStep

LEMMA MessageTypes ==
  ASSUME SmsTypes, NEW c \in Corrections, SmsStep(c)
  PROVE  SmsTypes'
<1>1. correction[c] \in Request /\ correction \in [Corrections -> Request]
  BY DEF SmsTypes
<1>2. CASE Claim(c)
  <2>1. [correction[c] EXCEPT !.sms = "PENDING", !.attempts = @ + 1, !.code = "none"] \in Request
    <3>1. correction[c].attempts + 1 \in Nat
      BY <1>1 DEF Request
    <3>. QED  BY <1>1, <3>1 DEF Request
  <2>. QED  BY <1>1, <1>2, <2>1 DEF Claim, SmsTypes
<1>3. CASE Send(c)
  BY <1>3 DEF Send, SmsTypes
<1>4. CASE SaveResult(c)
  <2>1. /\ [correction[c] EXCEPT !.sms = "SENT", !.code = "none"] \in Request
        /\ \A code \in {"PERSISTENCE_UNCONFIRMED", "DELIVERY_UNCONFIRMED"} :
             [correction[c] EXCEPT !.code = code] \in Request
    BY <1>1 DEF Request
  <2>. QED  BY <1>1, <1>4, <2>1 DEF SaveResult, SmsTypes
<1>5. CASE DeliveryEnds(c)
  BY <1>5 DEF DeliveryEnds, SmsTypes
<1>. QED  BY <1>2, <1>3, <1>4, <1>5 DEF SmsStep

LEMMA ResubmitTypes ==
  ASSUME ApplicationTypes, SmsTypes, Resubmit
  PROVE  ApplicationTypes' /\ SmsTypes'
<1>1. PICK c \in Corrections : correction' = [correction EXCEPT ![c].state = "resolved"]
  BY DEF Resubmit
<1>2. [correction[c] EXCEPT !.state = "resolved"] \in Request
  BY DEF SmsTypes, Request
<1>. QED
  BY <1>1, <1>2 DEF Resubmit, Touch, ApplicationTypes, Statuses, SmsTypes, sms

LEMMA TypesKept ==
  ASSUME CaseTypeOK, CaseNext
  PROVE  CaseTypeOK'
<1>. USE DEF CaseTypeOK
<1>1. ASSUME NEW p \in Pages, FormStep(p) PROVE CaseTypeOK'
  BY <1>1, FormTypes, FormFrame
     DEF files, case, review, sms, FileTypes, ApplicationTypes, SmsTypes, ScreenTypes
<1>2. ASSUME NEW s \in Documents, FileStep(s) PROVE CaseTypeOK'
  BY <1>2, UploadTypes, FileFrame
     DEF company, case, review, sms, CompanyTypes, ApplicationTypes, SmsTypes, ScreenTypes
<1>3. CASE PassGate
  BY <1>3 DEF PassGate, company, files, case, review, sms, CompanyTypes, FileTypes,
     ApplicationTypes, SmsTypes, ScreenTypes
<1>4. CASE RowStep
  BY <1>4, RowTypes, RowFrame
     DEF company, files, review, sms, CompanyTypes, FileTypes, SmsTypes, ScreenTypes
<1>5. CASE Resubmit
  BY <1>5, ResubmitTypes DEF Resubmit, company, files, CompanyTypes, FileTypes, ScreenTypes
<1>6. ASSUME NEW a \in Reviewers, LoadStep(a) PROVE CaseTypeOK'
  BY <1>6, LoadTypes, LoadFrame
     DEF company, files, case, sms, CompanyTypes, FileTypes, ApplicationTypes, SmsTypes
<1>7. ASSUME NEW a \in Reviewers, Decision(a) PROVE CaseTypeOK'
  BY <1>7, DecisionTypes, DecisionFrame DEF company, CompanyTypes
<1>8. ASSUME NEW c \in Corrections, SmsStep(c) PROVE CaseTypeOK'
  BY <1>8, MessageTypes, SmsFrame
     DEF company, files, case, CompanyTypes, FileTypes, ApplicationTypes, ScreenTypes
<1>. QED  BY <1>1, <1>2, <1>3, <1>4, <1>5, <1>6, <1>7, <1>8, StepKinds

-----------------------------------------------------------------------------
(* The profile.                                                             *)

\* No document is ever taken away.
LEMMA DocumentsGrow ==
  ASSUME CaseNext
  PROVE  doc' = doc \/ \E s \in Documents : doc' = [doc EXCEPT ![s] = @ + 1]
BY StepKinds, FormFrame, FileFrame, RowFrame, LoadFrame, DecisionFrame, SmsFrame
   DEF FileStep, Prepare, Admit, CommitUpload, UploadFails, PassGate, Resubmit, files

LEMMA CompleteStays ==
  ASSUME CaseTypeOK, CaseNext, NEW m \in SUBSET Officers, Complete(m)
  PROVE  Complete(m)'
<1>1. doc \in [Documents -> Nat]
  BY DEF CaseTypeOK, FileTypes
<1>2. \A o \in m : o \in Documents /\ doc[o] > 0
  BY DEF Complete, Documents
<1>3. \A o \in m : doc'[o] > 0
  BY <1>1, <1>2, DocumentsGrow
<1>. QED  BY <1>3 DEF Complete

LEMMA PagesFollow ==
  ASSUME CaseTypeOK, PagesInv, CaseNext
  PROVE  PagesInv'
<1>1. /\ \A q \in Pages : form[q].step # "closed" => form[q].version \in Nat
      /\ profile.version \in Nat /\ profile.members \in SUBSET Officers
      /\ form \in [Pages -> {Shut} \cup OpenPage]
  BY OpenPages DEF CaseTypeOK, CompanyTypes, OpenPage
<1>2. CASE UNCHANGED <<profile, form>>
  BY <1>1, <1>2, CompleteStays DEF PagesInv
<1>3. ASSUME NEW p \in Pages, FormStep(p) PROVE PagesInv'
  <2>. SUFFICES ASSUME NEW q \in Pages, form'[q].step # "closed"
                PROVE  /\ form'[q].version <= profile'.version
                       /\ form'[q].step = "completing" /\ form'[q].version = profile'.version
                            => Complete(profile.members)'
    BY DEF PagesInv
  <2>1. CASE OpenForm(p)
    BY <1>1, <2>1, CompleteStays DEF OpenForm, PagesInv
  <2>2. CASE EditForm(p)
    BY <1>1, <2>2, CompleteStays DEF EditForm, PagesInv
  <2>3. CASE SaveRead(p)
    BY <1>1, <2>3, CompleteStays DEF SaveRead, PagesInv
  <2>4. CASE SaveCommit(p)
    <3>1. /\ form[p] \in OpenPage /\ form[p].version <= profile.version
          /\ form' = [form EXCEPT ![p].step = "open", ![p].version = profile.version + 1,
                                  ![p].known = form[p].members]
             \/ form' = [form EXCEPT ![p].step = "open"]
          /\ profile'.version = profile.version + 1
      BY <2>4, OpenPages DEF SaveCommit, PagesInv, CaseTypeOK
    <3>2. CASE q = p
      <4>1. form'[p].step = "open" /\ form'[p].version \in {form[p].version, profile.version + 1}
        BY <1>1, <3>1 DEF OpenPage
      <4>. QED  BY <1>1, <3>1, <3>2, <4>1 DEF OpenPage
    <3>3. CASE q # p
      <4>1. form'[q] = form[q]
        BY <1>1, <3>1, <3>3
      <4>. QED  BY <1>1, <3>1, <4>1 DEF PagesInv
    <3>. QED  BY <3>2, <3>3
  <2>5. CASE SaveRefused(p)
    BY <1>1, <2>5, CompleteStays, ShutIsShut DEF SaveRefused, PagesInv
  <2>6. CASE CompleteRead(p)
    BY <1>1, <2>6, CompleteStays DEF CompleteRead, PagesInv
  <2>7. CASE CompleteWrite(p)
    BY <1>1, <2>7, CompleteStays, ShutIsShut DEF CompleteWrite, PagesInv
  <2>. QED  BY <1>3, <2>1, <2>2, <2>3, <2>4, <2>5, <2>6, <2>7 DEF FormStep
<1>4. (\E p \in Pages : FormStep(p)) \/ UNCHANGED <<profile, form>>
  BY StepKinds, FileFrame, RowFrame, LoadFrame, DecisionFrame, SmsFrame
     DEF PassGate, Resubmit, company
<1>. QED  BY <1>2, <1>3, <1>4

\* What a reviewer sees of an application under review stays as it is, and so
\* do the members of a locked profile.
LEMMA Frozen ==
  ASSUME CaseTypeOK, CaseNext
  PROVE  /\ ProfileLocked => profile'.members = profile.members
         /\ status \in {"SUBMITTED", "UNDER_REVIEW"} => Evidence' = Evidence
<1>. USE DEF Evidence, ProfileLocked
<1>1. ASSUME NEW p \in Pages, FormStep(p), ProfileLocked
      PROVE  profile'.members = profile.members
  BY <1>1 DEF CaseTypeOK, CompanyTypes, FormStep, OpenForm, EditForm, SaveRead, SaveCommit,
     SaveRefused, CompleteRead, CompleteWrite
<1>2. ASSUME NEW s \in Documents, FileStep(s), status \in {"SUBMITTED", "UNDER_REVIEW"}
      PROVE  UNCHANGED <<doc, snapshot>>
  BY <1>2, FileFrame DEF FileStep, Prepare, Admit, CommitUpload, UploadFails, MayUpload,
     Editable, DocumentsLocked, case
<1>3. ASSUME RowStep, status \in {"SUBMITTED", "UNDER_REVIEW"}
      PROVE  UNCHANGED <<doc, snapshot>>
  BY <1>3 DEF RowStep, CreateDraft, RefreshSnapshot, UpdateDetails, StartPayment,
     PaymentEnds, CompletePaid, Submit, Editable, files
<1>4. ProfileLocked => profile'.members = profile.members
  BY <1>1, StepKinds, FileFrame, RowFrame, LoadFrame, DecisionFrame, SmsFrame
     DEF PassGate, Resubmit, company
<1>5. status \in {"SUBMITTED", "UNDER_REVIEW"} => UNCHANGED <<doc, snapshot>>
  BY <1>2, <1>3, StepKinds, FormFrame, LoadFrame, DecisionFrame, SmsFrame
     DEF PassGate, Resubmit, files, case
<1>. QED  BY <1>4, <1>5

LEMMA QualifiedStays ==
  ASSUME CaseTypeOK, CaseNext, Qualified, profile'.members = profile.members
  PROVE  Qualified'
<1>1. doc \in [Documents -> Nat] /\ profile.members \subseteq Officers
  BY DEF CaseTypeOK, FileTypes, CompanyTypes
<1>. QED  BY <1>1, DocumentsGrow DEF Qualified, Documents

LEMMA PaymentStays ==
  ASSUME CaseTypeOK, PaymentHolds, CaseNext
  PROVE  PaymentHolds'
<1>. USE DEF PaymentHolds
<1>1. CASE RowStep
  BY <1>1 DEF RowStep, CreateDraft, RefreshSnapshot, UpdateDetails, StartPayment, PaymentEnds,
     CompletePaid, Submit
<1>2. CASE Resubmit
  BY <1>2 DEF Resubmit
<1>3. ASSUME NEW a \in Reviewers, Decision(a) PROVE PaymentHolds'
  BY <1>3 DEF Decision, StartReview, CompleteValidation, RequestCorrection
<1>4. CASE UNCHANGED <<status, payment>>
  BY <1>4
<1>. QED
  BY <1>1, <1>2, <1>3, <1>4, StepKinds, FormFrame, FileFrame, LoadFrame, SmsFrame
     DEF PassGate, case

LEMMA CompleteStaysBacked ==
  ASSUME CaseTypeOK, PagesInv, CompleteIsBacked, CaseNext
  PROVE  CompleteIsBacked'
<1>0. profile.members \in SUBSET Officers
  BY DEF CaseTypeOK, CompanyTypes
<1>1. profile'.complete => Complete(profile.members)'
  <2>1. CASE UNCHANGED profile
    BY <1>0, <2>1, CompleteStays DEF CompleteIsBacked
  <2>2. ASSUME NEW p \in Pages, FormStep(p), profile' # profile, profile'.complete
        PROVE  Complete(profile.members)'
    <3>1. CompleteWrite(p)
      BY <2>2 DEF FormStep, OpenForm, EditForm, SaveRead, SaveCommit, SaveRefused, CompleteRead
    <3>2. /\ form[p].step = "completing" /\ form[p].version = profile.version
          /\ profile'.members = profile.members
      BY <2>2, <3>1 DEF CompleteWrite, CaseTypeOK, CompanyTypes
    <3>3. Complete(profile.members)
      BY <3>2 DEF PagesInv
    <3>4. Complete(profile.members)' <=> (profile.members # {} /\ \A o \in profile.members : doc'[o] > 0)
      BY <3>2 DEF Complete
    <3>. QED  BY <1>0, <3>3, <3>4, CompleteStays DEF Complete
  <2>3. (\E p \in Pages : FormStep(p)) \/ UNCHANGED profile
    BY StepKinds, FileFrame, RowFrame, LoadFrame, DecisionFrame, SmsFrame
       DEF PassGate, Resubmit, company
  <2>. QED  BY <2>1, <2>2, <2>3
<1>2. ASSUME status' \in {"SUBMITTED", "UNDER_REVIEW"}
      PROVE  snapshot' # {} /\ Qualified'
  <2>1. CASE status \in {"SUBMITTED", "UNDER_REVIEW"}
    BY <2>1, Frozen, QualifiedStays DEF CompleteIsBacked, ProfileLocked, Evidence
  <2>2. CASE RowStep /\ status \notin {"SUBMITTED", "UNDER_REVIEW"}
    <3>1. (CompletePaid \/ Submit) /\ snapshot' # {} /\ Qualified
      BY <1>2, <2>2 DEF RowStep, CreateDraft, RefreshSnapshot, UpdateDetails, StartPayment,
         PaymentEnds, CompletePaid, Submit, Ready
    <3>. QED  BY <2>2, <3>1, RowFrame, QualifiedStays DEF company
  <2>3. CASE Resubmit
    BY <2>3, QualifiedStays DEF Resubmit, Ready, company
  <2>4. ASSUME NEW a \in Reviewers, Decision(a)
        PROVE  status \in {"SUBMITTED", "UNDER_REVIEW"}
    BY <2>4 DEF Decision, StartReview, CompleteValidation, RequestCorrection
  <2>5. status' = status \/ RowStep \/ Resubmit \/ \E a \in Reviewers : Decision(a)
    BY StepKinds, FormFrame, FileFrame, LoadFrame, SmsFrame DEF PassGate, case
  <2>. QED  BY <1>2, <2>1, <2>2, <2>3, <2>4, <2>5
<1>. QED  BY <1>1, <1>2 DEF CompleteIsBacked

-----------------------------------------------------------------------------
(* Corrections and their SMS.                                               *)

LEMMA Messages ==
  ASSUME CaseTypeOK, SmsInv, OneCorrection, NEW c \in Corrections, SmsStep(c)
  PROVE  SmsInv' /\ OneCorrection'
<1>1. /\ correction \in [Corrections -> Request] /\ sends \in [Corrections -> Nat]
      /\ delivery \in [Corrections -> {"none", "claim", "send", "sent", "unconfirmed"}]
  BY DEF CaseTypeOK, SmsTypes
<1>2. UNCHANGED status
  BY SmsFrame DEF case
<1>3. /\ \A b \in Corrections \ {c} :
            correction'[b] = correction[b] /\ delivery'[b] = delivery[b] /\ sends'[b] = sends[b]
      /\ correction'[c].state = correction[c].state
  BY <1>1 DEF SmsStep, Claim, Send, SaveResult, DeliveryEnds, Request
<1>4. /\ correction'[c].sms # "FAILED"
      /\ correction[c].state = "none" =>
           correction'[c].attempts = 0 /\ correction'[c].sms = "PENDING"
      /\ delivery'[c] # "none" => correction[c].state # "none"
      /\ correction'[c].attempts = 0 => sends'[c] = 0
      /\ delivery'[c] = "send" => correction'[c].attempts # 0 /\ sends'[c] = 0
      /\ delivery'[c] = "sent" => sends'[c] = 1
      /\ sends'[c] <= 1
      /\ correction'[c].sms = "SENT" => sends'[c] = 1
  <2>1. correction[c] \in Request /\ sends[c] \in Nat
    BY <1>1
  <2>2. CASE Claim(c)
    <3>1. /\ correction'[c] = [correction[c] EXCEPT !.sms = "PENDING", !.attempts = @ + 1,
                                                    !.code = "none"]
          /\ delivery'[c] = "send" /\ sends' = sends
          /\ correction[c].state = "open" /\ delivery[c] = "claim" /\ correction[c].attempts = 0
      BY <1>1, <2>2 DEF Claim, MayClaim, SmsInv, Open
    <3>. QED  BY <2>1, <3>1 DEF SmsInv, Request
  <2>3. CASE Send(c)
    <3>1. /\ correction' = correction /\ delivery[c] = "send"
          /\ \/ delivery'[c] = "sent" /\ sends'[c] = sends[c] + 1
             \/ delivery'[c] = "unconfirmed" /\ sends'[c] \in {sends[c], sends[c] + 1}
      BY <1>1, <2>3 DEF Send
    <3>. QED  BY <2>1, <3>1 DEF SmsInv, OneCorrection
  <2>4. CASE SaveResult(c)
    <3>1. /\ delivery'[c] = "none" /\ sends' = sends
          /\ \/ /\ delivery[c] = "sent"
                /\ correction'[c] = [correction[c] EXCEPT !.sms = "SENT", !.code = "none"]
             \/ /\ delivery[c] \in {"sent", "unconfirmed"} /\ correction[c].sms = "PENDING"
                /\ \E code \in {"PERSISTENCE_UNCONFIRMED", "DELIVERY_UNCONFIRMED"} :
                     correction'[c] = [correction[c] EXCEPT !.code = code]
      BY <1>1, <2>4 DEF SaveResult
    <3>. QED  BY <2>1, <3>1 DEF SmsInv, OneCorrection, Request
  <2>5. CASE DeliveryEnds(c)
    BY <1>1, <2>5 DEF DeliveryEnds, SmsInv, OneCorrection
  <2>. QED  BY <2>2, <2>3, <2>4, <2>5 DEF SmsStep
<1>5. SmsInv'
  BY <1>3, <1>4 DEF SmsInv
<1>6. \A b \in Corrections : Open(b)' <=> Open(b)
  BY <1>3 DEF Open
<1>7. \A b \in Corrections : sends'[b] <= 1 /\ (correction'[b].sms = "SENT" => sends'[b] = 1)
  BY <1>3, <1>4 DEF OneCorrection
<1>. QED  BY <1>2, <1>5, <1>6, <1>7 DEF OneCorrection

LEMMA Asked ==
  ASSUME CaseTypeOK, SmsInv, OneCorrection, NEW a \in Reviewers, RequestCorrection(a)
  PROVE  SmsInv' /\ OneCorrection'
<1>1. /\ correction \in [Corrections -> Request] /\ UNCHANGED sends
      /\ delivery \in [Corrections -> {"none", "claim", "send", "sent", "unconfirmed"}]
      /\ status = "UNDER_REVIEW" /\ status' = "NEEDS_EDIT"
  BY DEF CaseTypeOK, SmsTypes, RequestCorrection
<1>2. PICK c \in Corrections :
        /\ correction[c].state = "none"
        /\ correction' = [correction EXCEPT ![c].state = "open"]
        /\ delivery' = [delivery EXCEPT ![c] = "claim"]
  BY DEF RequestCorrection
<1>3. \A b \in Corrections :
        /\ correction'[b].sms = correction[b].sms
        /\ correction'[b].attempts = correction[b].attempts
        /\ b # c => correction'[b] = correction[b] /\ delivery'[b] = delivery[b]
  BY <1>1, <1>2 DEF Request
<1>4. correction'[c].state = "open" /\ delivery'[c] = "claim"
  BY <1>1, <1>2 DEF Request
<1>5. \A b \in Corrections : ~Open(b)
  BY <1>1 DEF OneCorrection
<1>6. \A b \in Corrections : Open(b)' <=> b = c
  BY <1>3, <1>4, <1>5 DEF Open
<1>7. SmsInv'
  BY <1>1, <1>3, <1>4 DEF SmsInv
<1>. QED  BY <1>1, <1>3, <1>6, <1>7 DEF OneCorrection

LEMMA Answered ==
  ASSUME CaseTypeOK, SmsInv, OneCorrection, Resubmit
  PROVE  SmsInv' /\ OneCorrection'
<1>1. /\ correction \in [Corrections -> Request] /\ UNCHANGED <<sends, delivery>>
      /\ status' = "SUBMITTED"
  BY DEF CaseTypeOK, SmsTypes, Resubmit, sms
<1>2. PICK c \in Corrections :
        Open(c) /\ correction' = [correction EXCEPT ![c].state = "resolved"]
  BY DEF Resubmit
<1>3. /\ \A b \in Corrections \ {c} : correction'[b] = correction[b]
      /\ correction'[c].state = "resolved" /\ correction'[c].sms = correction[c].sms
      /\ correction'[c].attempts = correction[c].attempts
  BY <1>1, <1>2 DEF Request
<1>4. \A b \in Corrections : ~Open(b)'
  BY <1>2, <1>3 DEF OneCorrection, Open
<1>5. SmsInv'
  BY <1>1, <1>2, <1>3 DEF SmsInv, Open
<1>. QED  BY <1>1, <1>3, <1>4, <1>5 DEF OneCorrection

LEMMA CorrectionStays ==
  ASSUME CaseTypeOK, PaymentHolds, SmsInv, OneCorrection, CaseNext
  PROVE  SmsInv' /\ OneCorrection'
<1>1. ASSUME UNCHANGED <<correction, sms>>, status' = "NEEDS_EDIT" <=> status = "NEEDS_EDIT"
      PROVE  SmsInv' /\ OneCorrection'
  BY <1>1 DEF SmsInv, OneCorrection, Open, sms
<1>2. CASE RowStep
  <2>1. status' = "NEEDS_EDIT" <=> status = "NEEDS_EDIT"
    BY <1>2 DEF PaymentHolds, RowStep, CreateDraft, RefreshSnapshot, UpdateDetails,
       StartPayment, PaymentEnds, CompletePaid, Submit
  <2>. QED  BY <1>1, <1>2, <2>1, RowFrame DEF review
<1>3. ASSUME NEW a \in Reviewers, StartReview(a) \/ CompleteValidation(a)
      PROVE  SmsInv' /\ OneCorrection'
  BY <1>1, <1>3 DEF StartReview, CompleteValidation
<1>4. CASE UNCHANGED <<correction, sms, status>>
  BY <1>1, <1>4
<1>. QED
  BY <1>2, <1>3, <1>4, StepKinds, FormFrame, FileFrame, LoadFrame, Messages, Asked, Answered
     DEF PassGate, Decision, case, review

-----------------------------------------------------------------------------
(* The pages of the reviewers.                                              *)

LEMMA OpenScreens ==
  ASSUME CaseTypeOK, NEW a \in Reviewers, screen[a].step # "closed"
  PROVE  screen[a] \in RowPage \cup ShownPage /\ screen[a].version \in Nat
BY ShutIsShut DEF CaseTypeOK, ScreenTypes, RowPage, ShownPage

LEMMA Versions ==
  ASSUME CaseTypeOK, CaseNext
  PROVE  \/ reviewVersion' = reviewVersion + 1
         \/ reviewVersion' = reviewVersion /\ (status' = status \/ status = "NONE")
<1>1. CASE RowStep
  BY <1>1 DEF RowStep, CreateDraft, RefreshSnapshot, UpdateDetails, StartPayment, PaymentEnds,
     CompletePaid, Submit, Touch
<1>2. CASE Resubmit
  BY <1>2 DEF Resubmit, Touch
<1>3. ASSUME NEW a \in Reviewers, Decision(a)
      PROVE  reviewVersion' = reviewVersion + 1
  BY <1>3 DEF Decision, StartReview, CompleteValidation, RequestCorrection, Decides, Touch
<1>. QED
  BY <1>1, <1>2, <1>3, StepKinds, FormFrame, FileFrame, LoadFrame, SmsFrame DEF PassGate, case

LEMMA ScreensFollow ==
  ASSUME CaseTypeOK, ScreensInv, CaseNext
  PROVE  ScreensInv'
<1>1. /\ screen \in [Reviewers -> {Shut} \cup RowPage \cup ShownPage]
      /\ reviewVersion \in Nat
  BY DEF CaseTypeOK, ScreenTypes, ApplicationTypes
<1>2. ASSUME NEW a \in Reviewers, LoadStep(a) PROVE ScreensInv'
  <2>1. UNCHANGED <<doc, snapshot, status, reviewVersion>>
    BY <1>2, LoadFrame DEF files, case
  <2>2. \A b \in Reviewers \ {a} : screen'[b] = screen[b]
    BY <1>1, <1>2 DEF LoadStep, LoadRow, LoadEvidence
  <2>3. CASE LoadRow(a)
    <3>1. /\ screen'[a] = [step |-> "row", version |-> reviewVersion, status |-> status]
          /\ status \in {"SUBMITTED", "UNDER_REVIEW", "NEEDS_EDIT", "VALIDATION_COMPLETED"}
      BY <1>1, <2>3 DEF LoadRow
    <3>. QED  BY <1>1, <2>1, <2>2, <3>1 DEF ScreensInv, Evidence
  <2>4. CASE LoadEvidence(a)
    <3>1. /\ screen'[a] = [step |-> "shown", version |-> screen[a].version,
                          status |-> screen[a].status, evidence |-> Evidence]
          /\ screen[a].step = "row"
      BY <1>1, <2>4 DEF LoadEvidence
    <3>. QED  BY <2>1, <2>2, <3>1 DEF ScreensInv, Evidence
  <2>. QED  BY <1>2, <2>3, <2>4 DEF LoadStep
<1>3. ASSUME \A a \in Reviewers : screen'[a] \in {screen[a], Shut} PROVE ScreensInv'
  <2>. SUFFICES ASSUME NEW a \in Reviewers, screen'[a].step # "closed"
                PROVE  /\ screen[a].status \in {"SUBMITTED", "UNDER_REVIEW", "NEEDS_EDIT",
                                               "VALIDATION_COMPLETED"}
                       /\ screen[a].version <= reviewVersion'
                       /\ screen[a].version = reviewVersion' =>
                            /\ screen[a].status = status'
                            /\ (screen[a].step = "shown" /\ status' \in {"SUBMITTED", "UNDER_REVIEW"})
                                 => screen[a].evidence = Evidence'
    BY <1>3, ShutIsShut DEF ScreensInv
  <2>1. screen[a].step # "closed"
    BY <1>3, ShutIsShut
  <2>2. screen[a].version \in Nat
    BY <2>1, OpenScreens
  <2>3. CASE reviewVersion' = reviewVersion + 1
    BY <1>1, <2>1, <2>2, <2>3 DEF ScreensInv
  <2>4. CASE reviewVersion' = reviewVersion /\ (status' = status \/ status = "NONE")
    BY <2>1, <2>4, Frozen DEF ScreensInv
  <2>. QED  BY <2>3, <2>4, Versions
<1>4. ASSUME NEW a \in Reviewers, Decision(a)
      PROVE  \A b \in Reviewers : screen'[b] \in {screen[b], Shut}
  BY <1>1, <1>4 DEF Decision, StartReview, CompleteValidation, RequestCorrection, Decides
<1>5. CASE UNCHANGED screen
  BY <1>3, <1>5
<1>. QED
  BY <1>2, <1>3, <1>4, <1>5, StepKinds, FormFrame, FileFrame, RowFrame, SmsFrame
     DEF PassGate, Resubmit, review

-----------------------------------------------------------------------------
LEMMA CaseNextInv == CaseInv /\ [CaseNext]_caseVars => CaseInv'
<1>1. ASSUME CaseInv, CaseNext PROVE CaseInv'
  BY <1>1, TypesKept, PagesFollow, PaymentStays, CompleteStaysBacked, CorrectionStays,
     ScreensFollow DEF CaseInv
<1>2. ASSUME CaseInv, UNCHANGED caseVars PROVE CaseInv'
  <2>1. CaseTypeOK'
    BY <1>2 DEF CaseInv, caseVars, CaseTypeOK, CompanyTypes, FileTypes, ApplicationTypes,
       SmsTypes, ScreenTypes
  <2>2. PagesInv' /\ PaymentHolds' /\ CompleteIsBacked'
    BY <1>2 DEF CaseInv, caseVars, PagesInv, PaymentHolds, CompleteIsBacked, Complete, Qualified
  <2>3. SmsInv' /\ OneCorrection' /\ ScreensInv'
    BY <1>2 DEF CaseInv, caseVars, SmsInv, OneCorrection, Open, ScreensInv, Evidence
  <2>. QED  BY <2>1, <2>2, <2>3 DEF CaseInv
<1>. QED  BY <1>1, <1>2

\* The invariant: versions of pages never run ahead, a payment under way holds
\* the status, one handler at most sends the SMS of a correction, and a page of
\* a reviewer that is up to date shows what there is.
THEOREM CaseInvariant == CaseSpec => []CaseInv
<1>. QED  BY CaseInitInv, CaseNextInv, PTL DEF CaseSpec

\* Rows, pages and handlers keep their types.
THEOREM CaseTypeCorrect == CaseSpec => []CaseTypeOK
<1>1. CaseInv => CaseTypeOK
  BY DEF CaseInv
<1>. QED  BY <1>1, CaseInvariant, PTL

\* completeFacilitiesCompanyProfile and the checks before a submission, made on
\* what was read before: a complete profile has a document of every member, and
\* an application under review has all of them.
THEOREM CaseBacked == CaseSpec => []CompleteIsBacked
<1>1. CaseInv => CompleteIsBacked
  BY DEF CaseInv
<1>. QED  BY <1>1, CaseInvariant, PTL

\* requestFacilitiesCorrection and its SMS: one open request exactly while the
\* application is with the applicant, and one SMS at most for each.
THEOREM CaseOneCorrection == CaseSpec => []OneCorrection
<1>1. CaseInv => OneCorrection
  BY DEF CaseInv
<1>. QED  BY <1>1, CaseInvariant, PTL

LEMMA DecisionsAreInformed ==
  ASSUME CaseInv, CaseNext, NEW a \in Reviewers,
         screen[a].step = "shown", screen'[a].step = "closed"
  PROVE  screen[a].evidence = Evidence
<1>1. screen \in [Reviewers -> {Shut} \cup RowPage \cup ShownPage]
  BY DEF CaseInv, CaseTypeOK, ScreenTypes
<1>2. ASSUME NEW b \in Reviewers, LoadStep(b) PROVE FALSE
  BY <1>1, <1>2 DEF LoadStep, LoadRow, LoadEvidence
<1>3. ASSUME NEW b \in Reviewers, Decision(b) PROVE Current(a) /\ status \in {"SUBMITTED", "UNDER_REVIEW"}
  BY <1>1, <1>3 DEF Decision, StartReview, CompleteValidation, RequestCorrection, Decides,
     Current
<1>4. screen' # screen
  BY ShutIsShut
<1>5. \E b \in Reviewers : Decision(b)
  BY <1>2, <1>4, StepKinds, FormFrame, FileFrame, RowFrame, SmsFrame
     DEF PassGate, Resubmit, review
<1>. QED  BY <1>3, <1>5 DEF CaseInv, ScreensInv, Current

\* assertFacilitiesReviewToken compares the version of the row only, and the
\* page loaded documents and snapshot after it: still every decision is made on
\* what there is.
THEOREM CaseInformed == CaseSpec => InformedReview
<1>1. CaseInv /\ [CaseNext]_caseVars =>
        [\A a \in Reviewers :
           (screen[a].step = "shown" /\ screen'[a].step = "closed") =>
             screen[a].evidence = Evidence]_caseVars
  BY DecisionsAreInformed
<1>. QED  BY <1>1, CaseInvariant, PTL DEF CaseSpec, InformedReview

\* profile-lock.ts and the locks of saves and uploads: no save, completion or
\* upload that was on its way changes what is under review.
THEOREM CaseFrozen == CaseSpec => EvidenceIsFrozen
<1>1. CaseInv /\ [CaseNext]_caseVars =>
        [/\ (ProfileLocked /\ ProfileLocked') => profile'.members = profile.members
         /\ (status \in {"SUBMITTED", "UNDER_REVIEW"} /\ status' \in {"SUBMITTED", "UNDER_REVIEW"})
              => Evidence' = Evidence]_caseVars
  BY Frozen DEF CaseInv
<1>. QED  BY <1>1, CaseInvariant, PTL DEF CaseSpec, EvidenceIsFrozen

-----------------------------------------------------------------------------
(* The rows of one page of the profile and their ids.                        *)

Apart(rows) ==
  \A i, j \in DOMAIN rows : i # j /\ rows[i].id # 0 => rows[i].id # rows[j].id

\* The rows past those that were sent have no id: rows are only removed and
\* appended while a save that can be accepted is awaited.
NewPastSent == \A i \in DOMAIN draft : i > Len(call.sent) => draft[i].id = 0

CallStates == {"none", "saving", "saved", "stale", "failed", "completing", "completed", "left"}
CallTypes == [step : CallStates, for : {"", "save", "complete", "package"},
              row : Nat, sent : Seq(Row), at : Nat]

RowsInv ==
  /\ call \in CallTypes /\ draft \in Seq(Row)
  /\ version \in Nat /\ lastId \in Nat /\ basis \in Nat
  /\ IsFiniteSet(officers) /\ officers \subseteq Row
  /\ \A o \in officers : /\ o.id \in 1..lastId
                         /\ \A p \in officers : o.id = p.id => o = p
  /\ Apart(draft) /\ Apart(call.sent)
  /\ call.step = "saving" => /\ call.at <= basis
                             /\ version = 0 \/ call.at = version => NewPastSent
  /\ call.step = "saved" => /\ NewPastSent /\ officers = Range(call.sent)
                            /\ \A i \in DOMAIN call.sent : call.sent[i].id # 0

LEMMA EndedIs ==
  ASSUME NEW how \in CallStates
  PROVE  /\ Ended(how) \in CallTypes /\ Ended(how).step = how
         /\ Ended(how).sent = <<>> /\ Apart(<<>>)
         /\ NoCall \in CallTypes /\ NoCall.step = "none" /\ NoCall.sent = <<>>
<1>1. NoCall \in CallTypes /\ NoCall.step = "none" /\ NoCall.sent = <<>>
  BY DEF NoCall, CallTypes, CallStates
<1>2. Ended(how) \in CallTypes /\ Ended(how).step = how /\ Ended(how).sent = <<>>
  BY <1>1 DEF Ended, CallTypes
<1>. QED  BY <1>1, <1>2 DEF Apart

\* How many rows up to a place are new: it grows with every new row.
LEMMA NewRowsCount ==
  ASSUME NEW list \in Seq(Row), NEW i \in 0..Len(list), NEW j \in 1..Len(list), i < j
  PROVE  /\ NewUpTo(list, i) \in Nat /\ NewUpTo(list, j) \in Nat
         /\ NewUpTo(list, i) <= NewUpTo(list, j)
         /\ list[j].id = 0 => NewUpTo(list, i) < NewUpTo(list, j)
<1>. DEFINE N(k) == {m \in 1..k : list[m].id = 0}
<1>1. /\ i \in Nat /\ j \in Nat
      /\ N(j) \in SUBSET (1..j) /\ N(i) \in SUBSET N(j)
      /\ list[j].id = 0 => j \in N(j) /\ j \notin N(i)
  OBVIOUS
<1>2. IsFiniteSet(1..j)
  BY <1>1, FS_Interval
<1>. HIDE DEF N
<1>3. IsFiniteSet(N(j))
  BY <1>1, <1>2, FS_Subset
<1>4. /\ IsFiniteSet(N(i)) /\ Cardinality(N(i)) <= Cardinality(N(j))
      /\ Cardinality(N(j)) = Cardinality(N(i)) => N(j) = N(i)
  BY <1>1, <1>3, FS_Subset
<1>5. Cardinality(N(i)) \in Nat /\ Cardinality(N(j)) \in Nat
  BY <1>3, <1>4, FS_CardinalityType
<1>6. NewUpTo(list, i) = Cardinality(N(i)) /\ NewUpTo(list, j) = Cardinality(N(j))
  BY DEF NewUpTo, N
<1>. QED  BY <1>1, <1>4, <1>5, <1>6

\* What the server makes of rows whose ids are apart, and are those of members: the
\* same rows, each with an id of its own among the ids given by now.
LEMMA SavedRows ==
  ASSUME RowsInv, NEW list \in Seq(Row), Apart(list),
         IdsOf(list) \subseteq {o.id : o \in officers}
  PROVE  /\ WithIds(list) \in Seq(Row) /\ Len(WithIds(list)) = Len(list)
         /\ DOMAIN WithIds(list) = DOMAIN list /\ Apart(WithIds(list))
         /\ lastId + NewUpTo(list, Len(list)) \in Nat
         /\ \A i \in DOMAIN list : WithIds(list)[i].id \in 1..(lastId + NewUpTo(list, Len(list)))
<1>. DEFINE saved == WithIds(list)
            N(i) == NewUpTo(list, i)
<1>1. DOMAIN list = 1..Len(list) /\ Len(list) \in Nat /\ lastId \in Nat
      /\ \A i \in 1..Len(list) : list[i] \in Row
  BY DEF RowsInv
<1>2. \A i \in 1..Len(list) : list[i].id # 0 => list[i].id \in 1..lastId
  <2>1. \A i \in 1..Len(list) : list[i].id # 0 => list[i].id \in IdsOf(list)
    BY <1>1 DEF IdsOf, Range
  <2>. QED  BY <2>1 DEF RowsInv
<1>3. N(0) = 0 /\ \A i \in 0..Len(list) : N(i) \in Nat
  <2>1. {j \in 1..0 : list[j].id = 0} = {}
    OBVIOUS
  <2>2. N(0) = 0
    BY <2>1, FS_EmptySet DEF NewUpTo
  <2>3. \A i \in 1..Len(list) : N(i) \in Nat
    BY <1>1, NewRowsCount
  <2>. QED  BY <1>1, <2>2, <2>3
<1>4. \A i \in 0..Len(list), j \in 1..Len(list) :
        i < j => N(i) <= N(j) /\ (list[j].id = 0 => N(i) < N(j))
  BY NewRowsCount
<1>. HIDE DEF N
<1>5. \A i \in 1..Len(list) : N(i) <= N(Len(list))
  <2>. SUFFICES ASSUME NEW i \in 1..Len(list) PROVE N(i) <= N(Len(list))
    OBVIOUS
  <2>1. CASE i = Len(list)
    <3>1. PICK a \in Nat : a = N(i)
      BY <1>1, <1>3
    <3>2. N(Len(list)) = a
      BY <2>1, <3>1
    <3>. QED  BY <3>1, <3>2
  <2>2. CASE i # Len(list)
    <3>1. PICK k \in Nat : k = Len(list)
      BY <1>1
    <3>2. k \in 1..Len(list) /\ i < k
      BY <2>2, <3>1
    <3>3. N(i) <= N(k)
      BY <1>1, <1>4, <3>2
    <3>. QED  BY <3>1, <3>3
  <2>. QED  BY <2>1, <2>2
<1>6. \A i \in 1..Len(list) : list[i].id = 0 => N(i) > 0
  BY <1>1, <1>3, <1>4
<1>7. /\ saved = [i \in 1..Len(list) |-> saved[i]]
      /\ \A i \in 1..Len(list) :
           /\ list[i].id # 0 => saved[i] = list[i]
           /\ list[i].id = 0 => saved[i] = [list[i] EXCEPT !.id = lastId + N(i)]
  BY <1>1 DEF WithIds, N
<1>8. ASSUME NEW row \in Row, NEW n \in Nat
      PROVE  [row EXCEPT !.id = n] \in Row /\ [row EXCEPT !.id = n].id = n
  BY DEF Row
<1>9. \A i \in 1..Len(list) :
        /\ saved[i] \in Row
        /\ list[i].id # 0 => saved[i].id = list[i].id
        /\ list[i].id = 0 => saved[i].id = lastId + N(i)
  <2>. SUFFICES ASSUME NEW i \in 1..Len(list)
                PROVE  /\ saved[i] \in Row
                       /\ list[i].id # 0 => saved[i].id = list[i].id
                       /\ list[i].id = 0 => saved[i].id = lastId + N(i)
    OBVIOUS
  <2>1. CASE list[i].id # 0
    BY <1>1, <1>7, <2>1
  <2>2. CASE list[i].id = 0
    <3>1. PICK row \in Row, n \in Nat : row = list[i] /\ n = lastId + N(i)
      BY <1>1, <1>3
    <3>2. saved[i] = [row EXCEPT !.id = n]
      BY <1>7, <2>2, <3>1
    <3>. QED  BY <1>8, <2>2, <3>1, <3>2
  <2>. QED  BY <2>1, <2>2
<1>10. /\ saved \in [1..Len(list) -> Row]
  BY <1>7, <1>9
<1>. HIDE DEF saved
<1>11. saved \in Seq(Row) /\ Len(saved) = Len(list) /\ DOMAIN saved = 1..Len(list)
  BY <1>1, <1>10
<1>12. lastId + N(Len(list)) \in Nat /\ lastId + N(Len(list)) >= lastId
  BY <1>1, <1>3
<1>13. \A i \in 1..Len(list) : saved[i].id \in 1..(lastId + N(Len(list)))
  <2>. SUFFICES ASSUME NEW i \in 1..Len(list)
                PROVE  saved[i].id \in 1..(lastId + N(Len(list)))
    OBVIOUS
  <2>1. CASE list[i].id # 0
    BY <1>1, <1>2, <1>3, <1>9, <1>12, <2>1
  <2>2. CASE list[i].id = 0
    BY <1>1, <1>3, <1>5, <1>6, <1>9, <2>2
  <2>. QED  BY <2>1, <2>2
<1>14. Apart(saved)
  <2>. SUFFICES ASSUME NEW i \in 1..Len(list), NEW j \in 1..Len(list), i # j
                PROVE  saved[i].id # saved[j].id
    BY <1>11 DEF Apart
  <2>1. CASE list[i].id # 0 /\ list[j].id # 0
    BY <1>1, <1>9, <2>1 DEF Apart
  <2>2. CASE list[i].id # 0 /\ list[j].id = 0
    BY <1>1, <1>2, <1>3, <1>6, <1>9, <2>2
  <2>3. CASE list[i].id = 0 /\ list[j].id # 0
    BY <1>1, <1>2, <1>3, <1>6, <1>9, <2>3
  <2>4. CASE list[i].id = 0 /\ list[j].id = 0
    <3>1. N(i) \in Nat /\ N(j) \in Nat /\ N(i) # N(j)
      BY <1>1, <1>3, <1>4, <2>4
    <3>. QED  BY <1>1, <1>9, <2>4, <3>1
  <2>. QED  BY <2>1, <2>2, <2>3, <2>4
<1>. QED  BY <1>1, <1>11, <1>12, <1>13, <1>14 DEF saved, N

\* The officers after a save are the rows of it.
LEMMA RangeIsFinite ==
  ASSUME NEW list \in Seq(Row)
  PROVE  /\ IsFiniteSet(Range(list)) /\ Range(list) \subseteq Row
         /\ Cardinality(Range(list)) <= Len(list)
         /\ Cardinality(Range(list)) \in Nat
<1>1. DOMAIN list = 1..Len(list) /\ Len(list) \in Nat
  OBVIOUS
<1>2. IsFiniteSet(1..Len(list)) /\ Cardinality(1..Len(list)) = Len(list)
  BY <1>1, FS_Interval
<1>3. list \in Surjection(1..Len(list), Range(list))
  BY <1>1 DEF Surjection, Range
<1>4. IsFiniteSet(Range(list)) /\ Cardinality(Range(list)) <= Len(list)
  BY <1>2, <1>3, FS_Surjection
<1>5. Range(list) \subseteq Row
  BY DEF Range
<1>. QED  BY <1>4, <1>5, FS_CardinalityType

\* The rows of a page that loads the profile are apart.
LEMMA LoadedRows ==
  ASSUME RowsInv, NEW list \in Loaded
  PROVE  /\ list \in Seq(Row) /\ Len(list) = Cardinality(officers) /\ Apart(list)
<1>1. Cardinality(officers) \in Nat
  BY FS_CardinalityType DEF RowsInv
<1>2. /\ list \in [1..Cardinality(officers) -> officers]
      /\ \A i, j \in 1..Cardinality(officers) : i # j => list[i] # list[j]
  BY DEF Loaded, SetToSeqs
<1>3. list \in [1..Cardinality(officers) -> Row]
  BY <1>2 DEF RowsInv
<1>4. list \in Seq(Row) /\ Len(list) = Cardinality(officers)
  BY <1>1, <1>3
<1>5. Apart(list)
  BY <1>2 DEF Apart, RowsInv
<1>. QED  BY <1>4, <1>5

\* What neither gives ids nor changes the rows past those that were sent.
LEMMA RowsStay ==
  ASSUME RowsInv, UNCHANGED <<officers, lastId, version, basis, call>>,
         draft' \in Seq(Row), Apart(draft'), NewPastSent => NewPastSent'
  PROVE  RowsInv'
  BY DEF RowsInv

LEMMA AddRowStep ==
  ASSUME RowsInv, NEW p \in People, AddRow(p)
  PROVE  RowsInv'
<1>. DEFINE new == [id |-> 0, who |-> p]
<1>1. /\ draft' = Append(draft, new)
      /\ UNCHANGED <<officers, version, lastId, basis, call>>
  BY DEF AddRow, serverVariables
<1>2. new \in Row /\ new.id = 0
  BY DEF Row
<1>. HIDE DEF new
<1>3. /\ draft \in Seq(Row) /\ Len(draft) \in Nat /\ DOMAIN draft = 1..Len(draft)
      /\ draft' \in Seq(Row) /\ Len(draft') = Len(draft) + 1 /\ DOMAIN draft' = 1..Len(draft')
      /\ \A i \in 1..Len(draft) : draft'[i] = draft[i]
      /\ draft'[Len(draft) + 1] = new
  BY <1>1, <1>2, AppendProperties DEF RowsInv
<1>4. Apart(draft')
  <2>. SUFFICES ASSUME NEW i \in 1..Len(draft'), NEW j \in 1..Len(draft'), i # j, draft'[i].id # 0
                PROVE  draft'[i].id # draft'[j].id
    BY <1>3 DEF Apart
  <2>1. i \in 1..Len(draft)
    BY <1>2, <1>3
  <2>2. CASE j \in 1..Len(draft)
    BY <1>3, <2>1, <2>2 DEF RowsInv, Apart
  <2>3. CASE j = Len(draft) + 1
    BY <1>2, <1>3, <2>3
  <2>. QED  BY <1>3, <2>2, <2>3
<1>5. NewPastSent => NewPastSent'
  <2>. SUFFICES ASSUME NewPastSent, NEW i \in 1..Len(draft'), i > Len(call.sent)
                PROVE  draft'[i].id = 0
    BY <1>1, <1>3 DEF NewPastSent
  <2>1. CASE i \in 1..Len(draft)
    BY <1>3, <2>1 DEF NewPastSent
  <2>2. CASE i = Len(draft) + 1
    BY <1>2, <1>3, <2>2
  <2>. QED  BY <1>3, <2>1, <2>2
<1>. QED  BY <1>1, <1>3, <1>4, <1>5, RowsStay

LEMMA RemoveRowStep ==
  ASSUME RowsInv, NEW k \in DOMAIN draft, RemoveRow(k)
  PROVE  RowsInv'
<1>1. /\ draft' = SubSeq(draft, 1, k - 1) \o SubSeq(draft, k + 1, Len(draft))
      /\ UNCHANGED <<officers, version, lastId, basis, call>>
  BY DEF RemoveRow, RemoveAt, serverVariables
<1>2. /\ draft \in Seq(Row) /\ Len(draft) \in Nat /\ DOMAIN draft = 1..Len(draft)
      /\ k \in 1..Len(draft)
  BY DEF RowsInv
<1>. DEFINE before == SubSeq(draft, 1, k - 1)
            after == SubSeq(draft, k + 1, Len(draft))
<1>3. /\ before \in Seq(Row) /\ Len(before) = k - 1
      /\ \A i \in 1..k - 1 : before[i] = draft[i]
      /\ after \in Seq(Row) /\ Len(after) = Len(draft) - k
      /\ \A i \in 1..Len(draft) - k : after[i] = draft[k + i]
  <2>1. /\ before \in Seq(Row) /\ Len(before) = k - 1
        /\ \A i \in 1..k - 1 : before[i] = draft[i]
    BY <1>2
  <2>2. /\ after \in Seq(Row) /\ Len(after) = Len(draft) - k
        /\ \A i \in 1..Len(draft) - k : after[i] = draft[k + i]
    BY <1>2
  <2>. QED  BY <2>1, <2>2
<1>. HIDE DEF before, after
<1>4. /\ draft' \in Seq(Row) /\ Len(draft') = Len(draft) - 1
      /\ DOMAIN draft' = 1..(Len(draft) - 1)
      /\ \A i \in 1..(Len(draft) - 1) : draft'[i] = IF i < k THEN draft[i] ELSE draft[i + 1]
  <2>1. draft' = before \o after
    BY <1>1 DEF before, after
  <2>2. draft' \in Seq(Row) /\ Len(draft') = Len(draft) - 1
        /\ DOMAIN draft' = 1..(Len(draft) - 1)
        /\ \A i \in 1..Len(draft') : draft'[i] = IF i <= Len(before) THEN before[i]
                                                ELSE after[i - Len(before)]
    <3>1. /\ before \o after \in Seq(Row) /\ Len(before \o after) = Len(before) + Len(after)
          /\ \A i \in 1..Len(before) + Len(after) :
               (before \o after)[i] = IF i <= Len(before) THEN before[i]
                                      ELSE after[i - Len(before)]
      BY <1>3, ConcatProperties
    <3>2. PICK rows \in Seq(Row) : rows = before \o after
      BY <3>1
    <3>3. Len(rows) = Len(draft) - 1 /\ DOMAIN rows = 1..Len(rows)
      <4>1. PICK m \in Nat, n \in Nat : m = Len(before) /\ n = Len(after)
        BY <1>3
      <4>2. Len(rows) = m + n
        BY <3>1, <3>2, <4>1
      <4>. QED  BY <1>2, <1>3, <4>1, <4>2
    <3>. QED  BY <1>3, <2>1, <3>1, <3>2, <3>3
  <2>3. ASSUME NEW i \in 1..(Len(draft) - 1)
        PROVE  draft'[i] = IF i < k THEN draft[i] ELSE draft[i + 1]
    <3>1. CASE i < k
      BY <1>2, <1>3, <2>2, <3>1
    <3>2. CASE i >= k
      <4>1. draft'[i] = after[i - (k - 1)]
        <5>1. PICK m \in Nat : m = Len(before) /\ m = k - 1 /\ ~(i <= m)
          BY <1>2, <1>3, <3>2
        <5>2. i \in 1..Len(draft')
          BY <2>2
        <5>3. draft'[i] = after[i - m]
          BY <2>2, <5>1, <5>2
        <5>. QED  BY <5>1, <5>3
      <4>2. i - (k - 1) \in 1..Len(draft) - k /\ k + (i - (k - 1)) = i + 1
        BY <1>2, <3>2
      <4>. QED  BY <1>2, <1>3, <3>2, <4>1, <4>2
    <3>. QED  BY <1>2, <3>1, <3>2
  <2>. QED  BY <2>2, <2>3
<1>. DEFINE from(i) == IF i < k THEN i ELSE i + 1
<1>5. \A i \in 1..(Len(draft) - 1) :
        /\ from(i) \in 1..Len(draft) /\ from(i) >= i /\ draft'[i] = draft[from(i)]
        /\ \A j \in 1..(Len(draft) - 1) : i # j => from(i) # from(j)
  BY <1>2, <1>4
<1>. HIDE DEF from
<1>6. Apart(draft')
  BY <1>2, <1>4, <1>5 DEF RowsInv, Apart
<1>7. NewPastSent => NewPastSent'
  <2>. SUFFICES ASSUME NewPastSent, NEW i \in 1..(Len(draft) - 1), i > Len(call.sent)
                PROVE  draft'[i].id = 0
    BY <1>1, <1>4 DEF NewPastSent
  <2>1. call.sent \in Seq(Row)
    BY DEF RowsInv, CallTypes
  <2>2. PICK n \in 1..Len(draft) : n >= i /\ draft'[i] = draft[n]
    BY <1>5
  <2>3. n > Len(call.sent)
    BY <1>2, <2>1, <2>2
  <2>. QED  BY <1>2, <2>2, <2>3 DEF NewPastSent
<1>. QED  BY <1>1, <1>4, <1>6, <1>7, RowsStay

\* Saving sends the rows that are shown: no row is past them.
LEMMA SaveStep ==
  ASSUME RowsInv, NEW for \in {"save", "complete", "package"}, NEW k \in DOMAIN draft, Save(for, k)
  PROVE  RowsInv'
<1>1. /\ call' = [step |-> "saving", for |-> for, row |-> k, sent |-> draft, at |-> basis]
      /\ UNCHANGED <<officers, version, lastId, draft, basis>>
  BY DEF Save, serverVariables, pageVariables
<1>2. draft \in Seq(Row) /\ basis \in Nat /\ k \in Nat
  BY DEF RowsInv
<1>3. /\ call' \in CallTypes /\ call'.step = "saving"
      /\ call'.sent = draft /\ call'.at = basis
  BY <1>1, <1>2 DEF CallTypes, CallStates
<1>4. NewPastSent'
  BY <1>1, <1>2, <1>3 DEF NewPastSent
<1>. QED  BY <1>1, <1>2, <1>3, <1>4 DEF RowsInv

LEMMA UploadStep ==
  ASSUME RowsInv, \/ \E i \in DOMAIN draft : Upload(i)
                  \/ \E u \in uploads : StorePackage(u)
  PROVE  RowsInv'
<1>1. UNCHANGED <<officers, version, lastId, draft, basis, call>>
  BY DEF Upload, StorePackage, serverVariables, pageVariables
<1>2. draft' \in Seq(Row) /\ Apart(draft') /\ (NewPastSent => NewPastSent')
  BY <1>1 DEF RowsInv, NewPastSent
<1>. QED  BY <1>1, <1>2, RowsStay

\* A call that has ended with no rows leaves nothing to keep but the rows shown.
LEMMA CallIsOver ==
  ASSUME RowsInv, UNCHANGED <<officers, lastId>>, version' \in Nat, basis' \in Nat,
         draft' \in Seq(Row), Apart(draft'),
         call' \in CallTypes, Apart(call'.sent), call'.step \notin {"saving", "saved"}
  PROVE  RowsInv'
  BY DEF RowsInv

LEMMA SaveProfileStep ==
  ASSUME RowsInv, SaveProfile
  PROVE  RowsInv'
<1>. DEFINE saved == WithIds(call.sent)
            given == lastId + NewUpTo(call.sent, Len(call.sent))
<1>1. /\ UNCHANGED <<draft, basis>> /\ call.step = "saving"
      /\ \/ /\ Accepted
            /\ officers' = Range(saved) /\ version' = version + 1
            /\ lastId' = given
            /\ \/ call' = [call EXCEPT !.step = "saved", !.sent = saved, !.at = version + 1]
               \/ call' = Ended("failed")
         \/ /\ call' \in {Ended("failed"), Ended("stale")}
            /\ UNCHANGED <<officers, version, lastId>>
  BY DEF SaveProfile, serverVariables, pageVariables
<1>2. /\ draft \in Seq(Row) /\ Apart(draft) /\ basis \in Nat /\ version \in Nat
      /\ call \in CallTypes /\ call.sent \in Seq(Row) /\ Apart(call.sent)
  BY DEF RowsInv, CallTypes
<1>3. \A how \in {"failed", "stale"} :
        /\ Ended(how) \in CallTypes /\ Ended(how).step = how /\ Apart(Ended(how).sent)
  BY EndedIs DEF CallStates
<1>4. CASE /\ call' \in {Ended("failed"), Ended("stale")}
           /\ UNCHANGED <<officers, version, lastId>>
  BY <1>1, <1>2, <1>3, <1>4, CallIsOver
<1>5. CASE /\ Accepted
           /\ officers' = Range(saved) /\ version' = version + 1
           /\ lastId' = given
           /\ \/ call' = [call EXCEPT !.step = "saved", !.sent = saved, !.at = version + 1]
              \/ call' = Ended("failed")
  <2>1. version = 0 \/ call.at = version
    BY <1>5 DEF Accepted
  <2>2. IdsOf(call.sent) \subseteq {o.id : o \in officers}
    BY <1>5 DEF Accepted
  <2>3. /\ saved \in Seq(Row) /\ Len(saved) = Len(call.sent)
        /\ DOMAIN saved = DOMAIN call.sent /\ Apart(saved)
        /\ given \in Nat
        /\ \A i \in DOMAIN call.sent : saved[i].id \in 1..given
    BY <1>2, <2>2, SavedRows
  <2>4. NewPastSent
    BY <1>1, <2>1 DEF RowsInv
  <2>. HIDE DEF saved, given
  <2>5. IsFiniteSet(officers') /\ officers' \subseteq Row
    BY <1>5, <2>3, RangeIsFinite
  <2>6. \A i \in DOMAIN saved : saved[i].id \in 1..given /\ saved[i].id # 0
    BY <2>3
  <2>7. \A o \in officers' : /\ o.id \in 1..lastId'
                             /\ \A p \in officers' : o.id = p.id => o = p
    <3>. SUFFICES ASSUME NEW o \in officers'
                  PROVE  /\ o.id \in 1..given
                         /\ \A p \in officers' : o.id = p.id => o = p
      BY <1>5
    <3>1. PICK i \in DOMAIN saved : o = saved[i]
      BY <1>5 DEF Range
    <3>2. ASSUME NEW p \in officers', o.id = p.id
          PROVE  o = p
      <4>1. PICK j \in DOMAIN saved : p = saved[j]
        BY <1>5 DEF Range
      <4>. QED  BY <2>3, <2>6, <3>1, <3>2, <4>1 DEF Apart
    <3>. QED  BY <2>6, <3>1, <3>2
  <2>8. /\ version' \in Nat /\ lastId' \in Nat
    BY <1>2, <1>5, <2>3
  <2>9. CASE call' = Ended("failed")
    <3>1. call' \in CallTypes /\ Apart(call'.sent) /\ call'.step = "failed"
      BY <1>3, <2>9
    <3>. QED  BY <1>1, <1>2, <2>5, <2>7, <2>8, <3>1 DEF RowsInv, Apart
  <2>10. CASE call' = [call EXCEPT !.step = "saved", !.sent = saved, !.at = version + 1]
    <3>1. call' \in CallTypes /\ call'.sent = saved /\ call'.step = "saved"
      <4>1. PICK n \in Nat, list \in Seq(Row) : n = version + 1 /\ list = saved
        BY <1>2, <2>3
      <4>2. PICK c \in CallTypes : c = call
        BY <1>2
      <4>3. call' = [c EXCEPT !.step = "saved", !.sent = list, !.at = n]
        BY <2>10, <4>1, <4>2
      <4>. QED  BY <4>1, <4>3 DEF CallTypes, CallStates
    <3>2. NewPastSent'
      BY <1>1, <2>3, <2>4, <3>1 DEF NewPastSent
    <3>3. Apart(draft)' /\ Apart(call.sent)'
      BY <1>1, <1>2, <2>3, <3>1 DEF Apart
    <3>4. \A i \in DOMAIN call'.sent : call'.sent[i].id # 0
      BY <2>6, <3>1
    <3>. QED  BY <1>1, <1>2, <1>5, <2>5, <2>7, <2>8, <3>1, <3>2, <3>3, <3>4 DEF RowsInv
  <2>. QED  BY <1>5, <2>9, <2>10
<1>. QED  BY <1>1, <1>4, <1>5

LEMMA CompleteProfileStep ==
  ASSUME RowsInv, CompleteProfile
  PROVE  RowsInv'
<1>1. /\ UNCHANGED <<officers, lastId, draft, basis>>
      /\ version' \in {version, version + 1}
      /\ call' \in {Ended("completed"), Ended("failed"), Ended("stale")}
  BY DEF CompleteProfile, pageVariables
<1>2. \A how \in {"completed", "failed", "stale"} :
        /\ Ended(how) \in CallTypes /\ Ended(how).step = how /\ Apart(Ended(how).sent)
  BY EndedIs DEF CallStates
<1>3. /\ draft \in Seq(Row) /\ Apart(draft) /\ basis \in Nat /\ version \in Nat
  BY DEF RowsInv
<1>4. version' \in Nat
  BY <1>1, <1>3
<1>5. call' \in CallTypes /\ Apart(call'.sent) /\ call'.step \notin {"saving", "saved"}
  BY <1>1, <1>2
<1>. QED  BY <1>1, <1>3, <1>4, <1>5, CallIsOver

\* The saved ids are given by place, which keeps the rows apart because those
\* past the saved ones have none.
LEMMA SaveAnsweredStep ==
  ASSUME RowsInv, SaveAnswered
  PROVE  RowsInv'
<1>1. /\ call.step = "saved"
      /\ draft' = (IF call.for = "package" THEN call.sent ELSE MergeSaved(draft, call.sent))
      /\ basis' = call.at
      /\ call' = (IF call.for = "complete" THEN [call EXCEPT !.step = "completing"] ELSE NoCall)
      /\ UNCHANGED <<officers, version, lastId>>
  BY DEF SaveAnswered, serverVariables
<1>2. /\ draft \in Seq(Row) /\ Len(draft) \in Nat /\ DOMAIN draft = 1..Len(draft)
      /\ call \in CallTypes /\ call.at \in Nat /\ version \in Nat
      /\ Apart(call.sent) /\ Apart(draft) /\ NewPastSent
      /\ \A i \in DOMAIN call.sent : call.sent[i].id # 0
  <2>1. draft \in Seq(Row) /\ call \in CallTypes /\ version \in Nat
    BY DEF RowsInv
  <2>2. Len(draft) \in Nat /\ DOMAIN draft = 1..Len(draft)
    BY <2>1
  <2>3. call.at \in Nat
    BY <2>1 DEF CallTypes
  <2>4. /\ Apart(call.sent) /\ Apart(draft) /\ NewPastSent
        /\ \A i \in DOMAIN call.sent : call.sent[i].id # 0
    BY <1>1 DEF RowsInv
  <2>. QED  BY <2>1, <2>2, <2>3, <2>4
<1>3. /\ call.sent \in Seq(Row) /\ Len(call.sent) \in Nat
      /\ DOMAIN call.sent = 1..Len(call.sent)
  <2>1. call.sent \in Seq(Row)
    BY <1>2 DEF CallTypes
  <2>. QED  BY <2>1
<1>4. call' \in CallTypes /\ Apart(call'.sent) /\ call'.step \notin {"saving", "saved"}
  <2>1. CASE call.for = "complete"
    <3>1. call' = [call EXCEPT !.step = "completing"]
      BY <1>1, <2>1
    <3>2. call' \in CallTypes /\ call'.sent = call.sent /\ call'.step = "completing"
      BY <1>2, <3>1 DEF CallTypes, CallStates
    <3>. QED  BY <1>2, <3>2
  <2>2. CASE call.for # "complete"
    <3>1. call' = NoCall
      BY <1>1, <2>2
    <3>2. "failed" \in CallStates
      BY DEF CallStates
    <3>. QED  BY <3>1, <3>2, EndedIs
  <2>. QED  BY <2>1, <2>2
<1>. DEFINE merged == MergeSaved(draft, call.sent)
<1>5. ASSUME NEW row \in Row, NEW other \in Row
      PROVE  [row EXCEPT !.id = other.id] \in Row /\ [row EXCEPT !.id = other.id].id = other.id
  BY DEF Row
<1>6. /\ merged = [i \in 1..Len(draft) |-> merged[i]]
      /\ \A i \in 1..Len(draft) :
           /\ i <= Len(call.sent) => merged[i] = [draft[i] EXCEPT !.id = call.sent[i].id]
           /\ i > Len(call.sent) => merged[i] = draft[i]
  BY <1>2, <1>3 DEF MergeSaved
<1>. HIDE DEF merged
<1>7. \A i \in 1..Len(draft) :
        /\ merged[i] \in Row
        /\ i <= Len(call.sent) => merged[i].id = call.sent[i].id
        /\ i > Len(call.sent) => merged[i].id = 0
  <2>. SUFFICES ASSUME NEW i \in 1..Len(draft)
                PROVE  /\ merged[i] \in Row
                       /\ i <= Len(call.sent) => merged[i].id = call.sent[i].id
                       /\ i > Len(call.sent) => merged[i].id = 0
    OBVIOUS
  <2>1. CASE i <= Len(call.sent)
    <3>1. PICK row \in Row, other \in Row : row = draft[i] /\ other = call.sent[i]
      BY <1>2, <1>3, <2>1
    <3>2. merged[i] = [row EXCEPT !.id = other.id]
      BY <1>6, <2>1, <3>1
    <3>. QED  BY <1>3, <1>5, <2>1, <3>1, <3>2
  <2>2. CASE i > Len(call.sent)
    BY <1>2, <1>3, <1>6, <2>2 DEF NewPastSent
  <2>. QED  BY <1>3, <2>1, <2>2
<1>8. merged \in Seq(Row) /\ DOMAIN merged = 1..Len(draft)
  <2>1. merged \in [1..Len(draft) -> Row]
    BY <1>6, <1>7
  <2>. QED  BY <1>2, <2>1
<1>9. Apart(merged)
  BY <1>2, <1>3, <1>7, <1>8 DEF Apart
<1>10. draft' \in Seq(Row) /\ Apart(draft')
  <2>1. CASE call.for = "package"
    BY <1>1, <1>2, <1>3, <2>1
  <2>2. CASE call.for # "package"
    BY <1>1, <1>8, <1>9, <2>2 DEF merged
  <2>. QED  BY <2>1, <2>2
<1>. QED  BY <1>1, <1>2, <1>4, <1>10, CallIsOver

LEMMA CallEndsStep ==
  ASSUME RowsInv, CallEnds
  PROVE  RowsInv'
<1>1. /\ UNCHANGED <<officers, version, lastId, draft, basis>>
      /\ call' \in {Ended("left"), NoCall}
  BY DEF CallEnds, serverVariables
<1>2. "left" \in CallStates
  BY DEF CallStates
<1>3. call' \in CallTypes /\ Apart(call'.sent) /\ call'.step \notin {"saving", "saved"}
  BY <1>1, <1>2, EndedIs
<1>4. draft \in Seq(Row) /\ Apart(draft) /\ basis \in Nat /\ version \in Nat
  BY DEF RowsInv
<1>. QED  BY <1>1, <1>3, <1>4, CallIsOver

\* A profile that is adopted while a save is awaited makes that save a stale
\* one; one that is adopted after it has no more rows than were saved.
LEMMA RefreshStep ==
  ASSUME RowsInv, Refresh
  PROVE  RowsInv'
<1>1. /\ UNCHANGED <<officers, version, lastId, call>>
      /\ \/ version > basis /\ basis' = version /\ draft' \in Loaded
         \/ version > basis /\ basis' = basis /\ draft' = draft
         \/ UNCHANGED <<draft, basis>>
  BY DEF Refresh, serverVariables
<1>2. /\ draft \in Seq(Row) /\ Apart(draft) /\ basis \in Nat /\ version \in Nat
      /\ call \in CallTypes /\ call.at \in Nat /\ call.sent \in Seq(Row)
  BY DEF RowsInv, CallTypes
<1>3. CASE UNCHANGED <<draft, basis>>
  <2>1. NewPastSent => NewPastSent'
    BY <1>1, <1>3 DEF NewPastSent
  <2>. QED  BY <1>1, <1>2, <1>3, <2>1, RowsStay
<1>4. CASE version > basis /\ basis' = version /\ draft' \in Loaded
  <2>1. /\ draft' \in Seq(Row) /\ Len(draft') = Cardinality(officers)
        /\ Apart(draft')
    BY <1>4, LoadedRows
  <2>2. Apart(draft)' /\ Apart(call.sent)'
    BY <1>1, <2>1 DEF RowsInv, Apart
  <2>3. ASSUME call.step = "saving"
        PROVE  call.at <= version /\ ~(version = 0 \/ call.at = version)
    <3>1. call.at <= basis
      BY <2>3 DEF RowsInv
    <3>. QED  BY <1>2, <1>4, <3>1
  <2>4. ASSUME call.step = "saved"
        PROVE  NewPastSent'
    <3>1. Cardinality(officers) <= Len(call.sent) /\ Cardinality(officers) \in Nat
      BY <1>2, <2>4, RangeIsFinite DEF RowsInv
    <3>2. DOMAIN draft' = 1..Cardinality(officers) /\ Len(call.sent) \in Nat
      BY <1>2, <2>1
    <3>. QED  BY <1>1, <3>1, <3>2 DEF NewPastSent
  <2>. QED  BY <1>1, <1>2, <1>4, <2>1, <2>2, <2>3, <2>4 DEF RowsInv
<1>5. CASE basis' = basis /\ draft' = draft
  BY <1>3, <1>5
<1>. QED  BY <1>1, <1>3, <1>4, <1>5

LEMMA ReloadStep ==
  ASSUME RowsInv, Reload
  PROVE  RowsInv'
<1>1. /\ UNCHANGED <<officers, version, lastId>> /\ basis' = version
      /\ draft' \in Loaded /\ call' = NoCall
  BY DEF Reload, serverVariables
<1>2. draft' \in Seq(Row) /\ Apart(draft')
  BY <1>1, LoadedRows
<1>3. "failed" \in CallStates
  BY DEF CallStates
<1>4. call' \in CallTypes /\ Apart(call'.sent) /\ call'.step \notin {"saving", "saved"}
  BY <1>1, <1>3, EndedIs
<1>5. version \in Nat
  BY DEF RowsInv
<1>. QED  BY <1>1, <1>2, <1>4, <1>5, CallIsOver

LEMMA RowsInvariant == ProfileSpec => []RowsInv
<1>1. ASSUME ProfileInit PROVE RowsInv
  <2>1. "failed" \in CallStates
    BY DEF CallStates
  <2>2. call \in CallTypes /\ call.step = "none" /\ call.sent = <<>> /\ Apart(<<>>)
    BY <1>1, <2>1, EndedIs DEF ProfileInit
  <2>3. IsFiniteSet({})
    BY FS_EmptySet
  <2>. QED  BY <1>1, <2>2, <2>3 DEF ProfileInit, RowsInv
<1>2. ASSUME RowsInv, [ProfileNext]_profileVars PROVE RowsInv'
  <2>1. CASE UNCHANGED profileVars
    BY <1>2, <2>1 DEF RowsInv, NewPastSent, profileVars, serverVariables, pageVariables
  <2>2. CASE \E p \in People : AddRow(p)
    BY <1>2, <2>2, AddRowStep
  <2>3. CASE \E i \in DOMAIN draft : RemoveRow(i)
    BY <1>2, <2>3, RemoveRowStep
  <2>4. CASE \/ \E i \in DOMAIN draft : Upload(i)
             \/ \E u \in uploads : StorePackage(u)
    BY <1>2, <2>4, UploadStep
  <2>5. CASE \E for \in {"save", "complete", "package"}, i \in DOMAIN draft : Save(for, i)
    BY <1>2, <2>5, SaveStep
  <2>6. CASE SaveProfile
    BY <1>2, <2>6, SaveProfileStep
  <2>7. CASE CompleteProfile
    BY <1>2, <2>7, CompleteProfileStep
  <2>8. CASE SaveAnswered
    BY <1>2, <2>8, SaveAnsweredStep
  <2>9. CASE CallEnds
    BY <1>2, <2>9, CallEndsStep
  <2>10. CASE Refresh
    BY <1>2, <2>10, RefreshStep
  <2>11. CASE Reload
    BY <1>2, <2>11, ReloadStep
  <2>. QED  BY <1>2, <2>1, <2>2, <2>3, <2>4, <2>5, <2>6, <2>7, <2>8, <2>9, <2>10, <2>11
            DEF ProfileNext
<1>. QED  BY <1>1, <1>2, PTL DEF ProfileSpec

\* The page never shows two members under one id.
THEOREM ProfileMembersStayApart == ProfileSpec => []MembersStayApart
<1>1. RowsInv => MembersStayApart
  BY DEF RowsInv, Apart, MembersStayApart
<1>. QED  BY <1>1, RowsInvariant, PTL
=============================================================================
