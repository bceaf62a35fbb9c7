---------------------------- MODULE FacilitiesCase ----------------------------
(***************************************************************************)
(* One facilities application from the profile of its company to the end   *)
(* of its review (lib/actions/facilities-company.ts, facilities-           *)
(* application.ts, facilities-payment.ts, facilities-review.ts;            *)
(* lib/facilities/submission.ts and profile-lock.ts).  Pages of the        *)
(* applicant save and complete the profile against the version they know,  *)
(* documents are uploaded and the application is submitted beside them,    *)
(* and pages of reviewers decide on what they have loaded.  A correction   *)
(* is told by one SMS.                                                     *)
(*                                                                         *)
(* The profile is its members; a member has an identity package, and the   *)
(* slot Form stands for all documents of the application.  An upload and   *)
(* the payment are what FacilitiesFiles and FacilitiesPayment have in      *)
(* detail: an upload is admitted and commits later, or not; the payment is *)
(* absent, in progress or settled.                                         *)
(***************************************************************************)
EXTENDS Naturals

CONSTANTS
  Pages,        \* of the applicant, with the form of the profile
  Reviewers,    \* pages of reviewers
  Officers,     \* members that a page may add to the profile
  Form,         \* the documents of the application
  MaxCorrections,  \* bound: correction requests
  MaxProfile,   \* bound: versions of the profile
  MaxReview,    \* bound: versions of the application
  MaxDocs       \* bound: documents of each slot

ASSUME CaseConstants ==
  /\ Form \notin Officers
  /\ MaxCorrections \in Nat /\ MaxProfile \in Nat /\ MaxReview \in Nat
  /\ MaxDocs \in [Officers \cup {Form} -> Nat]

VARIABLES
  profile,      \* Company: version, members and completion
  minted,       \* members that some page has drawn up
  form,         \* the pages of the applicant
  upload,       \* of each slot: is a binding there, is an upload on its way?
  doc,          \* which document a slot shows, counted from one; 0 is none
  fresh,        \* slots whose document was uploaded after the last correction
  passed,       \* a request of the wizard has found the profile complete
  status, payment, reviewVersion, snapshot,   \* FacilitiesApplication
  correction,   \* FacilitiesCorrectionRequest
  delivery,     \* the handler that sends its SMS
  sends,        \* SMS that reached the provider
  screen        \* the pages of the reviewers

caseVars == <<profile, minted, form, upload, doc, fresh, passed, status, payment,
              reviewVersion, snapshot, correction, delivery, sends, screen>>
company == <<profile, minted, form>>
files == <<upload, doc, fresh>>
case == <<status, payment, reviewVersion, snapshot>>
sms == <<delivery, sends>>
review == <<correction, sms, screen>>

Corrections == 1 .. MaxCorrections
Documents == Officers \cup {Form}
Statuses == {"NONE", "DRAFT", "PENDING_PAYMENT", "SUBMITTED", "UNDER_REVIEW",
             "NEEDS_EDIT", "VALIDATION_COMPLETED"}
Shut == [step |-> "closed"]
Unsent == [state |-> "none", sms |-> "PENDING", attempts |-> 0, code |-> "none"]

\* A company that was saved once, with or without members.
CaseInit ==
  /\ minted \in SUBSET Officers
  /\ profile = [version |-> 1, members |-> minted, complete |-> FALSE]
  /\ form = [p \in Pages |-> Shut]
  /\ upload = [s \in Documents |-> "none"]
  /\ doc = [s \in Documents |-> 0]
  /\ fresh = {}
  /\ passed = FALSE
  /\ status = "NONE" /\ payment = "none" /\ reviewVersion = 0 /\ snapshot = {}
  /\ correction = [c \in Corrections |-> Unsent]
  /\ delivery = [c \in Corrections |-> "none"]
  /\ sends = [c \in Corrections |-> 0]
  /\ screen = [a \in Reviewers |-> Shut]

-----------------------------------------------------------------------------
(* The profile.                                                             *)

ProfileLocked == status \in {"PENDING_PAYMENT", "SUBMITTED", "UNDER_REVIEW", "NEEDS_EDIT"}
DocumentsLocked == status \in {"PENDING_PAYMENT", "SUBMITTED", "UNDER_REVIEW"}
Editable == status \in {"DRAFT", "NEEDS_EDIT"}

OpenForm(p) ==
  /\ form' = [form EXCEPT ![p] =
       [step |-> "open", version |-> profile.version, seen |-> 0,
        known |-> profile.members, members |-> profile.members]]
  /\ UNCHANGED <<profile, minted, files, passed, case, review>>

\* A member is added, or one is struck out.
EditForm(p) ==
  /\ form[p].step = "open"
  /\ \E o \in Officers :
       /\ o \in form[p].members \/ o \notin minted
       /\ minted' = minted \cup {o}
       /\ form' = [form EXCEPT ![p].members = IF o \in @ THEN @ \ {o} ELSE @ \cup {o}]
  /\ UNCHANGED <<profile, files, passed, case, review>>

\* saveFacilitiesCompanyDraft reads the row, and only then takes its lock.
SaveRead(p) ==
  /\ form[p].step = "open"
  /\ form' = [form EXCEPT ![p].step = "saving", ![p].seen = profile.version]
  /\ UNCHANGED <<profile, minted, files, passed, case, review>>

\* Members that were kept must still be there, and one who has a document is
\* never struck out.
Acceptable(p) ==
  LET members == form[p].members
  IN /\ members \cap form[p].known \subseteq profile.members
     /\ \A o \in profile.members \ members : doc[o] = 0

\* The version as the row had it before the lock.
Unchanged(p) == form[p].seen = form[p].version

\* Mutant: a profile that was complete is taken to be complete still.
SaveKeepsCompletion(p) ==
  /\ form[p].step = "saving" /\ profile.version < MaxProfile
  /\ ~ProfileLocked /\ Unchanged(p) /\ Acceptable(p)
  /\ profile' = [profile EXCEPT !.version = @ + 1, !.members = form[p].members]
  /\ form' = [form EXCEPT ![p].step = "open", ![p].version = profile.version + 1,
                          ![p].known = form[p].members]
  /\ UNCHANGED <<minted, files, passed, case, review>>

SaveCommit(p) ==
  /\ form[p].step = "saving" /\ profile.version < MaxProfile
  /\ ~ProfileLocked /\ Unchanged(p) /\ Acceptable(p)
  /\ profile' = [version |-> profile.version + 1, members |-> form[p].members,
                 complete |-> FALSE]
  /\ \/ form' = [form EXCEPT ![p].step = "open", ![p].version = profile.version + 1,
                             ![p].known = form[p].members]
     \/ form' = [form EXCEPT ![p].step = "open"]      \* the answer was lost
  /\ UNCHANGED <<minted, files, passed, case, review>>

\* After a conflict the page must be loaded again.
SaveRefused(p) ==
  /\ form[p].step = "saving"
  /\ ProfileLocked \/ ~Unchanged(p) \/ ~Acceptable(p)
  /\ form' = [form EXCEPT ![p] = IF Unchanged(p) THEN [@ EXCEPT !.step = "open"] ELSE Shut]
  /\ UNCHANGED <<profile, minted, files, passed, case, review>>

Complete(members) == members # {} /\ \A o \in members : doc[o] > 0

CompleteRead(p) ==
  /\ form[p].step = "open" /\ form[p].version = profile.version
  /\ ~ProfileLocked /\ Complete(profile.members)
  /\ form' = [form EXCEPT ![p].step = "completing"]
  /\ UNCHANGED <<profile, minted, files, passed, case, review>>

\* A row that was changed meanwhile is left alone, and the page is told nothing.
CompleteWrite(p) ==
  /\ form[p].step = "completing" /\ profile.version < MaxProfile
  /\ profile' = IF profile.version = form[p].version
                THEN [profile EXCEPT !.version = @ + 1, !.complete = TRUE]
                ELSE profile
  /\ form' = [form EXCEPT ![p] = Shut]
  /\ UNCHANGED <<minted, files, passed, case, review>>

-----------------------------------------------------------------------------
(* Documents of the members and of the application.                         *)

MayUpload(s) == IF s = Form THEN Editable ELSE ~DocumentsLocked

Prepare(s) ==
  /\ upload[s] = "none" /\ MayUpload(s)
  /\ s \in Officers => s \in profile.members
  /\ upload' = [upload EXCEPT ![s] = "prepared"]
  /\ UNCHANGED <<company, doc, fresh, passed, case, review>>

Admit(s) ==
  /\ upload[s] = "prepared" /\ MayUpload(s) /\ doc[s] < MaxDocs[s]
  /\ upload' = [upload EXCEPT ![s] = "new"]
  /\ UNCHANGED <<company, doc, fresh, passed, case, review>>

\* Mutant: the status is looked at only when the upload is admitted.
CommitLate(s) ==
  /\ upload[s] \in {"new", "old"}
  /\ doc' = [doc EXCEPT ![s] = @ + 1]
  /\ fresh' = IF upload[s] = "new" THEN fresh \cup {s} ELSE fresh \ {s}
  /\ upload' = [upload EXCEPT ![s] = "prepared"]
  /\ UNCHANGED <<company, passed, case, review>>

\* Verified, scanned, and committed under the lock of the binding.
CommitUpload(s) ==
  /\ upload[s] \in {"new", "old"} /\ MayUpload(s)
  /\ doc' = [doc EXCEPT ![s] = @ + 1]
  /\ fresh' = IF upload[s] = "new" THEN fresh \cup {s} ELSE fresh \ {s}
  /\ upload' = [upload EXCEPT ![s] = "prepared"]
  /\ UNCHANGED <<company, passed, case, review>>

UploadFails(s) ==
  /\ upload[s] \in {"new", "old"}
  /\ upload' = [upload EXCEPT ![s] = "prepared"]
  /\ UNCHANGED <<company, doc, fresh, passed, case, review>>

-----------------------------------------------------------------------------
(* The application.  A transaction that changes the row gives it a new      *)
(* version; the trigger may count more than one.                            *)

Touch == reviewVersion < MaxReview /\ reviewVersion' = reviewVersion + 1

\* The wizard wants a complete profile, and looks before its transaction.
PassGate ==
  /\ profile.complete /\ ~passed
  /\ passed' = TRUE
  /\ UNCHANGED <<company, files, case, review>>

CreateDraft ==
  /\ passed /\ status = "NONE"
  /\ passed' = FALSE
  /\ status' = "DRAFT" /\ snapshot' = profile.members
  /\ UNCHANGED <<company, files, payment, reviewVersion, review>>

\* refreshFacilitiesEditableSnapshot, whenever the wizard is loaded
RefreshSnapshot ==
  /\ passed /\ Editable
  /\ passed' = FALSE
  /\ snapshot' = profile.members
  /\ UNCHANGED <<company, files, status, payment, reviewVersion, review>>

UpdateDetails ==
  /\ Editable /\ Touch
  /\ UNCHANGED <<company, files, passed, status, payment, snapshot, review>>

\* checkFacilitiesSubmissionReadiness and qualifyFacilitiesDocuments, which
\* locks the company and reads every document again.
Ready(members) == members # {} /\ doc[Form] > 0
Qualified == \A s \in profile.members \cup {Form} : doc[s] > 0

\* refreshFacilitiesProfileSnapshot: of a draft, and of a complete profile
Gate == profile.complete /\ Complete(profile.members)

StartPayment ==
  /\ status = "DRAFT" /\ payment = "none"
  /\ Gate /\ Ready(profile.members) /\ Qualified
  /\ status' = "PENDING_PAYMENT" /\ payment' = "progress"
  /\ snapshot' = profile.members /\ Touch
  /\ UNCHANGED <<company, files, passed, review>>

PaymentEnds ==
  /\ payment = "progress"
  /\ \/ payment' = "settled" /\ UNCHANGED <<status, reviewVersion>>
     \/ payment' = "none" /\ status' = "DRAFT" /\ Touch
  /\ UNCHANGED <<company, files, passed, snapshot, review>>

\* completeVerifiedFacilitiesSubmission, after the callback and every time it
\* comes again: of a draft, too, without a new snapshot.
CompletePaid ==
  /\ payment = "settled" /\ Touch
  /\ \/ /\ status \in {"DRAFT", "PENDING_PAYMENT"}
        /\ Ready(snapshot) /\ Qualified
        /\ status' = "SUBMITTED"
     \/ status = "PENDING_PAYMENT" /\ status' = "DRAFT"     \* a file is missing
  /\ UNCHANGED <<company, files, passed, payment, snapshot, review>>

\* By the applicant: what was paid for, and what was corrected.
Submit ==
  /\ payment = "settled" /\ status = "DRAFT"
  /\ Gate /\ Ready(profile.members) /\ Qualified
  /\ status' = "SUBMITTED" /\ snapshot' = profile.members /\ Touch
  /\ UNCHANGED <<company, files, passed, payment, review>>

Open(c) == correction[c].state = "open"

\* Something was uploaded since the correction was opened.
Addressed == \E s \in Documents : s \in fresh

Resubmit ==
  /\ status = "NEEDS_EDIT" /\ Ready(snapshot) /\ Qualified /\ Addressed
  /\ \E c \in Corrections :
       Open(c) /\ correction' = [correction EXCEPT ![c].state = "resolved"]
  /\ status' = "SUBMITTED" /\ Touch
  /\ UNCHANGED <<company, files, passed, payment, snapshot, sms, screen>>

-----------------------------------------------------------------------------
(* The review.  A page loads the row first and what belongs to it after.    *)

Evidence == [snapshot |-> snapshot, doc |-> doc]

LoadRow(a) ==
  /\ status \in {"SUBMITTED", "UNDER_REVIEW", "NEEDS_EDIT", "VALIDATION_COMPLETED"}
  /\ screen' = [screen EXCEPT ![a] = [step |-> "row", version |-> reviewVersion,
                                      status |-> status]]
  /\ UNCHANGED <<company, files, passed, case, correction, sms>>

LoadEvidence(a) ==
  /\ screen[a].step = "row"
  /\ screen' = [screen EXCEPT ![a] =
       [step |-> "shown", version |-> screen[a].version, status |-> screen[a].status,
        evidence |-> Evidence]]
  /\ UNCHANGED <<company, files, passed, case, correction, sms>>

\* Mutant: only the status of the page is compared.
CurrentStatus(a) == screen[a].step = "shown" /\ screen[a].status = status

\* assertFacilitiesReviewToken, on the locked row
Current(a) ==
  /\ screen[a].step = "shown"
  /\ screen[a].version = reviewVersion /\ screen[a].status = status

Decides(a) == screen' = [screen EXCEPT ![a] = Shut] /\ Touch

StartReview(a) ==
  /\ Current(a) /\ status = "SUBMITTED"
  /\ status' = "UNDER_REVIEW" /\ Decides(a)
  /\ UNCHANGED <<company, files, passed, payment, snapshot, correction, sms>>

CompleteValidation(a) ==
  /\ Current(a) /\ status = "UNDER_REVIEW"
  /\ status' = "VALIDATION_COMPLETED" /\ Decides(a)
  /\ UNCHANGED <<company, files, passed, payment, snapshot, correction, sms>>

\* The uploads that are still on their way were admitted before.
RequestCorrection(a) ==
  /\ Current(a) /\ status = "UNDER_REVIEW"
  /\ \E c \in Corrections :
       /\ correction[c].state = "none"
       /\ \A b \in Corrections : b < c => correction[b].state # "none"
       /\ correction' = [correction EXCEPT ![c].state = "open"]
       /\ delivery' = [delivery EXCEPT ![c] = "claim"]
  /\ status' = "NEEDS_EDIT" /\ Decides(a)
  /\ fresh' = {}
  /\ upload' = [s \in Documents |-> IF upload[s] = "new" THEN "old" ELSE upload[s]]
  /\ UNCHANGED <<company, doc, passed, payment, snapshot, sends>>

-----------------------------------------------------------------------------
(* The SMS of a correction.                                                 *)

\* Mutant: whatever was not confirmed may be sent again.
MayClaimUnconfirmed(c, again) ==
  IF again THEN correction[c].code # "none"
           ELSE delivery[c] = "claim" /\ correction[c].attempts = 0

\* A reviewer may send it again only when the provider has rejected it for
\* certain, which no code ever finds out.
MayClaim(c, again) ==
  IF again THEN correction[c].sms = "FAILED" /\ correction[c].code = "PROVIDER_REJECTED"
           ELSE delivery[c] = "claim" /\ correction[c].attempts = 0

Claim(c) ==
  /\ \E again \in BOOLEAN : MayClaim(c, again)
  /\ status = "NEEDS_EDIT" /\ Open(c) /\ correction[c].sms # "SENT"
  /\ correction' = [correction EXCEPT ![c].sms = "PENDING", ![c].attempts = @ + 1,
                                      ![c].code = "none"]
  /\ delivery' = [delivery EXCEPT ![c] = "send"]
  /\ UNCHANGED <<company, files, passed, case, sends, screen>>

\* The provider may have taken it although the call failed.
Send(c) ==
  /\ delivery[c] = "send"
  /\ \/ sends' = [sends EXCEPT ![c] = @ + 1] /\ delivery' = [delivery EXCEPT ![c] = "sent"]
     \/ /\ sends' \in {sends, [sends EXCEPT ![c] = @ + 1]}
        /\ delivery' = [delivery EXCEPT ![c] = "unconfirmed"]
  /\ UNCHANGED <<company, files, passed, case, correction, screen>>

\* The result is saved, or the doubt is.
SaveResult(c) ==
  /\ \/ /\ delivery[c] = "sent"
        /\ correction' = [correction EXCEPT ![c].sms = "SENT", ![c].code = "none"]
     \/ /\ delivery[c] \in {"sent", "unconfirmed"} /\ correction[c].sms = "PENDING"
        /\ correction' = [correction EXCEPT ![c].code =
             IF delivery[c] = "sent" THEN "PERSISTENCE_UNCONFIRMED" ELSE "DELIVERY_UNCONFIRMED"]
  /\ delivery' = [delivery EXCEPT ![c] = "none"]
  /\ UNCHANGED <<company, files, passed, case, sends, screen>>

\* The handler dies, or a claim is refused.
DeliveryEnds(c) ==
  /\ delivery[c] # "none"
  /\ delivery' = [delivery EXCEPT ![c] = "none"]
  /\ UNCHANGED <<company, files, passed, case, correction, sends, screen>>

-----------------------------------------------------------------------------
CaseNext ==
  \/ \E p \in Pages :
       \/ OpenForm(p) \/ EditForm(p) \/ SaveRead(p) \/ SaveCommit(p) \/ SaveRefused(p)
       \/ CompleteRead(p) \/ CompleteWrite(p)
  \/ \E s \in Documents : Prepare(s) \/ Admit(s) \/ CommitUpload(s) \/ UploadFails(s)
  \/ PassGate \/ CreateDraft \/ RefreshSnapshot \/ UpdateDetails
  \/ StartPayment \/ PaymentEnds \/ CompletePaid \/ Submit \/ Resubmit
  \/ \E a \in Reviewers :
       \/ LoadRow(a) \/ LoadEvidence(a)
       \/ StartReview(a) \/ CompleteValidation(a) \/ RequestCorrection(a)
  \/ \E c \in Corrections : Claim(c) \/ Send(c) \/ SaveResult(c) \/ DeliveryEnds(c)

CaseSpec == CaseInit /\ [][CaseNext]_caseVars

-----------------------------------------------------------------------------
(* Properties.                                                              *)

\* Types of the rows and of what pages and handlers carry.
OpenPage == [step : {"open", "saving", "completing"}, version : Nat, seen : Nat,
             known : SUBSET Officers, members : SUBSET Officers]

CompanyTypes ==
  /\ profile \in [version : Nat, members : SUBSET Officers, complete : BOOLEAN]
  /\ minted \subseteq Officers
  /\ form \in [Pages -> {Shut} \cup OpenPage]

FileTypes ==
  /\ upload \in [Documents -> {"none", "prepared", "new", "old"}]
  /\ doc \in [Documents -> Nat] /\ fresh \subseteq Documents

ApplicationTypes ==
  /\ passed \in BOOLEAN
  /\ status \in Statuses
  /\ payment \in {"none", "progress", "settled"}
  /\ reviewVersion \in Nat /\ snapshot \subseteq Officers

Request == [state : {"none", "open", "resolved"}, sms : {"PENDING", "SENT", "FAILED"},
            attempts : Nat,
            code : {"none", "DELIVERY_UNCONFIRMED", "PERSISTENCE_UNCONFIRMED",
                    "PROVIDER_REJECTED"}]

SmsTypes ==
  /\ correction \in [Corrections -> Request]
  /\ delivery \in [Corrections -> {"none", "claim", "send", "sent", "unconfirmed"}]
  /\ sends \in [Corrections -> Nat]

RowPage == [step : {"row"}, version : Nat, status : Statuses]
ShownPage == [step : {"shown"}, version : Nat, status : Statuses,
              evidence : [snapshot : SUBSET Officers, doc : [Documents -> Nat]]]
ScreenTypes == screen \in [Reviewers -> {Shut} \cup RowPage \cup ShownPage]

CaseTypeOK ==
  CompanyTypes /\ FileTypes /\ ApplicationTypes /\ SmsTypes /\ ScreenTypes

\* A reviewer decides on the documents and the snapshot that the page showed,
\* although they were loaded after the row whose version the decision names.
InformedReview ==
  [][\A a \in Reviewers :
       (screen[a].step = "shown" /\ screen'[a].step = "closed") =>
         screen[a].evidence = Evidence]_caseVars

\* Under review nothing changes of what is reviewed, and the profile not even
\* during a payment or a correction, whatever save, completion or upload was
\* already on its way when the application was submitted.
EvidenceIsFrozen ==
  [][/\ (ProfileLocked /\ ProfileLocked') =>
          profile'.members = profile.members
     /\ (status \in {"SUBMITTED", "UNDER_REVIEW"} /\ status' \in {"SUBMITTED", "UNDER_REVIEW"})
          => Evidence' = Evidence]_caseVars

\* A profile is complete only with a document of every member it has now, and
\* an application is under review only with all documents, also when its
\* profile was changed after the payment.
CompleteIsBacked ==
  /\ profile.complete => Complete(profile.members)
  /\ status \in {"SUBMITTED", "UNDER_REVIEW"} => snapshot # {} /\ Qualified

\* An application is returned with one correction request, which is answered
\* by something that was uploaded later, and told by one SMS at most.
OneCorrection ==
  /\ status = "NEEDS_EDIT" <=> \E c \in Corrections : Open(c)
  /\ \A b, c \in Corrections : Open(b) /\ Open(c) => b = c
  /\ \A c \in Corrections :
       /\ sends[c] <= 1
       /\ correction[c].sms = "SENT" => sends[c] = 1

\* docs/database-overview.md: "`profileVersion` prevents a stale browser save
\* from overwriting a newer profile."
StaleProfileIsNotSaved ==
  [][\A p \in Pages :
       (form[p].step = "saving" /\ profile'.version # profile.version
          /\ form'[p] # form[p] /\ form'[p].step = "open")
       => form[p].version = profile.version]_caseVars
=============================================================================
