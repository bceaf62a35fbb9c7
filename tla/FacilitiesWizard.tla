-------------------------- MODULE FacilitiesWizard --------------------------
(***************************************************************************)
(* The wizard of a facilities application in one browser (components/      *)
(* facilities/FacilitiesApplicationWizard.tsx) and the server actions that *)
(* it calls (lib/actions/facilities-application.ts).  The draft is made,   *)
(* its details are saved with each step, documents are uploaded, and the   *)
(* last step shows what is about to be submitted.  What it shows is the    *)
(* state of the page; what is submitted is what the server has.            *)
(*                                                                         *)
(* The type and the amount of the facility are one value.  Next sends the  *)
(* server actions of a page one after the other, in the order of the       *)
(* calls; uploads are requests of their own and end in any order.  What    *)
(* the server does with a file is FacilitiesFiles, and with a submission   *)
(* FacilitiesPayment and FacilitiesCase.                                   *)
(***************************************************************************)
EXTENDS Naturals, FiniteSets

CONSTANTS
  Required, Optional,   \* slots of documents, with and without a star
  Details, NoDetails,   \* what the type and the amount may be
  MaxUploads            \* bound: uploads that are awaited at once

Documents == Required \cup Optional

ASSUME WizardConstants ==
  /\ IsFiniteSet(Documents) /\ Required \cap Optional = {}
  /\ NoDetails \notin Details /\ MaxUploads \in Nat

VARIABLES
  saved,        \* the details of the draft, at the server
  stored,       \* slots with a usable file, at the server
  screen,       \* the step of the wizard
  typed,        \* the details on the page
  docStatus,    \* what the page says of each slot
  uploading,    \* one flag for all uploads
  uploads,      \* uploads of each slot that are awaited
  attachments,  \* and of attachments to the questionnaire
  saving,       \* the call that makes or saves the draft
  submitting,   \* a submission is awaited
  missed        \* typed since the details that are saved were sent (not kept)

wizardVars == <<saved, stored, screen, typed, docStatus, uploading, uploads,
                attachments, saving, submitting, missed>>
documentVars == <<stored, docStatus, uploading, uploads, attachments>>

Status(state, name, previous) == [state |-> state, name |-> name, previousName |-> previous]
Absent == Status("none", FALSE, FALSE)
NoCall == [kind |-> "none", value |-> NoDetails, reached |-> FALSE]

WizardTypeOK ==
  /\ saved \in Details \cup {NoDetails} /\ stored \subseteq Documents
  /\ screen \in {"choose", "details", "documents", "confirm", "left"}
  /\ typed \in Details
  /\ docStatus \in [Documents -> {Status(s, n, p) : s \in {"none", "uploading", "done", "error"},
                                                    n \in BOOLEAN, p \in BOOLEAN}]
  /\ uploading \in BOOLEAN
  /\ uploads \in [Documents -> 0..MaxUploads] /\ attachments \in 0..MaxUploads
  /\ saving.kind \in {"none", "create", "save"}
  /\ saving.value \in Details \cup {NoDetails} /\ saving.reached \in BOOLEAN
  /\ submitting \in BOOLEAN /\ missed \in BOOLEAN

\* A page that was just loaded says of the files what the server has.
Seeded(present) ==
  [s \in Documents |-> IF s \in present THEN Status("done", TRUE, FALSE) ELSE Absent]

WizardInit ==
  /\ saved = NoDetails /\ stored = {} /\ screen = "choose" /\ typed \in Details
  /\ docStatus = Seeded({}) /\ uploading = FALSE
  /\ uploads = [s \in Documents |-> 0] /\ attachments = 0
  /\ saving = NoCall /\ submitting = FALSE /\ missed = FALSE

\* The page is loaded anew; calls and uploads that were awaited are given up, and
\* those the server has not seen never reach it.  What was submitted meanwhile is
\* shown without the wizard.
Reload ==
  /\ screen # "left"
  /\ \/ screen' = (IF saved = NoDetails THEN "choose" ELSE "details")
     \/ submitting /\ screen' = "left"
  /\ typed' \in IF saved = NoDetails THEN Details ELSE {saved}
  /\ docStatus' = Seeded(stored) /\ uploading' = FALSE
  /\ uploads' = [s \in Documents |-> 0] /\ attachments' = 0
  /\ saving' = NoCall /\ submitting' = FALSE /\ missed' = FALSE
  /\ UNCHANGED <<saved, stored>>

-----------------------------------------------------------------------------
(* The details.                                                             *)

\* The inputs are not disabled while a call is awaited.
Types(v) ==
  /\ screen \in {"choose", "details"} /\ v # typed
  /\ typed' = v /\ missed' = (saving.kind # "none")
  /\ UNCHANGED <<saved, screen, saving, submitting, documentVars>>

Calls(kind) ==
  /\ saving' = [kind |-> kind, value |-> typed, reached |-> FALSE]
  /\ missed' = FALSE
  /\ UNCHANGED <<saved, screen, typed, submitting, documentVars>>

CreateDraft == screen = "choose" /\ saving.kind = "none" /\ Calls("create")

SaveStep == screen = "details" /\ saving.kind = "none" /\ Calls("save")

Reaches(kind) ==
  /\ ~submitting /\ saving.kind = kind /\ ~saving.reached
  /\ saved' = saving.value
  /\ saving' = [saving EXCEPT !.reached = TRUE]
  /\ UNCHANGED <<stored, screen, typed, docStatus, uploading, uploads,
                 attachments, submitting, missed>>

\* There is one draft of a company in an intake.
CreateReaches == saved = NoDetails /\ Reaches("create")

UpdateReaches == Reaches("save")

SaveSucceeds ==
  /\ saving.reached
  /\ saving' = NoCall /\ screen' = "documents"
  /\ UNCHANGED <<saved, typed, submitting, missed, documentVars>>

\* The server refuses, the request is lost, or its answer is.
SaveFails ==
  /\ saving.kind # "none"
  /\ saving' = NoCall
  /\ UNCHANGED <<saved, screen, typed, submitting, missed, documentVars>>

-----------------------------------------------------------------------------
(* The documents.                                                           *)

\* Mutant: a slot that has been touched counts.
MissingTouched == {s \in Required : docStatus[s].state = "none"}

\* A slot whose replacement failed still has the file it had before.
Missing ==
  {s \in Required : docStatus[s].state # "done" /\ ~docStatus[s].previousName}

PickFile(s) ==
  /\ screen = "documents" /\ ~uploading /\ ~submitting
  /\ uploads[s] < MaxUploads
  /\ uploading' = TRUE
  /\ uploads' = [uploads EXCEPT ![s] = @ + 1]
  /\ docStatus' = [docStatus EXCEPT ![s] =
       Status("uploading", FALSE, docStatus[s].name \/ docStatus[s].previousName)]
  /\ UNCHANGED <<saved, stored, screen, typed, attachments, saving, submitting, missed>>

\* Several may be picked at once.
PickAttachments(n) ==
  /\ screen = "documents" /\ ~uploading /\ ~submitting
  /\ attachments + n <= MaxUploads
  /\ uploading' = TRUE /\ attachments' = attachments + n
  /\ UNCHANGED <<saved, stored, screen, typed, docStatus, uploads, saving, submitting, missed>>

\* The file was stored, or not, and the page hears of it or takes it for failed;
\* a failed replacement leaves the file there was.  The first upload that ends
\* clears the flag of all.
UploadEnds(s, isStored, heard) ==
  /\ screen # "left" /\ uploads[s] > 0
  /\ heard => isStored
  /\ uploads' = [uploads EXCEPT ![s] = @ - 1]
  /\ stored' = IF isStored THEN stored \cup {s} ELSE stored
  /\ docStatus' = [docStatus EXCEPT ![s] =
       IF heard THEN Status("done", TRUE, FALSE)
                ELSE Status("error", FALSE, docStatus[s].previousName)]
  /\ uploading' = FALSE
  /\ UNCHANGED <<saved, screen, typed, attachments, saving, submitting, missed>>

AttachmentEnds ==
  /\ screen # "left" /\ attachments > 0
  /\ attachments' = attachments - 1 /\ uploading' = FALSE
  /\ UNCHANGED <<saved, stored, screen, typed, docStatus, uploads, saving, submitting, missed>>

-----------------------------------------------------------------------------
(* The steps.                                                               *)

GoTo(to) ==
  /\ saving.kind = "none" /\ screen' = to
  /\ UNCHANGED <<saved, typed, saving, submitting, missed, documentVars>>

GoNext == screen = "documents" /\ Missing = {} /\ GoTo("confirm")

GoPrev ==
  \/ screen = "documents" /\ GoTo("details")
  \/ screen = "confirm" /\ GoTo("documents")

Submit ==
  /\ screen = "confirm" /\ ~uploading /\ ~submitting
  /\ submitting' = TRUE
  /\ UNCHANGED <<saved, screen, typed, saving, missed, documentVars>>

\* The browser goes on to the payment or to the submitted application, or
\* stays where the user is by now.
SubmitEnds ==
  /\ submitting /\ submitting' = FALSE
  /\ screen' \in {screen, "left"}
  /\ UNCHANGED <<saved, typed, saving, missed, documentVars>>

WizardNext ==
  \/ Reload \/ CreateDraft \/ SaveStep \/ CreateReaches \/ UpdateReaches \/ SaveSucceeds \/ SaveFails
  \/ \E v \in Details : Types(v)
  \/ \E s \in Documents :
       PickFile(s) \/ \E isStored, heard \in BOOLEAN : UploadEnds(s, isStored, heard)
  \/ \E n \in 1..MaxUploads : PickAttachments(n)
  \/ AttachmentEnds \/ GoNext \/ GoPrev \/ Submit \/ SubmitEnds

WizardSpec == WizardInit /\ [][WizardNext]_wizardVars

-----------------------------------------------------------------------------
(* Properties                                                               *)

\* Whoever is asked to submit has every document the server will require, and
\* sees the details it has, unless they were typed while an earlier version was
\* on its way: those are shown, and not saved (components/facilities/
\* FacilitiesApplicationWizard.tsx:438-473, 592-607).
ConfirmsWhatIsSaved ==
  screen = "confirm" => Required \subseteq stored /\ (~missed => typed = saved)
=============================================================================
