----------------------------- MODULE LegacyFiles -----------------------------
(***************************************************************************)
(* The files and the draft of one legacy application (lib/uploads/         *)
(* coordination.ts, candidates.ts, replace.ts, storage.ts; lib/actions/    *)
(* application.ts and admin.ts; ApplicationWizard.tsx).  Browser pages     *)
(* save the draft and upload files against the version and the generations *)
(* they know; a new file is journalled, written and committed with the     *)
(* binding of its slot, its predecessor is deleted in steps of their own,  *)
(* and abandoned candidates are swept for ever.  Reviewers decide on what  *)
(* they have seen, and the last decision needs a certificate.              *)
(*                                                                         *)
(* An object is a path with the candidate, the ApplicationFile and the     *)
(* deletion intent that may belong to it.  The text of a draft is the set  *)
(* of edits it contains.  The payment is what LegacyPayment has in detail: *)
(* here it is absent, in progress, or settled.                             *)
(***************************************************************************)
EXTENDS FiniteSets, Naturals

CONSTANTS
  Tabs,          \* pages of the applicant
  Editors,       \* bound: those that change the text of the draft
  Admins,        \* pages of reviewers
  Slots,         \* the required file slots of the application
  Certificate,   \* the slot of the validation certificate
  Objects, SlotOf,
  Historical,    \* objects that were stored before there was a journal
  MaxVersion,    \* bound: writes of the draft
  None

AllSlots == Slots \cup {Certificate}

ASSUME LegacyConstants ==
  /\ Certificate \notin Slots /\ None \notin Objects \cup Tabs \cup Admins
  /\ SlotOf \in [Objects -> AllSlots]
  /\ Historical \subseteq {o \in Objects : SlotOf[o] \in Slots}
  /\ \A o, h \in Historical : SlotOf[o] = SlotOf[h] => o = h
  /\ MaxVersion \in Nat /\ Tabs \cap Admins = {} /\ Editors \subseteq Tabs

VARIABLES
  status, payment,   \* of the application
  draft,             \* version, text and file references of the application
  binding,           \* LegacyFileBinding
  candidate,         \* LegacyUploadCandidate
  bytes,             \* objects that are on the disk
  intent,            \* LegacyFileDeletionIntent of a predecessor
  request,           \* the handler that stores an object
  page,              \* what a page of the applicant knows
  desk,              \* what a page of a reviewer shows
  unlinking          \* objects that a sweep or a deletion is about to unlink

vars == <<status, payment, draft, binding, candidate, bytes, intent, request,
          page, desk, unlinking>>
application == <<status, payment>>
disk == <<bytes, unlinking>>

Idle == [step |-> "none", by |-> None, generation |-> 0, version |-> 0]
Closed == [open |-> FALSE]

\* The migration bound a saved reference that was unambiguous, and left others
\* alone; an application may have started later.
Init ==
  /\ status = "DRAFT" /\ payment = "none"
  /\ \E bound \in SUBSET Historical, unresolved \in SUBSET Historical :
       LET Of(s, os) == IF \E o \in os : SlotOf[o] = s
                        THEN CHOOSE o \in os : SlotOf[o] = s ELSE None
       IN /\ bound \cap unresolved = {}
          /\ draft = [version |-> 0, text |-> {},
                      files |-> [s \in Slots |-> Of(s, bound \cup unresolved)]]
          /\ binding = [s \in AllSlots |->
                          [file |-> Of(s, bound),
                           generation |-> IF Of(s, bound) = None THEN 0 ELSE 1]]
  /\ candidate = [o \in Objects |-> "none"]
  /\ bytes = Historical
  /\ intent = [o \in Objects |-> "none"]
  /\ request = [o \in Objects |-> Idle]
  /\ page = [t \in Tabs |-> Closed]
  /\ desk = [a \in Admins |-> Closed]
  /\ unlinking = {}

-----------------------------------------------------------------------------
(* Pages of the applicant.                                                  *)

\* A request of the page that was there before goes on without it.
OpenPage(t) ==
  /\ page' = [page EXCEPT ![t] =
       [open |-> TRUE, version |-> draft.version, text |-> draft.text,
        files |-> draft.files,
        generations |-> [s \in Slots |-> binding[s].generation],
        readOnly |-> status \notin {"DRAFT", "NEEDS_EDIT"}]]
  /\ request' = [o \in Objects |-> IF request[o].by = t
                                   THEN [request[o] EXCEPT !.by = None] ELSE request[o]]
  /\ UNCHANGED <<application, draft, binding, candidate, disk, intent, desk>>

\* Saves and uploads of a page wait for each other; one whose outcome is not
\* known, or that met a conflict, blocks the page until it is loaded again.
Busy(p) == \E o \in Objects : request[o].by = p
MayAct(t) == page[t].open /\ ~page[t].readOnly /\ ~Busy(t)

Edit(t) ==
  /\ t \in Editors
  /\ page[t].open /\ ~page[t].readOnly
  /\ page' = [page EXCEPT ![t].text = @ \cup {t}]
  /\ UNCHANGED <<application, draft, binding, candidate, disk, intent, request, desk>>

Blocks(t) == page' = [page EXCEPT ![t] = Closed]

Editable == status \in {"DRAFT", "NEEDS_EDIT"} /\ payment # "progress"

\* Every bound slot names its current file, and any other reference is the one
\* that is already saved.
Fits(files) ==
  \A s \in Slots : IF binding[s].file # None
                   THEN files[s] = binding[s].file
                   ELSE files[s] \in {draft.files[s], None}

Valid(t) == page[t].version = draft.version /\ Fits(page[t].files)

Save(t) ==
  /\ draft.version < MaxVersion
  /\ draft' = [version |-> draft.version + 1, text |-> page[t].text,
               files |-> page[t].files]

\* The version that the page learns, if it hears of the commit.
Hears(t) ==
  \/ page' = [page EXCEPT ![t].version = draft.version + 1]
  \/ Blocks(t)

SaveDraft(t) ==
  /\ MayAct(t) /\ Editable /\ Valid(t)
  /\ Save(t) /\ Hears(t)
  /\ UNCHANGED <<application, binding, candidate, disk, intent, request, desk>>

\* The final step submits the page's draft, and needs its documents.
Qualified ==
  \A s \in Slots : /\ binding[s].file \in bytes
                   /\ intent[binding[s].file] = "none"

StartPayment(t) ==
  /\ MayAct(t) /\ status = "DRAFT" /\ payment = "none"
  /\ Valid(t) /\ Qualified
  /\ Save(t) /\ Hears(t)
  /\ payment' = "progress"
  /\ UNCHANGED <<status, binding, candidate, disk, intent, request, desk>>

Resubmit(t) ==
  /\ MayAct(t) /\ payment = "settled"
  /\ status \in {"DRAFT", "PENDING_PAYMENT", "NEEDS_EDIT"}
  /\ Valid(t) /\ Qualified
  /\ Save(t) /\ Blocks(t)
  /\ status' = "SUBMITTED"
  /\ UNCHANGED <<payment, binding, candidate, disk, intent, request, desk>>

\* A save or a payment that is refused: the page must be loaded again.
Refused(t) ==
  /\ MayAct(t) /\ ~(Editable /\ Valid(t))
  /\ Blocks(t)
  /\ UNCHANGED <<application, draft, binding, candidate, disk, intent, request, desk>>

-----------------------------------------------------------------------------
(* The payment, without its draft.                                          *)

Pays ==
  /\ payment = "progress"
  /\ \/ status = "DRAFT" /\ status' = "PENDING_PAYMENT" /\ UNCHANGED payment
     \/ payment' = "settled" /\ UNCHANGED status
  /\ UNCHANGED <<draft, binding, candidate, disk, intent, request, page, desk>>

Complete ==
  /\ payment = "settled" /\ status \in {"DRAFT", "PENDING_PAYMENT"}
  /\ status' = IF Qualified THEN "SUBMITTED" ELSE "DRAFT"
  /\ UNCHANGED <<payment, draft, binding, candidate, disk, intent, request, page, desk>>

-----------------------------------------------------------------------------
(* An upload, or a certificate.                                             *)

Steps(o, step) == request' = [request EXCEPT ![o].step = step]

BeginUpload(t, o) ==
  /\ MayAct(t) /\ SlotOf[o] \in Slots \ {Certificate} /\ o \notin Historical
  /\ request[o].step = "none" /\ status \in {"DRAFT", "NEEDS_EDIT"}
  /\ request' = [request EXCEPT ![o] =
       [step |-> "journal", by |-> t, version |-> 0,
        generation |-> page[t].generations[SlotOf[o]]]]
  /\ UNCHANGED <<application, draft, binding, candidate, disk, intent, page, desk>>

\* Verified and scanned; nothing is written that is not journalled.
Journal(o) ==
  /\ request[o].step = "journal"
  /\ candidate' = [candidate EXCEPT ![o] = "STAGING"]
  /\ Steps(o, "write")
  /\ UNCHANGED <<application, draft, binding, disk, intent, page, desk>>

Write(o) ==
  /\ request[o].step = "write"
  /\ bytes' = bytes \cup {o}
  /\ Steps(o, "ready")
  /\ UNCHANGED <<application, draft, binding, candidate, intent, page, desk, unlinking>>

MarkReady(o) ==
  /\ request[o].step = "ready" /\ candidate[o] = "STAGING"
  /\ candidate' = [candidate EXCEPT ![o] = "READY"]
  /\ Steps(o, "commit")
  /\ UNCHANGED <<application, draft, binding, disk, intent, page, desk>>

\* Mutant: the deletion of the old file is not journalled.
AttachQuietly(o) ==
  LET s == SlotOf[o]
  IN /\ candidate[o] = "READY"
     /\ candidate' = [candidate EXCEPT ![o] = "COMMITTED"]
     /\ binding' = [binding EXCEPT ![s] = [file |-> o, generation |-> @.generation + 1]]
     /\ UNCHANGED intent

\* Mutant: what was abandoned meanwhile is committed as well.
AttachAbandoned(o) ==
  LET s == SlotOf[o]
      prior == binding[s].file
  IN /\ candidate[o] \in {"READY", "ABANDONED"}
     /\ candidate' = [candidate EXCEPT ![o] = "COMMITTED"]
     /\ binding' = [binding EXCEPT ![s] = [file |-> o, generation |-> @.generation + 1]]
     /\ intent' = [p \in Objects |-> IF p = prior THEN "PENDING" ELSE intent[p]]

\* commitLegacyFile: the binding turns to the new file, its trigger journals
\* the deletion of the old one, and the candidate is done.
Attach(o) ==
  LET s == SlotOf[o]
      prior == binding[s].file
  IN /\ candidate[o] = "READY"
     /\ candidate' = [candidate EXCEPT ![o] = "COMMITTED"]
     /\ binding' = [binding EXCEPT ![s] = [file |-> o, generation |-> @.generation + 1]]
     /\ intent' = [p \in Objects |-> IF p = prior THEN "PENDING" ELSE intent[p]]

CommitUpload(o) ==
  LET s == SlotOf[o]
  IN /\ request[o].step = "commit" /\ s \in Slots
     /\ Editable /\ request[o].generation = binding[s].generation
     /\ draft.version < MaxVersion
     /\ Attach(o)
     /\ draft' = [draft EXCEPT !.version = @ + 1, !.files[s] = o]
     /\ request' = [request EXCEPT ![o].step = "respond",
                                   ![o].version = draft.version + 1]
     /\ UNCHANGED <<application, disk, page, desk>>

\* The page takes over the reference, its generation and the new version.
Respond(o) ==
  LET t == request[o].by
      s == SlotOf[o]
  IN /\ request[o].step = "respond"
     /\ page' = IF t \in Tabs /\ page[t].open
                THEN [page EXCEPT ![t].version = request[o].version,
                                  ![t].files[s] = o,
                                  ![t].generations[s] = request[o].generation + 1]
                ELSE page
     /\ request' = [request EXCEPT ![o] = [Idle EXCEPT !.step = "ended"]]
     /\ UNCHANGED <<application, draft, binding, candidate, disk, intent, desk>>

\* The request fails, is refused or dies, and the page cannot tell; but before
\* the journal a refusal says that nothing changed.
RequestEnds(o) ==
  LET p == request[o].by
  IN /\ request[o].step \notin {"none", "ended"}
     /\ request' = [request EXCEPT ![o] = [Idle EXCEPT !.step = "ended"]]
     /\ \/ p \in Tabs /\ Blocks(p)
        \/ (p \notin Tabs \/ request[o].step = "journal") /\ UNCHANGED page
     /\ UNCHANGED <<application, draft, binding, candidate, disk, intent, desk>>

-----------------------------------------------------------------------------
(* The review.                                                              *)

Reviewed == {"SUBMITTED", "UNDER_REVIEW", "NEEDS_EDIT", "VALIDATION_COMPLETED"}
AllowedNext(s) ==
  CASE s = "SUBMITTED" -> {"UNDER_REVIEW", "NEEDS_EDIT", "VALIDATION_COMPLETED"}
    [] s = "UNDER_REVIEW" -> {"NEEDS_EDIT", "VALIDATION_COMPLETED"}
    [] s = "NEEDS_EDIT" -> {"UNDER_REVIEW"}
    [] OTHER -> {}

OpenDesk(a) ==
  /\ status \in Reviewed /\ ~Busy(a)
  /\ desk' = [desk EXCEPT ![a] =
       [open |-> TRUE, version |-> draft.version, status |-> status,
        text |-> draft.text, files |-> [s \in AllSlots |-> binding[s].file]]]
  /\ UNCHANGED <<application, draft, binding, candidate, disk, intent, request, page>>

\* Mutant: only the status is compared.
CurrentStatus(a) == desk[a].open /\ desk[a].status = status

\* assertReviewSnapshot, on the locked row
Current(a) ==
  desk[a].open /\ desk[a].version = draft.version /\ desk[a].status = status

Decide(a) ==
  /\ Current(a) /\ ~Busy(a) /\ draft.version < MaxVersion
  /\ status' \in AllowedNext(status) \ {"VALIDATION_COMPLETED"}
  /\ draft' = [draft EXCEPT !.version = @ + 1]
  /\ desk' = [desk EXCEPT ![a] = Closed]
  /\ UNCHANGED <<payment, binding, candidate, disk, intent, request, page>>

\* The certificate is staged between two looks at the application.
MayCertify == "VALIDATION_COMPLETED" \in AllowedNext(status) \cup {status}
BeginCertificate(a, o) ==
  /\ Current(a) /\ ~Busy(a) /\ MayCertify
  /\ SlotOf[o] = Certificate /\ request[o].step = "none"
  /\ request' = [request EXCEPT ![o] = [Idle EXCEPT !.step = "journal", !.by = a]]
  /\ UNCHANGED <<application, draft, binding, candidate, disk, intent, page, desk>>

\* The decision and its certificate, or another certificate for the decision.
CommitCertificate(o) ==
  LET admin == request[o].by
  IN /\ request[o].step = "commit" /\ admin \in Admins
     /\ Current(admin) /\ MayCertify /\ draft.version < MaxVersion
     /\ Attach(o)
     /\ status' = "VALIDATION_COMPLETED"
     /\ draft' = [draft EXCEPT !.version =
                    @ + IF status = "VALIDATION_COMPLETED" THEN 1 ELSE 2]
     /\ desk' = [desk EXCEPT ![admin] = Closed]
     /\ request' = [request EXCEPT ![o] = [Idle EXCEPT !.step = "ended"]]
     /\ UNCHANGED <<payment, disk, page>>

-----------------------------------------------------------------------------
(* Deletion of replaced files, and the sweep of candidates that nobody      *)
(* committed: by the maintenance job, and the first also by requests.       *)

Referenced(o) == \/ \E s \in AllSlots : binding[s].file = o
                 \/ \E s \in Slots : draft.files[s] = o

Authorize(o) ==
  /\ intent[o] \in {"PENDING", "AUTHORIZED"}
  /\ candidate[o] = "COMMITTED" /\ ~Referenced(o)
  /\ intent' = [intent EXCEPT ![o] = "AUTHORIZED"]
  /\ unlinking' = unlinking \cup {o}
  /\ UNCHANGED <<application, draft, binding, candidate, bytes, request, page, desk>>

\* What was not journalled is left to people.
Retain(o) ==
  /\ intent[o] = "PENDING" /\ candidate[o] # "COMMITTED"
  /\ intent' = [intent EXCEPT ![o] = "RETAINED"]
  /\ UNCHANGED <<application, draft, binding, candidate, disk, request, page, desk>>

\* Mutant: what was abandoned once is left alone.
AbandonOnce(o) ==
  /\ candidate[o] \in {"STAGING", "READY"}
  /\ candidate' = [candidate EXCEPT ![o] = "ABANDONED"]
  /\ unlinking' = unlinking \cup {o}
  /\ UNCHANGED <<application, draft, binding, bytes, intent, request, page, desk>>

\* Abandoned for good before it is unlinked, and again every time.  How long 24
\* hours are is left open: the request may be still on its way.
Abandon(o) ==
  /\ candidate[o] \in {"STAGING", "READY", "ABANDONED"}
  /\ candidate' = [candidate EXCEPT ![o] = "ABANDONED"]
  /\ unlinking' = unlinking \cup {o}
  /\ UNCHANGED <<application, draft, binding, bytes, intent, request, page, desk>>

\* Unlinked, which is then recorded, or not: it is tried again.
Unlink(o) ==
  /\ o \in unlinking
  /\ bytes' = bytes \ {o}
  /\ unlinking' = unlinking \ {o}
  /\ intent' \in {intent, [intent EXCEPT ![o] = IF @ = "AUTHORIZED" THEN "SUCCEEDED" ELSE @]}
  /\ UNCHANGED <<application, draft, binding, candidate, request, page, desk>>
UnlinkFails(o) ==
  /\ o \in unlinking
  /\ unlinking' = unlinking \ {o}
  /\ UNCHANGED <<application, draft, binding, candidate, bytes, intent, request, page, desk>>

-----------------------------------------------------------------------------
Next ==
  \/ \E t \in Tabs :
       \/ OpenPage(t) \/ Edit(t) \/ SaveDraft(t) \/ StartPayment(t) \/ Resubmit(t)
       \/ Refused(t)
       \/ \E o \in Objects : BeginUpload(t, o)
  \/ Pays \/ Complete
  \/ \E a \in Admins :
       \/ OpenDesk(a) \/ Decide(a)
       \/ \E o \in Objects : BeginCertificate(a, o)
  \/ \E o \in Objects :
       \/ Journal(o) \/ Write(o) \/ MarkReady(o) \/ CommitUpload(o) \/ Respond(o)
       \/ CommitCertificate(o) \/ RequestEnds(o)
       \/ Authorize(o) \/ Retain(o) \/ Abandon(o) \/ Unlink(o) \/ UnlinkFails(o)

Spec == Init /\ [][Next]_vars

\* Requests end, and the job comes back, also to what has grown old: it does not fail
\* on one object for ever.
Fairness ==
  \A o \in Objects :
    /\ WF_vars(RequestEnds(o))
    /\ SF_vars(Authorize(o)) /\ SF_vars(Abandon(o)) /\ SF_vars(Unlink(o))

MaintainedSpec == Spec /\ Fairness

-----------------------------------------------------------------------------
(* Properties.                                                              *)

\* What the application names can be read, whatever sweeps, deletions and late
\* writers do; a bound slot and the saved draft name the same file; and what
\* was there before the journal is never removed.
NothingMissing ==
  /\ Historical \subseteq bytes
  /\ \A o \in Objects : Referenced(o) => o \in bytes \ unlinking
  /\ \A s \in Slots :
       binding[s].file # None => draft.files[s] = binding[s].file

\* An application under review has all its documents, and one whose validation
\* was completed has a certificate, although files are replaced, the reviewer's
\* decision may return the application, and the payment submits it unseen.
SubmittedIsComplete ==
  /\ status \in Reviewed => \A s \in Slots : binding[s].file # None
  /\ status = "VALIDATION_COMPLETED" => binding[Certificate].file # None

\* The two together: no step of a page, a reviewer, a deletion or a sweep takes a
\* document away that an application needs.
NeededIsThere == NothingMissing /\ SubmittedIsComplete

\* A reviewer decides on what the page showed: neither a save, an upload or a
\* correction of the applicant nor a decision of a colleague came in between.
DecisionSeen ==
  \A a \in Admins :
    (desk[a].open /\ ~desk'[a].open) =>
      /\ desk[a].text = draft.text /\ desk[a].status = status
      /\ \A s \in AllSlots : desk[a].files[s] = binding[s].file
DecisionIsInformed == [][DecisionSeen]_vars

\* Seen from outside it is one document per slot: LegacyFiles implements
\* SlotPromise, in which the slot of the certificate stands for the slots that
\* may change after the submission.
WasShown(o) == intent[o] # "none" \/ \E s \in AllSlots : binding[s].file = o
Shown == [s \in AllSlots |-> binding[s].file]
Spent == {o \in Objects : WasShown(o)}
Kept == {o \in bytes : WasShown(o)}
Promise == INSTANCE SlotPromise WITH
  Documents <- Objects, Slots <- AllSlots, Templates <- {Certificate},
  Required <- Slots, Nothing <- None,
  open <- Editable, shown <- Shown, spent <- Spent, kept <- Kept, published <- {}
KeepsPromise == Promise!Spec

\* A file that was replaced, or that no request will commit any more, goes,
\* and does not come back with a writer that was late.
Leftover(o) == o \notin Historical /\ request[o].step = "ended" /\ ~Referenced(o)
LeftoversGo ==
  \A o \in Objects : Leftover(o) ~> (o \notin bytes /\ Leftover(o))

\* What the closing report of the file work says of the draft: "Stale
\* generations/saves cannot overwrite current content."  The page adopts the
\* version of its own upload, and with it the edits it never saw.
StaleSavesLoseNothing == [][draft.text \subseteq draft'.text]_vars
=============================================================================
