----------------------------- MODULE ProfileForm -----------------------------
(***************************************************************************)
(* The page of the company's profile in one browser, as far as the members *)
(* of the board and their identity packages go                             *)
(* (components/facilities/CompanyProfileForm.tsx).  A member's row gets an *)
(* id when it is first saved, and the member's package is stored under     *)
(* that id.  The page keeps the ids in the rows it shows, which may have   *)
(* changed by the time a save is answered.                                 *)
(*                                                                         *)
(* No other page saves the profile meanwhile: what two of them do to each  *)
(* other is FacilitiesCase.  A profile that the page asks for arrives at   *)
(* once: one that came late would be older than the page and be ignored.   *)
(***************************************************************************)
EXTENDS Integers, Sequences, SequencesExt, FiniteSetsExt, Functions

CONSTANTS
  People,         \* who may be a member
  MaxVersion,     \* bound on the saves
  MaxRows,        \* bound on the rows of the page
  MaxUploads      \* bound on the packages that are on their way at once

ASSUME ProfileConstants ==
  {MaxVersion, MaxRows, MaxUploads} \subseteq Nat /\ 0 \notin People

VARIABLES
  officers,       \* the members that the server has
  version,        \* profileVersion, 0 before there is a profile
  lastId,         \* ids given so far: 1, 2, ...; 0 is none
  packages,       \* whose package is stored under an id; 0 is none
  draft,          \* the rows that are shown
  basis,          \* the version the rows are based on
  savedSnapshot,  \* the rows as they were last known to be saved
  conflict,       \* is saving stopped until the page is reloaded?
  call,           \* the call whose answer is awaited; `pending' is that there is one
  initialVersion, \* the version of the profile that the page last received
  uploads         \* packages on their way to the slots they were given

serverVariables == <<officers, version, lastId>>
pageVariables == <<draft, basis, savedSnapshot, conflict, initialVersion>>
profileVars == <<serverVariables, packages, pageVariables, call, uploads>>

Row == [id : Nat, who : People]
IdsOf(rows) == {r.id : r \in Range(rows)} \ {0}
NoCall == [step |-> "none", for |-> "", row |-> 0, sent |-> <<>>, at |-> 0]
Ended(how) == [NoCall EXCEPT !.step = how]

ProfileTypeOK ==
  /\ officers \subseteq Row
  /\ {version, lastId, basis, initialVersion} \subseteq Nat
  /\ DOMAIN packages = 1..lastId /\ Range(packages) \subseteq People \cup {0}
  /\ {draft, savedSnapshot, call.sent} \subseteq Seq(Row)
  /\ conflict \in BOOLEAN
  /\ call.step \in {"none", "saving", "saved", "stale", "failed",
                    "completing", "completed", "left"}
  /\ call.for \in {"", "save", "complete", "package"}
  /\ uploads \subseteq Row

\* A page that was opened before there is a profile.
ProfileInit ==
  /\ officers = {} /\ version = 0 /\ lastId = 0 /\ packages = <<>>
  /\ draft = <<>> /\ savedSnapshot = <<>>
  /\ basis = 0 /\ initialVersion = 0 /\ conflict = FALSE
  /\ call = NoCall /\ uploads = {}

\* The rows of a page that loads the profile: the query names no order.
Loaded == SetToSeqs(officers)

-----------------------------------------------------------------------------
(* What the applicant does.  The rows can be changed at any time.           *)

AddRow(p) ==
  /\ call.step # "left"
  /\ Len(draft) < MaxRows /\ \A i \in DOMAIN draft : draft[i].who # p
  /\ draft' = Append(draft, [id |-> 0, who |-> p])
  /\ UNCHANGED <<serverVariables, packages, basis, savedSnapshot, conflict,
                 initialVersion, call, uploads>>

RemoveRow(i) ==
  /\ call.step # "left"
  /\ draft' = RemoveAt(draft, i)
  /\ UNCHANGED <<serverVariables, packages, basis, savedSnapshot, conflict,
                 initialVersion, call, uploads>>

\* Save, complete, or upload the package of a row that has no id yet.  A valid
\* form has a chief executive and another member.
Save(for, i) ==
  /\ call.step = "none" /\ ~conflict /\ version < MaxVersion
  /\ Len(draft) >= 2
  /\ IF for = "package" THEN draft[i].id = 0 /\ Cardinality(uploads) < MaxUploads
                        ELSE i = 1
  /\ call' = [step |-> "saving", for |-> for, row |-> i, sent |-> draft, at |-> basis]
  /\ UNCHANGED <<serverVariables, packages, pageVariables, uploads>>

\* ensureFacilitiesProfileDocumentSlot gives a slot to a member that is saved,
\* and the applicant picks the package of the person the row shows.
Prepared(row) == IF row.id \in {o.id : o \in officers} THEN {row} ELSE {}

\* The package of a row that has an id.
Upload(i) ==
  /\ call.step # "left" /\ ~conflict /\ draft[i].id # 0
  /\ Cardinality(uploads) < MaxUploads
  /\ \A u \in uploads : u.id # draft[i].id
  /\ uploads' = uploads \cup Prepared(draft[i])
  /\ UNCHANGED <<serverVariables, packages, pageVariables, call>>

-----------------------------------------------------------------------------
(* What the server makes of it.                                             *)

\* The rows that are sent may be saved: the version is the current one, every id
\* is that of a member and named once, and nobody with a package is left out.
Accepted ==
  LET ids == SelectSeq(call.sent, LAMBDA r : r.id # 0)
  IN /\ version = 0 \/ call.at = version
     /\ Cardinality(IdsOf(call.sent)) = Len(ids)
     /\ IdsOf(call.sent) \subseteq {o.id : o \in officers}
     /\ \A o \in officers : o.id \in IdsOf(call.sent) \/ packages[o.id] = 0

\* New rows get their ids in the order of the list, which is echoed back.
NewUpTo(rows, i) == Cardinality({j \in 1..i : rows[j].id = 0})
WithIds(rows) ==
  [i \in DOMAIN rows |->
     IF rows[i].id # 0 THEN rows[i]
     ELSE [rows[i] EXCEPT !.id = lastId + NewUpTo(rows, i)]]

\* The answer tells the new version and the ids, that the form is stale, or
\* that the save was refused; or nothing is known of it.
SaveProfile ==
  /\ call.step = "saving"
  /\ \/ LET saved == WithIds(call.sent)
        IN /\ Accepted
           /\ officers' = Range(saved) /\ version' = version + 1
           /\ lastId' = lastId + NewUpTo(call.sent, Len(call.sent))
           /\ packages' = [n \in 1..lastId' |-> IF n <= lastId THEN packages[n] ELSE 0]
           /\ \/ call' = [call EXCEPT !.step = "saved", !.sent = saved, !.at = version + 1]
              \/ call' = Ended("failed")
     \/ /\ call' \in {Ended("failed")} \cup
             IF version > 0 /\ call.at # version THEN {Ended("stale")} ELSE {}
        /\ UNCHANGED <<serverVariables, packages>>
  /\ UNCHANGED <<pageVariables, uploads>>

\* completeFacilitiesCompanyProfile: every member has a package.
CompleteProfile ==
  /\ call.step = "completing"
  /\ \/ /\ call.at = version /\ \A o \in officers : packages[o.id] # 0
        /\ version' = version + 1
        /\ call' \in {Ended("completed"), Ended("failed")}
     \/ /\ call' = Ended(IF call.at # version THEN "stale" ELSE "failed")
        /\ UNCHANGED version
  /\ UNCHANGED <<officers, lastId, packages, pageVariables, uploads>>

\* The file is stored, or it is refused or lost.
StorePackage(u) ==
  /\ \/ packages' = [packages EXCEPT ![u.id] = u.who]
     \/ UNCHANGED packages
  /\ uploads' = uploads \ {u}
  /\ UNCHANGED <<serverVariables, pageVariables, call>>

-----------------------------------------------------------------------------
(* What the page makes of the answers.                                      *)

\* Mutant: a row keeps the id it has, and the others take the id of their place.
FillIds(rows, saved) ==
  [i \in DOMAIN rows |->
     IF rows[i].id = 0 /\ i \in DOMAIN saved
     THEN [rows[i] EXCEPT !.id = saved[i].id] ELSE rows[i]]

\* The saved ids are given to the rows "by order", whichever rows these are now.
MergeSaved(rows, saved) ==
  [i \in DOMAIN rows |->
     IF i \in DOMAIN saved THEN [rows[i] EXCEPT !.id = saved[i].id] ELSE rows[i]]

\* A save for the sake of a package shows the rows as they were saved.
SaveAnswered ==
  /\ call.step = "saved"
  /\ draft' = IF call.for = "package" THEN call.sent ELSE MergeSaved(draft, call.sent)
  /\ savedSnapshot' = call.sent
  /\ basis' = call.at
  /\ call' = IF call.for = "complete" THEN [call EXCEPT !.step = "completing"] ELSE NoCall
  /\ uploads' = IF call.for = "package"
                THEN uploads \cup Prepared(call.sent[call.row]) ELSE uploads
  /\ UNCHANGED <<serverVariables, packages, conflict, initialVersion>>

\* A stale form stops saving.  A completed profile leads to the dashboard.
CallEnds ==
  /\ call.step \in {"stale", "failed", "completed"}
  /\ conflict' = (conflict \/ call.step = "stale")
  /\ call' = IF call.step = "completed" THEN Ended("left") ELSE NoCall
  /\ UNCHANGED <<serverVariables, packages, draft, basis, savedSnapshot,
                 initialVersion, uploads>>

\* A page that is mounted or restored asks for the profile.  What arrives is
\* adopted if it is newer and nothing is unsaved.
Refresh ==
  /\ version # initialVersion
  /\ initialVersion' = version
  /\ IF version > basis
     THEN LET clean == draft = savedSnapshot
          IN /\ conflict' = ~clean
             /\ basis' = IF clean THEN version ELSE basis
             /\ \E rows \in IF clean THEN Loaded ELSE {draft} : draft' = rows
             /\ savedSnapshot' = IF clean THEN draft' ELSE savedSnapshot
     ELSE UNCHANGED <<draft, basis, savedSnapshot, conflict>>
  /\ UNCHANGED <<serverVariables, packages, call, uploads>>

\* The page is opened again: whatever was awaited is no longer heard.
Reload ==
  /\ call.step # "saving" /\ call.step # "completing"
  /\ draft' \in Loaded /\ savedSnapshot' = draft'
  /\ basis' = version /\ initialVersion' = version
  /\ conflict' = FALSE /\ call' = NoCall
  /\ UNCHANGED <<serverVariables, packages, uploads>>

-----------------------------------------------------------------------------
ProfileNext ==
  \/ \E p \in People : AddRow(p)
  \/ \E i \in DOMAIN draft : RemoveRow(i) \/ Upload(i)
  \/ \E for \in {"save", "complete", "package"}, i \in DOMAIN draft : Save(for, i)
  \/ SaveProfile \/ CompleteProfile
  \/ \E u \in uploads : StorePackage(u)
  \/ SaveAnswered \/ CallEnds \/ Refresh \/ Reload

ProfileSpec == ProfileInit /\ [][ProfileNext]_profileVars

-----------------------------------------------------------------------------
(* Properties                                                               *)

\* The page never shows two members under one id: the ids that a save hands out
\* by place do not collide with those the rows had, however the rows were moved
\* meanwhile, so no save is refused for naming a member twice and no two members
\* share a package.
MembersStayApart ==
  \A i, j \in DOMAIN draft : i # j /\ draft[i].id # 0 => draft[i].id # draft[j].id

\* What saveFacilitiesCompanyDraft says its ids are for: "retained so their
\* identity slots cannot be reassigned".  The package that is stored for a
\* member is that member's.
PackageIsOfItsMember ==
  \A o \in officers : packages[o.id] \in {0, o.who}
=============================================================================
