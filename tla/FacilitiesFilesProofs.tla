----------------------- MODULE FacilitiesFilesProofs -----------------------
(***************************************************************************)
(* What holds of FacilitiesFiles for every number of uploads, slots and    *)
(* rescans, every quota and every choice of what fails, proved.            *)
(***************************************************************************)
EXTENDS FacilitiesFiles, FiniteSetTheorems, TLAPS

(***************************************************************************)
(* Neither OneSuccessor nor OnlyOwnerRuns nor DoomedIsHidden is inductive. *)
(* What keeps them is how the statuses of the rows, the places of the runs *)
(* and the tombstones fit together.                                        *)
(***************************************************************************)
Running(u, n) == run[u][n].step \notin {"idle", "done"}

\* A request begins before there is a row, and no run begins while the row
\* belongs to nobody.
RunsFitRows ==
  \A u \in Uploads :
    /\ run[u][0].step = "idle" => upload[u].status = "ABSENT"
    /\ upload[u].status \in {"ABSENT", "UNAVAILABLE"} =>
         \A n \in Runs : ~Running(u, n)

\* A run that is to record an outcome did not pass, one that publishes did,
\* and brought a template.
StepsFitVerdicts ==
  \A u \in Uploads, n \in Runs :
    /\ run[u][n].step = "outcome" => run[u][n].verdict # "PASSED"
    /\ run[u][n].step \in {"publish", "unpublish"} =>
         SlotOf[u] \in Templates /\ upload[u].status = "PASSED"

\* What a slot or a template version names was committed, to that slot.
NamedIsPassed ==
  /\ \A s \in Slots :
       current[s] # None => /\ SlotOf[current[s]] = s
                            /\ upload[current[s]].status = "PASSED"
  /\ \A u \in published :
       SlotOf[u] \in Templates /\ upload[u].status = "PASSED"

\* The slot of a template is made for one upload.
OnePerTemplate ==
  \A u, v \in Uploads :
    /\ SlotOf[u] = SlotOf[v] /\ SlotOf[u] \in Templates
    /\ upload[u].status # "ABSENT" /\ upload[v].status # "ABSENT"
    => u = v

\* An upload replaces something that was committed, and what was committed
\* to a slot of the application has moved the slot on.
BasesArePassed ==
  \A u \in Uploads :
    /\ upload[u].base # None => upload[upload[u].base].status = "PASSED"
    /\ upload[u].status = "PASSED" /\ SlotOf[u] \notin Templates =>
         upload[u].base # current[SlotOf[u]]

\* Only what has ended is deleted.
DoomedHasEnded ==
  /\ \A u \in Uploads : tombstone[u] # "NONE" => upload[u].status \in {"PASSED", "FAILED"}
  /\ deleter.step # "idle" => /\ deleter.upload \in Uploads
                              /\ tombstone[deleter.upload] # "NONE"

RunInv == RunsFitRows /\ StepsFitVerdicts /\ OnlyOwnerRuns
RowInv == NamedIsPassed /\ OnePerTemplate /\ BasesArePassed /\ OneSuccessor
DoomInv == DoomedHasEnded /\ DoomedIsHidden

Fit == RunInv /\ RowInv /\ DoomInv

FilesInv == TypeOK /\ Fit

-----------------------------------------------------------------------------
(* Types.                                                                   *)

Places == [step : Steps, verdict : Verdicts]

LEMMA RunTyped ==
  ASSUME TypeOK, NEW u \in Uploads, NEW n \in Runs, NEW a \in Places,
         run' = [run EXCEPT ![u][n] = a]
  PROVE  run' \in [Uploads -> [Runs -> Places]]
BY DEF TypeOK, Places

LEMMA EndedIsPlace == Ended \in Places
BY DEF Ended, At, Places, Steps, Verdicts

LEMMA SettledIsPlace == \A u \in Uploads, n \in Runs : Settled(u, n) \in Places
BY DEF Settled, Ended, At, Places, Steps, Verdicts

LEMMA OnErrorIsPlace ==
  \A u \in Uploads, n \in Runs : OnError(u, n) \in Places
BY DEF OnError, Ended, At, Places, Steps, Verdicts

LEMMA RefusedTyped ==
  ASSUME TypeOK, NEW u \in Uploads, NEW n \in Runs, Refused(u, n)
  PROVE  TypeOK'
<1>1. run' \in [Uploads -> [Runs -> Places]]
  BY OnErrorIsPlace, RunTyped DEF Refused
<1>. QED  BY <1>1 DEF TypeOK, Refused, Places

LEMMA HeardTyped ==
  ASSUME TypeOK, NEW u \in Uploads, NEW n \in Runs, NEW next \in Places,
         NEW error \in Places, Heard(u, n, next, error)
  PROVE  run' \in [Uploads -> [Runs -> Places]]
<1>1. PICK a \in Places : run' = [run EXCEPT ![u][n] = a]
  BY DEF Heard
<1>. QED  BY <1>1, RunTyped

\* A row with another status is a row.
LEMMA StatusTyped ==
  ASSUME TypeOK, NEW u \in Uploads, NEW x \in Verdicts,
         upload' = [upload EXCEPT ![u].status = x]
  PROVE  upload' \in [Uploads -> Upload]
<1>1. upload[u] \in Upload
  BY DEF TypeOK
<1>2. [upload[u] EXCEPT !.status = x] \in Upload
  BY <1>1 DEF Upload
<1>. QED  BY <1>2 DEF TypeOK

LEMMA UpsertedTyped ==
  ASSUME TypeOK, NEW u \in Uploads,
         tombstone' = [tombstone EXCEPT ![u] = Upserted(@)]
  PROVE  tombstone' \in [Uploads -> {"NONE", "PENDING", "RETRY_REQUIRED",
                                     "SUCCEEDED"}]
BY DEF TypeOK, Upserted

LEMMA RequestTyped ==
  ASSUME TypeOK, NEW u \in Uploads, Request(u)
  PROVE  TypeOK'
<1>0. 0 \in Runs /\ At("stage", "PASSED") \in Places /\ Ended \in Places
  BY SizeAssumption, EndedIsPlace DEF Runs, At, Places, Steps, Verdicts
<1>1. CASE Admit(u)
  <2>1. upload' \in [Uploads -> Upload]
    BY <1>0, <1>1, SlotsAssumption DEF Admit, Absent, Upload, TypeOK
  <2>2. run' \in [Uploads -> [Runs -> Places]]
    BY <1>0, <1>1, HeardTyped DEF Admit
  <2>. QED  BY <1>1, <2>1, <2>2 DEF Admit, TypeOK, Places
<1>2. CASE Stage(u)
  <2>1. disk' \subseteq Keys
    BY <1>2, SizeAssumption DEF Stage, TypeOK, Keys, Staging
  <2>2. PICK a \in Places : run' = [run EXCEPT ![u][0] = a]
    BY <1>2 DEF Stage, At, Places, Steps
  <2>. QED  BY <1>0, <1>2, <2>1, <2>2, RunTyped DEF Stage, TypeOK, Places
<1>3. CASE Publish(u)
  <2>1. run' \in [Uploads -> [Runs -> Places]]
    BY <1>0, <1>3, OnErrorIsPlace, HeardTyped DEF Publish
  <2>. QED  BY <1>3, <2>1 DEF Publish, TypeOK, Places
<1>4. CASE PublishRefused(u)
  BY <1>0, <1>4, RefusedTyped DEF PublishRefused
<1>5. CASE Unpublish(u)
  <2>1. run' \in [Uploads -> [Runs -> Places]]
    BY <1>0, <1>5, RunTyped DEF Unpublish
  <2>2. current' \in [Slots -> Uploads \cup {None}]
    BY <1>5 DEF Unpublish, TypeOK
  <2>. QED  BY <1>5, <2>1, <2>2 DEF Unpublish, TypeOK, Places, Upserted
<1>. QED  BY <1>1, <1>2, <1>3, <1>4, <1>5 DEF Request

LEMMA ContinueTyped ==
  ASSUME TypeOK, NEW u \in Uploads, NEW n \in Runs, Continue(u, n)
  PROVE  TypeOK'
<1>0. Ended \in Places /\ OnError(u, n) \in Places /\ Settled(u, n) \in Places
  BY EndedIsPlace, OnErrorIsPlace, SettledIsPlace
<1>1. CASE Rescan(u, n)
  <2>1. PICK a \in Places : run' = [run EXCEPT ![u][n] = a]
    BY <1>1 DEF Rescan, At, Places, Steps, Verdicts
  <2>. QED  BY <1>1, <2>1, RunTyped DEF Rescan, TypeOK, Places
<1>2. CASE Link(u, n) \/ Unlink(u, n)
  <2>1. CASE Refused(u, n)
    BY <2>1, RefusedTyped
  <2>2. CASE ~Refused(u, n)
    <3>1. PICK a \in Places : run' = [run EXCEPT ![u][n] = a]
      BY <1>2, <2>2 DEF Link, Unlink, At, Places, Steps, Verdicts
    <3>2. disk' \subseteq Keys
      BY <1>2, <2>2, SizeAssumption DEF Link, Unlink, TypeOK, Keys, Ready, Runs
    <3>. QED  BY <1>2, <2>2, <3>1, <3>2, RunTyped DEF Link, Unlink, TypeOK, Places
  <2>. QED  BY <2>1, <2>2
<1>3. CASE Attach(u, n)
  <2>1. CASE Refused(u, n)
    BY <2>1, RefusedTyped
  <2>2. CASE ~Refused(u, n)
    <3>1. run[u][n].verdict \in Verdicts
      BY DEF TypeOK
    <3>2. Ready(u, n) \in Keys /\ Staging(u) \in Keys
      BY SizeAssumption DEF Keys, Ready, Staging, Runs
    <3>3. upload' \in [Uploads -> Upload]
      <4>. DEFINE passed == run[u][n].verdict = "PASSED"
                  file == IF passed THEN Ready(u, n) ELSE Staging(u)
                  scan == StoredScan(run[u][n].verdict)
      <4>1. upload[u] \in Upload
        BY DEF TypeOK
      <4>2. file \in Keys /\ scan \in {"NONE", "PENDING", "PASSED", "FAILED"}
        BY <3>1, <3>2 DEF StoredScan, Verdicts
      <4>3. upload' = [upload EXCEPT ![u].file = file, ![u].scan = scan]
        BY <1>3, <2>2 DEF Attach
      <4>. HIDE DEF passed, file, scan
      <4>4. [upload[u] EXCEPT !.file = file, !.scan = scan] \in Upload
        BY <4>1, <4>2 DEF Upload
      <4>. QED  BY <4>3, <4>4 DEF TypeOK
    <3>4. run' \in [Uploads -> [Runs -> Places]]
      BY <1>0, <1>3, <2>2, <3>1, HeardTyped DEF Attach, At, Places, Steps
    <3>. QED  BY <1>3, <2>2, <3>3, <3>4 DEF Attach, TypeOK, Places
  <2>. QED  BY <2>1, <2>2
<1>4. CASE Outcome(u, n)
  <2>1. upload' \in [Uploads -> Upload]
    <3>. DEFINE status == IF n > 0 /\ upload[u].old THEN "FAILED"
                          ELSE run[u][n].verdict
    <3>1. status \in Verdicts
      BY DEF TypeOK, Verdicts
    <3>2. upload' = upload \/ upload' = [upload EXCEPT ![u].status = status]
      BY <1>4 DEF Outcome
    <3>. QED  BY <3>1, <3>2, StatusTyped DEF TypeOK
  <2>. QED  BY <1>0, <1>4, <2>1, RunTyped DEF Outcome, TypeOK, Places
<1>5. CASE Commit(u, n)
  <2>1. CASE Refused(u, n)
    BY <2>1, RefusedTyped
  <2>2. CASE ~Refused(u, n)
    <3>1. upload' \in [Uploads -> Upload]
      <4>1. upload' = [upload EXCEPT ![u].status = "PASSED"]
        BY <1>5, <2>2 DEF Commit
      <4>. QED  BY <4>1, StatusTyped DEF Verdicts
    <3>2. current' \in [Slots -> Uploads \cup {None}]
      BY <1>5, <2>2 DEF Commit, TypeOK
    <3>3. run' \in [Uploads -> [Runs -> Places]]
      BY <1>0, <1>5, <2>2, HeardTyped DEF Commit
    <3>4. current[SlotOf[u]] \in Uploads \cup {None}
      BY SlotsAssumption DEF TypeOK
    <3>5. tombstone' \in [Uploads -> {"NONE", "PENDING", "RETRY_REQUIRED",
                                      "SUCCEEDED"}]
      BY <1>5, <2>2, <3>4, UpsertedTyped DEF Commit, TypeOK
    <3>6. UNCHANGED <<editable, published, disk, deleter, sweeper>>
      BY <1>5, <2>2 DEF Commit
    <3>. QED  BY <3>1, <3>2, <3>3, <3>5, <3>6 DEF TypeOK, Places
  <2>. QED  BY <2>1, <2>2
<1>6. CASE Fail(u, n)
  <2>1. upload' \in [Uploads -> Upload]
    BY <1>6, StatusTyped DEF Fail, TypeOK, Verdicts
  <2>2. run' \in [Uploads -> [Runs -> Places]]
    BY <1>0, <1>6, RunTyped DEF Fail
  <2>3. tombstone' \in [Uploads -> {"NONE", "PENDING", "RETRY_REQUIRED",
                                    "SUCCEEDED"}]
    BY <1>6, UpsertedTyped DEF Fail, TypeOK
  <2>4. UNCHANGED <<editable, current, published, disk, deleter, sweeper>>
    BY <1>6 DEF Fail
  <2>. QED  BY <2>1, <2>2, <2>3, <2>4 DEF TypeOK, Places
<1>. QED  BY <1>1, <1>2, <1>3, <1>4, <1>5, <1>6 DEF Continue

LEMMA RetryTyped ==
  ASSUME TypeOK, NEW u \in Uploads, NEW n \in Runs,
         ClaimRetry(u, n) \/ StepFails(u, n) \/ RunDies(u, n)
  PROVE  TypeOK'
<1>0. At("stage", "PASSED") \in Places /\ Ended \in Places
  BY EndedIsPlace DEF At, Places, Steps, Verdicts
<1>1. CASE ClaimRetry(u, n)
  <2>1. run' \in [Uploads -> [Runs -> Places]]
    <3>1. UNCHANGED run \/ Heard(u, n, At("stage", "PASSED"), Ended)
      BY <1>1 DEF ClaimRetry
    <3>. QED  BY <1>0, <3>1, HeardTyped DEF TypeOK, Places
  <2>2. upload' \in [Uploads -> Upload]
    <3>1. upload[u] \in Upload
      BY DEF TypeOK
    <3>2. [upload[u] EXCEPT !.status = "PENDING", !.token = n] \in Upload
      BY <3>1 DEF Upload
    <3>3. \/ upload' = [upload EXCEPT ![u].status = "FAILED"]
          \/ upload' = [upload EXCEPT ![u].status = "PENDING", ![u].token = n]
      BY <1>1 DEF ClaimRetry
    <3>. QED  BY <3>2, <3>3, StatusTyped DEF TypeOK, Verdicts
  <2>. QED  BY <1>1, <2>1, <2>2 DEF ClaimRetry, TypeOK, Places
<1>2. CASE StepFails(u, n)
  BY <1>2, RefusedTyped DEF StepFails
<1>3. CASE RunDies(u, n)
  BY <1>0, <1>3, RunTyped DEF RunDies, TypeOK, Places
<1>. QED  BY <1>1, <1>2, <1>3

LEMMA JobTyped ==
  ASSUME TypeOK, NEW u \in Uploads,
         Expire(u) \/ Schedule(u) \/ DeleteBegin(u) \/ Age(u)
  PROVE  TypeOK'
<1>1. CASE Expire(u)
  BY <1>1, StatusTyped DEF Expire, TypeOK, Verdicts
<1>2. CASE Schedule(u)
  BY <1>2 DEF Schedule, TypeOK
<1>3. CASE DeleteBegin(u)
  <2>1. upload[u].file \in Keys \cup {None}
    BY DEF TypeOK, Upload
  <2>. QED  BY <1>3, <2>1 DEF DeleteBegin, TypeOK
<1>4. CASE Age(u)
  <2>1. upload[u] \in Upload
    BY DEF TypeOK
  <2>2. [upload[u] EXCEPT !.old = TRUE] \in Upload
    BY <2>1 DEF Upload
  <2>. QED  BY <1>4, <2>2 DEF Age, TypeOK
<1>. QED  BY <1>1, <1>2, <1>3, <1>4

LEMMA DeletionTyped ==
  ASSUME TypeOK, DeleteRemove \/ DeleteCommit \/ DeleteRetry \/ DeleteFails
  PROVE  TypeOK'
<1>0. Idle \in [step : {"idle"}, upload : {None}, key : {None}]
  BY DEF Idle
<1>1. CASE DeleteRemove
  BY <1>1 DEF DeleteRemove, TypeOK
<1>2. CASE DeleteCommit
  <2>. DEFINE u == deleter.upload
  <2>1. upload' \in [Uploads -> Upload]
    <3>1. upload' = [upload EXCEPT ![u].file = None, ![u].scan = "NONE"]
      BY <1>2 DEF DeleteCommit
    <3>2. CASE u \in Uploads
      <4>1. upload[u] \in Upload
        BY <3>2 DEF TypeOK
      <4>2. [upload[u] EXCEPT !.file = None, !.scan = "NONE"] \in Upload
        BY <4>1 DEF Upload
      <4>. QED  BY <3>1, <4>2 DEF TypeOK
    <3>3. CASE u \notin Uploads
      BY <3>1, <3>3 DEF TypeOK
    <3>. QED  BY <3>2, <3>3
  <2>2. tombstone' = [tombstone EXCEPT ![u] = "SUCCEEDED"]
    BY <1>2 DEF DeleteCommit
  <2>3. deleter' = Idle \/ deleter' = [deleter EXCEPT !.step = "retry"]
    BY <1>2 DEF DeleteCommit
  <2>4. UNCHANGED <<editable, current, published, disk, run, sweeper>>
    BY <1>2 DEF DeleteCommit
  <2>. QED  BY <1>0, <2>1, <2>2, <2>3, <2>4 DEF TypeOK
<1>3. CASE DeleteRetry
  BY <1>0, <1>3 DEF DeleteRetry, TypeOK
<1>4. CASE DeleteFails
  BY <1>0, <1>4 DEF DeleteFails, TypeOK
<1>. QED  BY <1>1, <1>2, <1>3, <1>4

LEMMA SweepTyped ==
  ASSUME TypeOK,
         \/ \E listed \in SUBSET disk : SweepList(listed)
         \/ SweepLock \/ SweepFails
         \/ \E k \in sweeper.keys : SweepRemove(k)
  PROVE  TypeOK'
<1>0. Resting \in [step : {"idle"}, keys : {{}}]
  BY DEF Resting
<1>1. CASE \E listed \in SUBSET disk : SweepList(listed)
  BY <1>1 DEF SweepList, TypeOK
<1>2. CASE SweepLock
  BY <1>0, <1>2 DEF SweepLock, TypeOK
<1>3. CASE SweepFails
  BY <1>0, <1>3 DEF SweepFails, TypeOK
<1>4. CASE \E k \in sweeper.keys : SweepRemove(k)
  BY <1>0, <1>4 DEF SweepRemove, TypeOK
<1>. QED  BY <1>1, <1>2, <1>3, <1>4

LEMMA TypeStep == TypeOK /\ [Next]_vars => TypeOK'
<1>. SUFFICES ASSUME TypeOK, [Next]_vars PROVE TypeOK'
  OBVIOUS
<1>1. CASE UNCHANGED vars
  BY <1>1 DEF vars, TypeOK
<1>2. CASE Submit \/ Return
  BY <1>2 DEF Submit, Return, TypeOK
<1>. QED
  BY <1>1, <1>2, RequestTyped, ContinueTyped, RetryTyped, JobTyped, DeletionTyped,
     SweepTyped DEF Next

LEMMA TypeInit == Init => TypeOK
<1>. SUFFICES ASSUME Init PROVE TypeOK
  OBVIOUS
<1>1. Absent \in Upload
  BY SizeAssumption DEF Absent, Upload, Runs, Verdicts
<1>2. At("idle", "PASSED") \in Places
  BY DEF At, Places, Steps, Verdicts
<1>. QED
  BY <1>1, <1>2 DEF Init, TypeOK, Places, Idle, Resting

\* Every row, run and job keeps its type: storeOwnedFacilitiesFile and the
\* jobs of the maintenance write no state the schema does not know.
THEOREM FilesTypeCorrect == Spec => []TypeOK
  BY TypeInit, TypeStep, PTL DEF Spec

-----------------------------------------------------------------------------
(* How steps change rows and runs.  SameRow leaves out what FilesInv does   *)
(* not look at: the file of an upload and its age.                          *)

SameRow(u) == /\ upload'[u].status = upload[u].status
              /\ upload'[u].base = upload[u].base
              /\ upload'[u].token = upload[u].token

SameOthers(u) == \A v \in Uploads \ {u} : SameRow(v)
SameRows == \A v \in Uploads : SameRow(v)

LEMMA StatusSet ==
  ASSUME TypeOK, NEW u \in Uploads, NEW x,
         upload' = [upload EXCEPT ![u].status = x]
  PROVE  /\ upload'[u].status = x
         /\ upload'[u].base = upload[u].base /\ upload'[u].token = upload[u].token
         /\ SameOthers(u)
BY DEF TypeOK, Upload, SameOthers, SameRow

\* What a run may do next while its row keeps its status.
Follows(u, n, a) ==
  /\ run' = [run EXCEPT ![u][n] = a]
  /\ a \in Places /\ a.step # "idle"
  /\ a.step = "outcome" => a.verdict # "PASSED"
  /\ a.step \in {"publish", "unpublish"} =>
       SlotOf[u] \in Templates /\ upload'[u].status = "PASSED"

LEMMA MoveKeepsRuns ==
  ASSUME TypeOK, RunInv, NEW u \in Uploads, NEW n \in Runs, NEW a,
         Follows(u, n, a), Running(u, n), SameRows
  PROVE  RunInv'
<1>0. 0 \in Runs
  BY SizeAssumption DEF Runs
<1>1. /\ run'[u][n] = a
      /\ \A v \in Uploads, m \in Runs :
           v # u \/ m # n => run'[v][m] = run[v][m]
  BY DEF Follows, TypeOK
<1>2. RunsFitRows'
  BY <1>0, <1>1 DEF RunsFitRows, RunInv, Follows, Running, SameRows, SameRow
<1>3. StepsFitVerdicts'
  BY <1>1 DEF StepsFitVerdicts, RunInv, Follows, SameRows, SameRow
<1>4. OnlyOwnerRuns'
  BY <1>1 DEF OnlyOwnerRuns, RunInv, Follows, Running, SameRows, SameRow
<1>. QED  BY <1>2, <1>3, <1>4 DEF RunInv

LEMMA StandingRuns ==
  ASSUME TypeOK, RunInv, UNCHANGED run, SameRows
  PROVE  RunInv'
<1>1. RunsFitRows'
  BY DEF RunsFitRows, RunInv, Running, SameRows, SameRow
<1>2. StepsFitVerdicts'
  BY DEF StepsFitVerdicts, RunInv, SameRows, SameRow
<1>3. OnlyOwnerRuns'
  BY DEF OnlyOwnerRuns, RunInv, SameRows, SameRow
<1>. QED  BY <1>1, <1>2, <1>3 DEF RunInv

LEMMA SameKeepsRows ==
  ASSUME TypeOK, RowInv, SameRows, UNCHANGED <<current, published>>
  PROVE  RowInv'
<1>1. NamedIsPassed'
  <2>1. \A s \in Slots : current[s] # None => current[s] \in Uploads
    BY DEF TypeOK
  <2>2. published \subseteq Uploads
    BY DEF TypeOK
  <2>. QED  BY <2>1, <2>2 DEF NamedIsPassed, RowInv, SameRows, SameRow
<1>2. OnePerTemplate'
  BY DEF OnePerTemplate, RowInv, SameRows, SameRow
<1>3. BasesArePassed'
  <2>1. \A v \in Uploads : upload[v].base # None => upload[v].base \in Uploads
    BY DEF TypeOK, Upload
  <2>. QED  BY <2>1 DEF BasesArePassed, RowInv, SameRows, SameRow
<1>4. OneSuccessor'
  BY DEF OneSuccessor, RowInv, SameRows, SameRow
<1>. QED  BY <1>1, <1>2, <1>3, <1>4 DEF RowInv

\* A row that is neither absent nor passed, before nor after.
LEMMA ActiveKeepsRows ==
  ASSUME TypeOK, RowInv, NEW u \in Uploads, SameOthers(u),
         upload[u].status \in Active,
         upload'[u].status \in {"PENDING", "UNAVAILABLE", "FAILED"},
         upload'[u].base = upload[u].base,
         UNCHANGED <<current, published>>
  PROVE  RowInv'
<1>1. NamedIsPassed'
  <2>1. \A s \in Slots : current[s] # None => current[s] \in Uploads
    BY DEF TypeOK
  <2>2. published \subseteq Uploads
    BY DEF TypeOK
  <2>. QED  BY <2>1, <2>2 DEF NamedIsPassed, RowInv, SameOthers, SameRow, Active
<1>2. OnePerTemplate'
  BY DEF OnePerTemplate, RowInv, SameOthers, SameRow, Active
<1>3. BasesArePassed'
  <2>1. \A v \in Uploads : upload[v].base # None => upload[v].base \in Uploads
    BY DEF TypeOK, Upload
  <2>. QED  BY <2>1 DEF BasesArePassed, RowInv, SameOthers, SameRow, Active
<1>4. OneSuccessor'
  BY DEF OneSuccessor, RowInv, SameOthers, SameRow, Active
<1>. QED  BY <1>1, <1>2, <1>3, <1>4 DEF RowInv

LEMMA SameKeepsDoom ==
  ASSUME TypeOK, DoomInv, SameRows,
         UNCHANGED <<current, published, tombstone, deleter>>
  PROVE  DoomInv'
<1>1. DoomedHasEnded'
  BY DEF DoomedHasEnded, DoomInv, SameRows, SameRow
<1>2. DoomedIsHidden'
  BY DEF DoomedIsHidden, DoomInv, Shown
<1>. QED  BY <1>1, <1>2 DEF DoomInv

LEMMA ActiveKeepsDoom ==
  ASSUME TypeOK, DoomInv, NEW u \in Uploads, SameOthers(u),
         upload[u].status \in Active,
         UNCHANGED <<current, published, tombstone, deleter>>
  PROVE  DoomInv'
<1>1. DoomedHasEnded'
  BY DEF DoomedHasEnded, DoomInv, SameOthers, SameRow, Active
<1>2. DoomedIsHidden'
  BY DEF DoomedIsHidden, DoomInv, Shown
<1>. QED  BY <1>1, <1>2 DEF DoomInv

-----------------------------------------------------------------------------
(* Every step keeps Fit.                                                    *)

LEMMA MoveStep ==
  ASSUME FilesInv, NEW u \in Uploads, NEW n \in Runs, NEW a,
         Follows(u, n, a), Running(u, n), SameRows,
         UNCHANGED <<current, published, tombstone, deleter>>
  PROVE  Fit'
BY MoveKeepsRuns, SameKeepsRows, SameKeepsDoom DEF FilesInv, Fit

LEMMA EndFollows ==
  ASSUME NEW u \in Uploads, NEW n \in Runs,
         run' = [run EXCEPT ![u][n] = Ended]
  PROVE  Follows(u, n, Ended)
BY EndedIsPlace DEF Follows, Ended, At

LEMMA RefusedStep ==
  ASSUME FilesInv, NEW u \in Uploads, NEW n \in Runs,
         Running(u, n), Refused(u, n)
  PROVE  Fit'
<1>1. SameRows
  BY DEF Refused, SameRows, SameRow
<1>2. Follows(u, n, OnError(u, n))
  <2>1. run[u][n].step = "publish" =>
          SlotOf[u] \in Templates /\ upload'[u].status = "PASSED"
    BY DEF FilesInv, Fit, RunInv, StepsFitVerdicts, Refused
  <2>2. run' = [run EXCEPT ![u][n] = OnError(u, n)]
    BY DEF Refused
  <2>. QED  BY <2>1, <2>2, OnErrorIsPlace DEF Follows, OnError, Ended, At
<1>. QED  BY <1>1, <1>2, MoveStep DEF Refused

\* The row passes to a status that is not PASSED, and the run that does it,
\* its owner, ends.
LEMMA OwnerEnds ==
  ASSUME FilesInv, NEW u \in Uploads, NEW n \in Runs, Owns(u, n), Running(u, n),
         run' = [run EXCEPT ![u][n] = Ended],
         NEW x \in {"UNAVAILABLE", "FAILED"},
         upload' = [upload EXCEPT ![u].status = x]
  PROVE  RunInv'
<1>0. 0 \in Runs
  BY SizeAssumption DEF Runs
<1>1. upload'[u].status = x /\ SameOthers(u)
  BY StatusSet DEF FilesInv
<1>2. /\ run'[u][n] = Ended
      /\ \A v \in Uploads, m \in Runs :
           v # u \/ m # n => run'[v][m] = run[v][m]
  BY DEF FilesInv, TypeOK
<1>3. \A m \in Runs : ~Running(u, m)'
  BY <1>2 DEF Owns, FilesInv, Fit, RunInv, OnlyOwnerRuns, Running, Ended, At
<1>4. RunsFitRows'
  <2>1. run'[u][0].step # "idle"
    BY <1>0, <1>2 DEF Owns, FilesInv, Fit, RunInv, RunsFitRows, Ended, At
  <2>. QED
    BY <1>0, <1>1, <1>2, <1>3, <2>1
    DEF FilesInv, Fit, RunInv, RunsFitRows, Running, SameOthers, SameRow
<1>5. StepsFitVerdicts'
  BY <1>1, <1>2, <1>3
  DEF FilesInv, Fit, RunInv, StepsFitVerdicts, Running, SameOthers, SameRow
<1>6. OnlyOwnerRuns'
  BY <1>1, <1>2
  DEF FilesInv, Fit, RunInv, OnlyOwnerRuns, SameOthers, SameRow
<1>. QED  BY <1>4, <1>5, <1>6 DEF RunInv

\* A run starts for a row that nobody works on, and the row takes its token.
LEMMA RunStarts ==
  ASSUME FilesInv, NEW u \in Uploads, NEW n \in Runs,
         upload[u].status \in {"ABSENT", "UNAVAILABLE"},
         n = 0 \/ upload[u].status = "UNAVAILABLE",
         Heard(u, n, At("stage", "PASSED"), Ended), SameOthers(u),
         upload'[u].status = "PENDING", upload'[u].token = n
  PROVE  RunInv'
<1>0. 0 \in Runs
  BY SizeAssumption DEF Runs
<1>1. PICK a \in {At("stage", "PASSED"), Ended} : run' = [run EXCEPT ![u][n] = a]
  BY DEF Heard
<1>2. /\ run'[u][n] = a
      /\ \A v \in Uploads, m \in Runs :
           v # u \/ m # n => run'[v][m] = run[v][m]
  BY <1>1 DEF FilesInv, TypeOK
<1>3. \A m \in Runs : ~Running(u, m)
  BY DEF FilesInv, Fit, RunInv, RunsFitRows
<1>4. RunsFitRows'
  <2>1. run'[u][0].step # "idle"
    BY <1>0, <1>2 DEF FilesInv, Fit, RunInv, RunsFitRows, Ended, At
  <2>. QED
    BY <1>0, <1>2, <2>1
    DEF FilesInv, Fit, RunInv, RunsFitRows, Running, SameOthers, SameRow
<1>5. StepsFitVerdicts'
  BY <1>2, <1>3
  DEF FilesInv, Fit, RunInv, StepsFitVerdicts, Running, SameOthers, SameRow, Ended, At
<1>6. OnlyOwnerRuns'
  BY <1>2, <1>3
  DEF FilesInv, Fit, RunInv, OnlyOwnerRuns, Running, SameOthers, SameRow
<1>. QED  BY <1>4, <1>5, <1>6 DEF RunInv

LEMMA AdmitStep ==
  ASSUME FilesInv, NEW u \in Uploads, Admit(u)
  PROVE  Fit'
<1>. DEFINE s == SlotOf[u]
<1>0. 0 \in Runs /\ s \in Slots
  BY SizeAssumption, SlotsAssumption DEF Runs
<1>1. upload[u].status = "ABSENT"
  BY DEF Admit, FilesInv, Fit, RunInv, RunsFitRows
<1>2. /\ upload'[u].status = "PENDING" /\ upload'[u].token = 0
      /\ upload'[u].base = current[s]
      /\ SameOthers(u)
  BY DEF Admit, Absent, FilesInv, TypeOK, SameOthers, SameRow
<1>3. UNCHANGED <<current, published, tombstone, deleter>>
  BY DEF Admit
<1>4. RunInv'
  BY <1>0, <1>1, <1>2, RunStarts DEF Admit
<1>5. NamedIsPassed /\ OnePerTemplate /\ BasesArePassed /\ OneSuccessor
  BY DEF FilesInv, Fit, RowInv
<1>6. /\ \A t \in Slots : current[t] # None => current[t] \in Uploads
      /\ published \subseteq Uploads
      /\ \A v \in Uploads : upload[v].base # None => upload[v].base \in Uploads
  BY DEF FilesInv, TypeOK, Upload
<1>7. RowInv'
  <2>1. NamedIsPassed'
    BY <1>1, <1>2, <1>3, <1>5, <1>6 DEF NamedIsPassed, SameOthers, SameRow
  <2>2. OnePerTemplate'
    <3>1. s \in Templates =>
            \A v \in Uploads : SlotOf[v] = s => upload[v].status = "ABSENT"
      BY DEF Admit
    <3>. QED
      BY <1>2, <1>5, <3>1 DEF OnePerTemplate, SameOthers, SameRow
  <2>3. BasesArePassed'
    <3>1. current[s] # None => upload[current[s]].status = "PASSED"
      BY <1>0, <1>5 DEF NamedIsPassed
    <3>. QED
      BY <1>0, <1>1, <1>2, <1>3, <1>5, <1>6, <3>1
      DEF BasesArePassed, SameOthers, SameRow
  <2>4. OneSuccessor'
    BY <1>1, <1>2, <1>5 DEF OneSuccessor, SameOthers, SameRow
  <2>. QED  BY <2>1, <2>2, <2>3, <2>4 DEF RowInv
<1>8. DoomInv'
  <2>1. DoomedHasEnded'
    BY <1>1, <1>2, <1>3
    DEF FilesInv, Fit, DoomInv, DoomedHasEnded, SameOthers, SameRow
  <2>2. DoomedIsHidden'
    BY <1>3 DEF FilesInv, Fit, DoomInv, DoomedIsHidden, Shown
  <2>. QED  BY <2>1, <2>2 DEF DoomInv
<1>. QED  BY <1>4, <1>7, <1>8 DEF Fit

\* A row that was on its way or in quarantine goes on or ends, and keeps its
\* base: only the runs need a look.
LEMMA ActiveStep ==
  ASSUME FilesInv, RunInv', NEW u \in Uploads, SameOthers(u),
         upload[u].status \in Active,
         upload'[u].status \in {"PENDING", "UNAVAILABLE", "FAILED"},
         upload'[u].base = upload[u].base,
         UNCHANGED <<current, published, tombstone, deleter>>
  PROVE  Fit'
BY ActiveKeepsRows, ActiveKeepsDoom DEF FilesInv, Fit

\* An upload expires, by the job or by the claim of a retry: its runs stay
\* where they are and find out when they write.
LEMMA ExpiredStep ==
  ASSUME FilesInv, NEW u \in Uploads, upload[u].status \in Active,
         upload' = [upload EXCEPT ![u].status = "FAILED"],
         UNCHANGED <<run, current, published, tombstone, deleter>>
  PROVE  Fit'
<1>1. /\ upload'[u].status = "FAILED" /\ upload'[u].base = upload[u].base
      /\ SameOthers(u)
  BY StatusSet DEF FilesInv
<1>2. RunsFitRows'
  BY <1>1 DEF FilesInv, Fit, RunInv, RunsFitRows, Running, SameOthers, SameRow, Active
<1>3. StepsFitVerdicts'
  BY <1>1 DEF FilesInv, Fit, RunInv, StepsFitVerdicts, SameOthers, SameRow, Active
<1>4. OnlyOwnerRuns'
  BY <1>1 DEF FilesInv, Fit, RunInv, OnlyOwnerRuns, SameOthers, SameRow
<1>. QED  BY <1>1, <1>2, <1>3, <1>4, ActiveStep DEF RunInv

LEMMA ClaimRetryStep ==
  ASSUME FilesInv, NEW u \in Uploads, NEW n \in Runs, ClaimRetry(u, n)
  PROVE  Fit'
<1>1. upload[u].status = "UNAVAILABLE" /\ UNCHANGED <<current, published, tombstone, deleter>>
  BY DEF ClaimRetry
<1>2. CASE UNCHANGED run /\ upload' = [upload EXCEPT ![u].status = "FAILED"]
  BY <1>1, <1>2, ExpiredStep DEF Active
<1>3. CASE /\ Heard(u, n, At("stage", "PASSED"), Ended)
           /\ upload' = [upload EXCEPT ![u].status = "PENDING", ![u].token = n]
  <2>1. /\ upload'[u].status = "PENDING" /\ upload'[u].token = n
        /\ upload'[u].base = upload[u].base
        /\ SameOthers(u)
    BY <1>3 DEF FilesInv, TypeOK, Upload, SameOthers, SameRow
  <2>2. RunInv'
    BY <1>1, <1>3, <2>1, RunStarts
  <2>. QED  BY <1>1, <2>1, <2>2, ActiveStep DEF Active
<1>. QED  BY <1>2, <1>3 DEF ClaimRetry

LEMMA AttachStep ==
  ASSUME FilesInv, NEW u \in Uploads, NEW n \in Runs, Attach(u, n)
  PROVE  Fit'
<1>0. Running(u, n)
  BY DEF Attach, Running
<1>1. CASE Refused(u, n)
  BY <1>0, <1>1, RefusedStep
<1>2. CASE ~Refused(u, n)
  <2>. DEFINE verdict == run[u][n].verdict
              next == At(IF verdict = "PASSED" THEN "commit" ELSE "outcome", verdict)
  <2>1. SameRows
    BY <1>2 DEF Attach, FilesInv, TypeOK, Upload, SameRows, SameRow
  <2>2. PICK a \in {next, OnError(u, n)} : run' = [run EXCEPT ![u][n] = a]
    BY <1>2 DEF Attach, Heard
  <2>3. verdict \in Verdicts
    BY DEF FilesInv, TypeOK
  <2>4. OnError(u, n) \in {Ended, At("fail", "FAILED")}
    BY DEF Attach, OnError
  <2>5. Follows(u, n, a)
    BY <2>2, <2>3, <2>4 DEF Follows, At, Ended, Places, Steps, Verdicts
  <2>. QED  BY <1>0, <1>2, <2>1, <2>5, MoveStep DEF Attach
<1>. QED  BY <1>1, <1>2

LEMMA OutcomeStep ==
  ASSUME FilesInv, NEW u \in Uploads, NEW n \in Runs, Outcome(u, n)
  PROVE  Fit'
<1>0. Running(u, n) /\ run' = [run EXCEPT ![u][n] = Ended]
  BY DEF Outcome, Running
<1>1. UNCHANGED <<current, published, tombstone, deleter>>
  BY DEF Outcome
<1>2. CASE ~Owns(u, n)
  <2>1. SameRows
    BY <1>2 DEF Outcome, SameRows, SameRow
  <2>. QED  BY <1>0, <1>1, <2>1, EndFollows, MoveStep
<1>3. CASE Owns(u, n)
  <2>. DEFINE status == IF n > 0 /\ upload[u].old THEN "FAILED"
                        ELSE run[u][n].verdict
  <2>1. upload' = [upload EXCEPT ![u].status = status]
    BY <1>3 DEF Outcome
  <2>2. run[u][n].verdict \in Verdicts /\ run[u][n].verdict # "PASSED"
    BY DEF Outcome, FilesInv, TypeOK, Fit, RunInv, StepsFitVerdicts
  <2>3. status \in {"UNAVAILABLE", "FAILED"}
    BY <2>2 DEF Verdicts
  <2>. HIDE DEF status
  <2>4. RunInv'
    BY <1>0, <1>3, <2>1, <2>3, OwnerEnds
  <2>5. /\ upload'[u].status = status /\ upload'[u].base = upload[u].base
        /\ SameOthers(u)
    BY <2>1, StatusSet DEF FilesInv
  <2>. QED  BY <1>1, <1>3, <2>3, <2>4, <2>5, ActiveStep DEF Owns, Active
<1>. QED  BY <1>2, <1>3

LEMMA CommitStep ==
  ASSUME FilesInv, NEW u \in Uploads, NEW n \in Runs, Commit(u, n)
  PROVE  Fit'
<1>. DEFINE s == SlotOf[u]
            old == current[s]
<1>0. Running(u, n) /\ s \in Slots
  BY SlotsAssumption DEF Commit, Running
<1>1. CASE Refused(u, n)
  BY <1>0, <1>1, RefusedStep
<1>2. CASE ~Refused(u, n)
  <2>1. upload[u].status = "PENDING" /\ upload[u].base = old
    BY <1>2 DEF Commit, Owns, Admissible
  <2>2. /\ upload'[u].status = "PASSED" /\ upload'[u].base = old
        /\ SameOthers(u)
    <3>1. upload' = [upload EXCEPT ![u].status = "PASSED"]
      BY <1>2 DEF Commit
    <3>. QED  BY <2>1, <3>1, StatusSet DEF FilesInv
  <2>3. /\ current' \in [Slots -> Uploads \cup {None}]
        /\ current'[s] = u
        /\ \A t \in Slots \ {s} : current'[t] = current[t]
    <3>1. current' = [current EXCEPT ![s] = u]
      BY <1>2 DEF Commit
    <3>. QED  BY <1>0, <3>1 DEF FilesInv, TypeOK
  <2>4. published' = published /\ deleter' = deleter
    BY <1>2 DEF Commit
  <2>5. NamedIsPassed /\ OnePerTemplate /\ BasesArePassed /\ OneSuccessor
    BY DEF FilesInv, Fit, RowInv
  <2>6. /\ \A t \in Slots : current[t] # None => current[t] \in Uploads
        /\ published \subseteq Uploads
        /\ \A v \in Uploads : upload[v].base # None => upload[v].base \in Uploads
    BY DEF FilesInv, TypeOK, Upload
  <2>7. u # None
    BY NoneIsFresh
  <2>8. RunInv'
    <3>1. PICK a \in {Settled(u, n), OnError(u, n)} : run' = [run EXCEPT ![u][n] = a]
      BY <1>2 DEF Commit, Heard
    <3>2. /\ run'[u][n] = a
          /\ \A v \in Uploads, m \in Runs :
               v # u \/ m # n => run'[v][m] = run[v][m]
      BY <3>1 DEF FilesInv, TypeOK
    <3>3. \/ a.step \in {"done", "fail"}
          \/ a.step = "publish" /\ s \in Templates
      BY <1>2, <3>1 DEF Commit, Settled, OnError, Ended, At
    <3>4. 0 \in Runs
      BY SizeAssumption DEF Runs
    <3>5. RunsFitRows'
      <4>1. run'[u][0].step # "idle"
        BY <2>1, <3>2, <3>3, <3>4 DEF FilesInv, Fit, RunInv, RunsFitRows
      <4>. QED
        BY <2>2, <3>2, <3>4, <4>1
        DEF FilesInv, Fit, RunInv, RunsFitRows, Running, SameOthers, SameRow
    <3>6. StepsFitVerdicts'
      BY <2>1, <2>2, <3>2, <3>3
      DEF FilesInv, Fit, RunInv, StepsFitVerdicts, SameOthers, SameRow
    <3>7. OnlyOwnerRuns'
      BY <2>2, <3>2 DEF FilesInv, Fit, RunInv, OnlyOwnerRuns, SameOthers, SameRow
    <3>. QED  BY <3>5, <3>6, <3>7 DEF RunInv
  <2>9. RowInv'
    <3>1. NamedIsPassed'
      BY <2>2, <2>3, <2>4, <2>5, <2>6, <2>7 DEF NamedIsPassed, SameOthers, SameRow
    <3>2. OnePerTemplate'
      BY <2>1, <2>2, <2>5 DEF OnePerTemplate, SameOthers, SameRow
    <3>3. BasesArePassed'
      <4>1. \A v \in Uploads : /\ upload'[v].base = upload[v].base
                              /\ upload[v].base # u
        BY <2>1, <2>2, <2>5, <2>7 DEF BasesArePassed, SameOthers, SameRow
      <4>2. \A v \in Uploads : upload[v].status = "PASSED" => upload'[v].status = "PASSED"
        BY <2>2 DEF SameOthers, SameRow
      <4>3. \A v \in Uploads :
              upload'[v].base # None => upload'[upload'[v].base].status = "PASSED"
        BY <2>5, <2>6, <4>1, <4>2 DEF BasesArePassed
      <4>4. \A v \in Uploads :
              upload'[v].status = "PASSED" /\ SlotOf[v] \notin Templates =>
                upload'[v].base # current'[SlotOf[v]]
        <5>1. \A v \in Uploads : SlotOf[v] \in Slots
          BY SlotsAssumption
        <5>. QED
          BY <2>2, <2>3, <2>5, <4>1, <5>1 DEF BasesArePassed, SameOthers, SameRow
      <4>. QED  BY <4>3, <4>4 DEF BasesArePassed
    <3>4. OneSuccessor'
      <4>1. \A v \in Uploads \ {u} :
              upload[v].status = "PASSED" /\ SlotOf[v] = s => upload[v].base # old
        BY <2>1, <2>5 DEF BasesArePassed, OnePerTemplate
      <4>. QED
        BY <2>2, <2>5, <4>1 DEF OneSuccessor, SameOthers, SameRow
    <3>. QED  BY <3>1, <3>2, <3>3, <3>4 DEF RowInv
  <2>10. DoomInv'
    <3>1. /\ old = None => tombstone' = tombstone
          /\ old # None => tombstone' = [tombstone EXCEPT ![old] = Upserted(@)]
      BY <1>2 DEF Commit
    <3>2. old # None => /\ old \in Uploads \ {u} /\ SlotOf[old] = s
                        /\ upload[old].status = "PASSED"
      BY <1>0, <2>1, <2>5, <2>6 DEF NamedIsPassed
    <3>3. \A v \in Uploads : v # old => tombstone'[v] = tombstone[v]
      BY <3>1, <3>2 DEF FilesInv, TypeOK
    <3>4. \A v \in Uploads : tombstone[v] # "NONE" => tombstone'[v] # "NONE"
      BY <3>1, <3>2, <3>3 DEF FilesInv, TypeOK, Upserted
    <3>5. DoomedHasEnded /\ DoomedIsHidden
      BY DEF FilesInv, Fit, DoomInv
    <3>6. DoomedHasEnded'
      <4>1. \A v \in Uploads :
              tombstone'[v] # "NONE" => upload'[v].status \in {"PASSED", "FAILED"}
        <5>1. \A v \in Uploads :
                tombstone'[v] # "NONE" => upload[v].status \in {"PASSED", "FAILED"}
          BY <3>2, <3>3, <3>5, NoneIsFresh DEF DoomedHasEnded
        <5>. QED  BY <2>2, <5>1 DEF SameOthers, SameRow
      <4>2. deleter.step # "idle" => /\ deleter.upload \in Uploads
                                     /\ tombstone'[deleter.upload] # "NONE"
        BY <3>4, <3>5 DEF DoomedHasEnded
      <4>. QED  BY <2>4, <4>1, <4>2 DEF DoomedHasEnded
    <3>7. u \notin published /\ tombstone[u] = "NONE"
      BY <2>1, <2>5, <3>5 DEF NamedIsPassed, DoomedHasEnded
    <3>8. old \in Uploads => old \notin Shown'
      <4>. SUFFICES ASSUME old \in Uploads PROVE old \notin Shown'
        OBVIOUS
      <4>1. old # None
        BY NoneIsFresh
      <4>2. \A t \in Slots : current'[t] # old
        BY <2>3, <2>5, <3>2, <4>1 DEF NamedIsPassed
      <4>3. old \notin published
        BY <2>1, <2>5, <3>2, <4>1 DEF NamedIsPassed, OnePerTemplate
      <4>. QED  BY <2>4, <4>2, <4>3 DEF Shown
    <3>9. Shown' \subseteq Shown \cup {u}
      BY <2>3, <2>4 DEF Shown
    <3>10. DoomedIsHidden'
      BY <3>1, <3>3, <3>5, <3>7, <3>8, <3>9, <3>2 DEF DoomedIsHidden
    <3>. QED  BY <3>6, <3>10 DEF DoomInv
  <2>. QED  BY <2>8, <2>9, <2>10 DEF Fit
<1>. QED  BY <1>1, <1>2

LEMMA FailStep ==
  ASSUME FilesInv, NEW u \in Uploads, NEW n \in Runs, Fail(u, n)
  PROVE  Fit'
<1>0. Running(u, n) /\ UNCHANGED <<current, published, deleter>>
  BY DEF Fail, Running
<1>1. CASE upload[u].status = "PASSED"
  <2>1. SameRows /\ tombstone' = tombstone
    BY <1>1 DEF Fail, SameRows, SameRow
  <2>2. Follows(u, n, Settled(u, n))
    BY <1>1, SettledIsPlace DEF Fail, Follows, Settled, Ended, At
  <2>. QED  BY <1>0, <2>1, <2>2, MoveStep
<1>2. CASE upload[u].status # "PASSED" /\ ~Owns(u, n)
  <2>1. SameRows /\ tombstone' = tombstone
    BY <1>2 DEF Fail, SameRows, SameRow
  <2>2. Follows(u, n, Ended)
    BY <1>2, EndFollows DEF Fail
  <2>. QED  BY <1>0, <2>1, <2>2, MoveStep
<1>3. CASE upload[u].status # "PASSED" /\ Owns(u, n)
  <2>1. /\ upload' = [upload EXCEPT ![u].status = "FAILED"]
        /\ run' = [run EXCEPT ![u][n] = Ended]
        /\ tombstone' \in {tombstone, [tombstone EXCEPT ![u] = Upserted(@)]}
    BY <1>3 DEF Fail
  <2>2. RunInv'
    BY <1>0, <1>3, <2>1, OwnerEnds
  <2>3. /\ upload'[u].status = "FAILED" /\ upload'[u].base = upload[u].base
        /\ SameOthers(u)
    BY <2>1, StatusSet DEF FilesInv
  <2>4. RowInv'
    BY <1>0, <1>3, <2>3, ActiveKeepsRows DEF FilesInv, Fit, Owns, Active
  <2>5. /\ \A v \in Uploads \ {u} : tombstone'[v] = tombstone[v]
        /\ tombstone[u] # "NONE" => tombstone'[u] # "NONE"
    BY <2>1 DEF FilesInv, TypeOK, Upserted
  <2>6. DoomedHasEnded'
    BY <1>0, <2>3, <2>5 DEF FilesInv, Fit, DoomInv, DoomedHasEnded, SameOthers, SameRow
  <2>7. u \notin Shown
    BY <1>3 DEF FilesInv, Fit, RowInv, NamedIsPassed, Shown
  <2>8. DoomedIsHidden'
    BY <1>0, <2>5, <2>7 DEF FilesInv, Fit, DoomInv, DoomedIsHidden, Shown
  <2>. QED  BY <2>2, <2>4, <2>6, <2>8 DEF Fit, DoomInv
<1>. QED  BY <1>1, <1>2, <1>3

LEMMA PublishStep ==
  ASSUME FilesInv, NEW u \in Uploads, Publish(u)
  PROVE  Fit'
<1>0. 0 \in Runs /\ Running(u, 0)
  BY SizeAssumption DEF Runs, Running, Publish
<1>1. SlotOf[u] \in Templates /\ upload[u].status = "PASSED" /\ tombstone[u] = "NONE"
  BY <1>0 DEF Publish, FilesInv, Fit, RunInv, StepsFitVerdicts
<1>2. SameRows /\ UNCHANGED <<current, upload, tombstone, deleter>>
  BY DEF Publish, SameRows, SameRow
<1>3. published' = published \cup {u}
  BY DEF Publish
<1>4. RunInv'
  <2>1. PICK a \in {Ended, At("unpublish", "PASSED")} : run' = [run EXCEPT ![u][0] = a]
    BY DEF Publish, Heard, OnError
  <2>2. Follows(u, 0, a)
    BY <1>1, <1>2, <2>1 DEF Follows, Ended, At, Places, Steps, Verdicts
  <2>. QED  BY <1>0, <1>2, <2>2, MoveKeepsRuns DEF FilesInv, Fit
<1>5. RowInv'
  BY <1>1, <1>2, <1>3 DEF FilesInv, Fit, RowInv, NamedIsPassed, OnePerTemplate,
                          BasesArePassed, OneSuccessor
<1>6. DoomInv'
  BY <1>1, <1>2, <1>3 DEF FilesInv, Fit, DoomInv, DoomedHasEnded, DoomedIsHidden, Shown
<1>. QED  BY <1>4, <1>5, <1>6 DEF Fit

LEMMA UnpublishStep ==
  ASSUME FilesInv, NEW u \in Uploads, Unpublish(u)
  PROVE  Fit'
<1>. DEFINE s == SlotOf[u]
<1>0. 0 \in Runs /\ Running(u, 0) /\ s \in Slots
  BY SizeAssumption, SlotsAssumption DEF Runs, Running, Unpublish
<1>1. s \in Templates /\ upload[u].status = "PASSED"
  BY <1>0 DEF Unpublish, FilesInv, Fit, RunInv, StepsFitVerdicts
<1>2. SameRows /\ UNCHANGED <<upload, published, deleter>>
  BY DEF Unpublish, SameRows, SameRow
<1>3. Follows(u, 0, Ended)
  BY <1>0, EndFollows DEF Unpublish
<1>4. CASE UNCHANGED <<current, tombstone>>
  BY <1>0, <1>2, <1>3, <1>4, MoveStep
<1>5. CASE /\ current' = [current EXCEPT ![s] = None]
           /\ tombstone' = [tombstone EXCEPT ![u] = Upserted(@)]
           /\ u \notin published
  <2>1. RunInv'
    BY <1>0, <1>2, <1>3, MoveKeepsRuns DEF FilesInv, Fit
  <2>2. /\ current'[s] = None
        /\ \A t \in Slots \ {s} : current'[t] = current[t]
    BY <1>0, <1>5 DEF FilesInv, TypeOK
  <2>3. RowInv'
    <3>1. NamedIsPassed'
      BY <1>2, <2>2 DEF FilesInv, Fit, RowInv, NamedIsPassed
    <3>2. BasesArePassed'
      BY <1>1, <1>2, <2>2, SlotsAssumption DEF FilesInv, Fit, RowInv, BasesArePassed
    <3>3. OnePerTemplate' /\ OneSuccessor'
      BY <1>2 DEF FilesInv, Fit, RowInv, OnePerTemplate, OneSuccessor
    <3>. QED  BY <3>1, <3>2, <3>3 DEF RowInv
  <2>4. /\ \A v \in Uploads \ {u} : tombstone'[v] = tombstone[v]
        /\ tombstone[u] # "NONE" => tombstone'[u] # "NONE"
    BY <1>5 DEF FilesInv, TypeOK, Upserted
  <2>5. DoomedHasEnded'
    BY <1>1, <1>2, <2>4 DEF FilesInv, Fit, DoomInv, DoomedHasEnded
  <2>6. DoomedIsHidden'
    <3>1. u \notin Shown'
      BY <1>2, <1>5, <2>2, NoneIsFresh DEF FilesInv, Fit, RowInv, NamedIsPassed, Shown
    <3>2. Shown' \subseteq Shown
      BY <1>2, <2>2 DEF Shown
    <3>. QED  BY <2>4, <3>1, <3>2 DEF FilesInv, Fit, DoomInv, DoomedIsHidden
  <2>. QED  BY <2>1, <2>3, <2>5, <2>6 DEF Fit, DoomInv
<1>. QED  BY <1>4, <1>5 DEF Unpublish

\* The steps that touch a run and the disk.
LEMMA DiskStep ==
  ASSUME FilesInv, NEW u \in Uploads, NEW n \in Runs,
         \/ Stage(u) /\ n = 0
         \/ Rescan(u, n) \/ Link(u, n) \/ Unlink(u, n) \/ RunDies(u, n)
  PROVE  Fit'
<1>0. Running(u, n)
  BY DEF Stage, Rescan, Link, Unlink, RunDies, Running
<1>1. CASE Refused(u, n)
  BY <1>0, <1>1, RefusedStep
<1>2. CASE ~Refused(u, n)
  <2>1. SameRows /\ UNCHANGED <<current, published, tombstone, deleter>>
    BY <1>2 DEF Stage, Rescan, Link, Unlink, RunDies, SameRows, SameRow
  <2>2. PICK a \in Places :
          /\ run' = [run EXCEPT ![u][n] = a]
          /\ a.step \in {"link", "unlink", "attach", "outcome", "done"}
          /\ a.step = "outcome" => a.verdict # "PASSED"
    <3>1. \A verdict \in Verdicts :
            \A step \in {"link", "unlink", "attach", "outcome"} :
              At(step, verdict) \in Places
      BY DEF At, Places, Steps
    <3>2. CASE Stage(u) /\ n = 0
      BY <3>1, <3>2 DEF Stage, At
    <3>3. CASE Rescan(u, n)
      BY <3>1, <3>3 DEF Rescan, At, Verdicts
    <3>4. CASE Link(u, n) \/ Unlink(u, n)
      BY <1>2, <3>1, <3>4 DEF Link, Unlink, At, Verdicts
    <3>5. CASE RunDies(u, n)
      BY <3>5, EndedIsPlace DEF RunDies, Ended, At
    <3>. QED  BY <3>2, <3>3, <3>4, <3>5
  <2>3. Follows(u, n, a)
    BY <2>2 DEF Follows
  <2>. QED  BY <1>0, <2>1, <2>3, MoveStep
<1>. QED  BY <1>1, <1>2

\* The steps of the jobs and of the application, which move no run and no
\* status: they may add to what is doomed what is neither shown nor alive.
LEMMA OutsideStep ==
  ASSUME FilesInv, SameRows, UNCHANGED <<run, current, published>>, DoomedHasEnded',
         \A u \in Uploads : tombstone'[u] # "NONE" => tombstone[u] # "NONE" \/ u \notin Shown
  PROVE  Fit'
<1>1. RunInv'
  BY StandingRuns DEF FilesInv, Fit
<1>2. RowInv'
  BY SameKeepsRows DEF FilesInv, Fit
<1>3. DoomedIsHidden'
  BY DEF FilesInv, Fit, DoomInv, DoomedIsHidden, Shown
<1>. QED  BY <1>1, <1>2, <1>3 DEF Fit, DoomInv

LEMMA DeletionStep ==
  ASSUME FilesInv,
         \/ DeleteRemove \/ DeleteCommit \/ DeleteRetry \/ DeleteFails
         \/ \E u \in Uploads : Schedule(u) \/ DeleteBegin(u) \/ Age(u)
  PROVE  Fit'
<1>1. UNCHANGED <<run, current, published>>
  BY DEF DeleteRemove, DeleteCommit, DeleteRetry, DeleteFails, Schedule, DeleteBegin, Age
<1>2. SameRows
  <2>1. CASE DeleteCommit
    <3>1. upload' = [upload EXCEPT ![deleter.upload].file = None,
                                   ![deleter.upload].scan = "NONE"]
      BY <2>1 DEF DeleteCommit
    <3>. QED  BY <3>1 DEF FilesInv, TypeOK, Upload, SameRows, SameRow
  <2>2. CASE \E u \in Uploads : Age(u)
    BY <2>2 DEF Age, FilesInv, TypeOK, Upload, SameRows, SameRow
  <2>. QED
    BY <2>1, <2>2
    DEF DeleteRemove, DeleteRetry, DeleteFails, Schedule, DeleteBegin, SameRows, SameRow
<1>3. DoomedHasEnded
  BY DEF FilesInv, Fit, DoomInv
<1>4. CASE \E u \in Uploads : Schedule(u)
  <2>1. PICK u \in Uploads : Schedule(u)
    BY <1>4
  <2>2. u \notin Shown
    BY <2>1 DEF Schedule, Shown, FilesInv, Fit, RowInv, NamedIsPassed
  <2>3. /\ tombstone'[u] # "NONE"
        /\ \A v \in Uploads \ {u} : tombstone'[v] = tombstone[v]
        /\ deleter' = deleter /\ upload' = upload
    BY <2>1 DEF Schedule, FilesInv, TypeOK
  <2>4. DoomedHasEnded'
    BY <1>3, <2>1, <2>3 DEF DoomedHasEnded, Schedule
  <2>. QED  BY <1>1, <1>2, <2>2, <2>3, <2>4, OutsideStep
<1>5. CASE ~\E u \in Uploads : Schedule(u)
  <2>1. \A u \in Uploads : tombstone'[u] # "NONE" <=> tombstone[u] # "NONE"
    <3>1. CASE DeleteCommit \/ DeleteRetry
      BY <1>3, <3>1 DEF DeleteCommit, DeleteRetry, DoomedHasEnded, FilesInv, TypeOK
    <3>. QED
      BY <1>5, <3>1 DEF DeleteRemove, DeleteFails, DeleteBegin, Age
  <2>2. \/ deleter' = Idle
        \/ deleter.step # "idle" /\ deleter'.upload = deleter.upload
        \/ deleter' = deleter
        \/ deleter'.upload \in Uploads /\ tombstone[deleter'.upload] # "NONE"
    BY <1>5 DEF DeleteRemove, DeleteCommit, DeleteRetry, DeleteFails, DeleteBegin, Age,
                FilesInv, TypeOK
  <2>3. DoomedHasEnded'
    BY <1>2, <1>3, <2>1, <2>2 DEF DoomedHasEnded, SameRows, SameRow, Idle
  <2>. QED  BY <1>1, <1>2, <2>1, <2>3, OutsideStep
<1>. QED  BY <1>4, <1>5

LEMMA OtherStep ==
  ASSUME FilesInv,
         \/ \E listed \in SUBSET disk : SweepList(listed)
         \/ SweepLock \/ SweepFails \/ Submit \/ Return
         \/ \E k \in sweeper.keys : SweepRemove(k)
         \/ UNCHANGED vars
  PROVE  Fit'
<1>1. UNCHANGED <<upload, run, current, published, tombstone, deleter>>
  BY DEF SweepList, SweepLock, SweepFails, SweepRemove, Submit, Return, vars
<1>2. SameRows
  BY <1>1 DEF SameRows, SameRow
<1>3. DoomedHasEnded'
  BY <1>1 DEF FilesInv, Fit, DoomInv, DoomedHasEnded
<1>. QED  BY <1>1, <1>2, <1>3, OutsideStep

LEMMA StepInv == FilesInv /\ [Next]_vars => FilesInv'
<1>. SUFFICES ASSUME FilesInv, [Next]_vars PROVE FilesInv'
  OBVIOUS
<1>0. 0 \in Runs
  BY SizeAssumption DEF Runs
<1>1. TypeOK'
  BY TypeStep DEF FilesInv
<1>2. CASE \E u \in Uploads : Request(u)
  <2>1. PICK u \in Uploads : Request(u)
    BY <1>2
  <2>2. PublishRefused(u) => Running(u, 0) /\ Refused(u, 0)
    BY DEF PublishRefused, Running
  <2>3. Fit'
    BY <1>0, <2>1, <2>2, AdmitStep, DiskStep, PublishStep, UnpublishStep, RefusedStep
    DEF Request
  <2>. QED  BY <1>1, <2>3 DEF FilesInv
<1>3. CASE \E u \in Uploads : Expire(u)
  <2>1. PICK u \in Uploads : Expire(u)
    BY <1>3
  <2>2. Fit'
    BY <2>1, ExpiredStep DEF Expire
  <2>. QED  BY <1>1, <2>2 DEF FilesInv
<1>4. CASE \E u \in Uploads, n \in Runs :
             ClaimRetry(u, n) \/ Continue(u, n) \/ StepFails(u, n) \/ RunDies(u, n)
  <2>1. PICK u \in Uploads, n \in Runs :
          ClaimRetry(u, n) \/ Continue(u, n) \/ StepFails(u, n) \/ RunDies(u, n)
    BY <1>4
  <2>2. StepFails(u, n) => Running(u, n) /\ Refused(u, n)
    BY DEF StepFails, Running
  <2>3. Fit'
    BY <2>1, <2>2, ClaimRetryStep, DiskStep, AttachStep, OutcomeStep, CommitStep, FailStep,
       RefusedStep DEF Continue
  <2>. QED  BY <1>1, <2>3 DEF FilesInv
<1>. QED
  BY <1>1, <1>2, <1>3, <1>4, DeletionStep, OtherStep DEF Next, FilesInv

LEMMA InitInv == Init => FilesInv
<1>. SUFFICES ASSUME Init PROVE FilesInv
  OBVIOUS
<1>1. \A u \in Uploads : /\ upload[u].status = "ABSENT" /\ upload[u].base = None
                        /\ \A n \in Runs : run[u][n].step = "idle"
  BY DEF Init, Absent, At
<1>2. RunInv
  BY <1>1 DEF RunInv, RunsFitRows, StepsFitVerdicts, OnlyOwnerRuns, Running
<1>3. RowInv
  BY <1>1 DEF Init, RowInv, NamedIsPassed, OnePerTemplate, BasesArePassed, OneSuccessor
<1>4. DoomInv
  BY DEF Init, DoomInv, DoomedHasEnded, DoomedIsHidden, Idle
<1>. QED  BY <1>2, <1>3, <1>4, TypeInit DEF FilesInv, Fit

\* The invariant: rows, runs and tombstones fit together in every state.
THEOREM FilesInvariant == Spec => []FilesInv
  BY InitInv, StepInv, PTL DEF Spec

\* Of two replacements of one document only one is ever committed, however
\* many uploads race and wherever they fail (commitFacilitiesUpload and the
\* trigger behind it).
THEOREM FilesOneSuccessor == Spec => []OneSuccessor
<1>1. FilesInv => OneSuccessor
  BY DEF FilesInv, Fit, RowInv
<1>. QED  BY <1>1, FilesInvariant, PTL

\* Nobody but the holder of its token works on an upload that is on its way
\* (the retry tokens of retryUnavailableFacilitiesScan).
THEOREM FilesOnlyOwnerRuns == Spec => []OnlyOwnerRuns
<1>1. FilesInv => OnlyOwnerRuns
  BY DEF FilesInv, Fit, RunInv
<1>. QED  BY <1>1, FilesInvariant, PTL

\* What has a tombstone is neither shown nor published, so that no deletion
\* (reconcileFacilitiesDeletion) takes a document from anybody.
THEOREM FilesDoomedIsHidden == Spec => []DoomedIsHidden
<1>1. FilesInv => DoomedIsHidden
  BY DEF FilesInv, Fit, DoomInv
<1>. QED  BY <1>1, FilesInvariant, PTL

-----------------------------------------------------------------------------
(***************************************************************************)
(* What is on the disk.  ShownIsReadable and QuarantineIsKept speak of     *)
(* rows that have come to rest.  What keeps them is what the owner of an   *)
(* upload finds at each of its steps, that no object is written after a    *)
(* row names it, and that neither of the jobs holds the name of an object  *)
(* that a row needs or will need, though a sweep that outlived its lock    *)
(* goes on beside requests and retries.                                    *)
(***************************************************************************)

\* The runs of an upload begin one after the other, each with its token.
InOrder(u) ==
  \A n \in Runs : run[u][n].step # "idle" <=>
                    upload[u].status # "ABSENT" /\ n <= upload[u].token

\* The object a row names is one of its own, and no run will write it again.
Stored(u) ==
  /\ upload[u].file # None => upload[u].file[1] = u
  /\ upload[u].status = "ABSENT" => upload[u].file = None
  /\ upload[u].file = Staging(u) => run[u][0].step # "stage"
  /\ \A n \in Runs :
       upload[u].file = Ready(u, n) =>
         n <= upload[u].token /\ run[u][n].step \notin {"stage", "link"}

\* The staged bytes are there, and the row says that their scan is due.
Quarantined(u) == /\ upload[u].file = Staging(u) /\ Staging(u) \in disk
                  /\ upload[u].scan = "PENDING"

\* The ready object of run n is there, and the row says that it passed.
Readable(u, n) == /\ upload[u].file = Ready(u, n) /\ Ready(u, n) \in disk
                  /\ upload[u].scan = "PASSED"

\* What run n, the owner of the upload, relies on at a place.
Finds(u, n, at) ==
  /\ at.step = "stage" /\ n > 0 => Quarantined(u)
  /\ at.step \in {"link", "unlink"} => Staging(u) \in disk /\ (n > 0 => Quarantined(u))
  /\ at.step = "unlink" => Ready(u, n) \in disk
  /\ at.step = "attach" => /\ at.verdict = "PASSED" => Ready(u, n) \in disk
                           /\ at.verdict = "UNAVAILABLE" => Staging(u) \in disk
  /\ at.step = "outcome" /\ at.verdict = "UNAVAILABLE" => Quarantined(u)
  /\ at.step = "commit" => Readable(u, n)

\* A row has the bytes that its status promises.
Backed(u) ==
  LET n == upload[u].token
  IN /\ upload[u].status = "PENDING" => Finds(u, n, run[u][n])
     /\ upload[u].status = "UNAVAILABLE" => Quarantined(u)
     /\ upload[u].status = "PASSED" =>
          /\ upload[u].file \in {None, Ready(u, n)}
          /\ tombstone[u] = "NONE" => Readable(u, n)

RowKept(u) == InOrder(u) /\ Stored(u) /\ Backed(u)

\* The object was written by a run that has begun.
Begun(k) == upload[k[1]].status # "ABSENT" /\ k[2] <= upload[k[1]].token + 1

\* No upload needs the object, now or later.
Spare(k) ==
  LET row == upload[k[1]]
  IN /\ row.status = "PENDING" => k[2] # 0 /\ k[2] <= row.token
     /\ row.status = "UNAVAILABLE" => k[2] # 0
     /\ row.status = "PASSED" => k # row.file

ObjectsBegun == \A k \in disk \cup sweeper.keys : Begun(k)

SweepSpares ==
  sweeper.step \in {"locked", "late"} => \A k \in sweeper.keys : Spare(k)

DeleterFits ==
  /\ deleter.step \in {"remove", "late", "commit"} =>
       deleter.key # None /\ deleter.key = upload[deleter.upload].file
  /\ deleter.step = "commit" => deleter.key \notin disk

DiskInv ==
  /\ \A u \in Uploads : RowKept(u)
  /\ ObjectsBegun /\ SweepSpares /\ DeleterFits

-----------------------------------------------------------------------------
(* The rows that a step leaves alone, and the row that it writes.           *)

\* A step took nothing away from the upload.
Untouched(u) ==
  /\ SameRow(u)
  /\ upload'[u].file = upload[u].file /\ upload'[u].scan = upload[u].scan
  /\ run'[u] = run[u]
  /\ tombstone'[u] = "NONE" => tombstone[u] = "NONE"
  /\ \A k \in disk : k[1] = u => k \in disk'

LEMMA UntouchedKept ==
  ASSUME NEW u \in Uploads, RowKept(u), Untouched(u)
  PROVE  RowKept(u)'
<1>1. Staging(u) \in disk => Staging(u) \in disk'
  BY DEF Untouched, Staging
<1>2. \A n : Ready(u, n) \in disk => Ready(u, n) \in disk'
  BY DEF Untouched, Ready
<1>3. InOrder(u)'
  BY DEF RowKept, InOrder, Untouched, SameRow
<1>4. Stored(u)'
  BY DEF RowKept, Stored, Untouched, SameRow
<1>5. Quarantined(u) => Quarantined(u)'
  BY <1>1 DEF Quarantined, Untouched
<1>6. \A n : Readable(u, n) => Readable(u, n)'
  BY <1>2 DEF Readable, Untouched
<1>7. \A n, at : Finds(u, n, at) => Finds(u, n, at)'
  BY <1>1, <1>2, <1>5, <1>6 DEF Finds
<1>8. Backed(u)'
  BY <1>5, <1>6, <1>7 DEF RowKept, Backed, Untouched, SameRow
<1>. QED  BY <1>3, <1>4, <1>8 DEF RowKept

\* The upload goes forward, and what was spare of it stays so.
Advances(u) ==
  /\ upload[u].status # "ABSENT" => /\ upload'[u].status # "ABSENT"
                                    /\ upload[u].token <= upload'[u].token
  /\ \A k \in Keys : k[1] = u /\ Begun(k) /\ Spare(k) => Spare(k)'

LEMMA UntouchedAdvances ==
  ASSUME TypeOK, NEW u \in Uploads, Untouched(u)
  PROVE  Advances(u)
<1>1. upload[u].token \in Nat
  BY SizeAssumption DEF TypeOK, Upload, Runs
<1>. QED  BY <1>1 DEF Untouched, SameRow, Advances, Spare

\* A step of one upload.
LEMMA RowMoves ==
  ASSUME FilesInv, TypeOK', DiskInv, NEW u \in Uploads,
         UNCHANGED <<deleter, sweeper>>,
         \A v \in Uploads \ {u} : Untouched(v),
         RowKept(u)', Advances(u),
         \A k \in disk' \ disk : k[1] = u /\ Begun(k)' /\ k # upload[u].file,
         upload[u].status \in {"PASSED", "FAILED"} => upload'[u].file = upload[u].file
  PROVE  DiskInv'
<1>1. \A v \in Uploads : RowKept(v)'
  BY UntouchedKept DEF DiskInv
<1>2. \A v \in Uploads : Advances(v)
  BY UntouchedAdvances DEF FilesInv
<1>3. \A k \in Keys : k[1] \in Uploads /\ k[2] \in Nat
  BY SizeAssumption DEF Keys
<1>4. disk \subseteq Keys /\ sweeper.keys \subseteq Keys
  BY DEF FilesInv, TypeOK
<1>5. \A v \in Uploads : upload[v].token \in Nat /\ upload'[v].token \in Nat
  BY SizeAssumption DEF FilesInv, TypeOK, Upload, Runs
<1>6. \A k \in Keys : Begun(k) => Begun(k)'
  BY <1>2, <1>3, <1>5 DEF Begun, Advances
<1>7. ObjectsBegun'
  BY <1>4, <1>6 DEF ObjectsBegun, DiskInv
<1>8. SweepSpares'
  BY <1>2, <1>3, <1>4 DEF SweepSpares, ObjectsBegun, Advances, DiskInv
<1>9. DeleterFits'
  <2>1. deleter.step # "idle" => /\ deleter.upload \in Uploads
                                 /\ upload[deleter.upload].status \in {"PASSED", "FAILED"}
    BY DEF FilesInv, Fit, DoomInv, DoomedHasEnded
  <2>2. deleter.step # "idle" => upload'[deleter.upload].file = upload[deleter.upload].file
    BY <2>1 DEF Untouched
  <2>3. deleter.step # "idle" => (deleter.key # None /\ deleter.key = upload[deleter.upload].file
                                   => deleter.key[1] = deleter.upload)
    BY <2>1 DEF DiskInv, RowKept, Stored
  <2>. QED  BY <2>1, <2>2, <2>3 DEF DeleterFits, DiskInv
<1>. QED  BY <1>1, <1>7, <1>8, <1>9 DEF DiskInv

\* A run of an upload goes on, and the row of the upload stays.
LEMMA RunGoes ==
  ASSUME FilesInv, DiskInv, NEW u \in Uploads, NEW n \in Runs, NEW a \in Places,
         Running(u, n), run' = [run EXCEPT ![u][n] = a],
         a.step \notin {"idle", "stage"}, a.step = "link" => run[u][n].step = "stage",
         SameRow(u), upload'[u].file = upload[u].file, upload'[u].scan = upload[u].scan,
         tombstone'[u] = "NONE" => tombstone[u] = "NONE",
         \A k \in disk : k[1] = u => k \in disk' \/ k = Staging(u),
         Owns(u, n) => Finds(u, n, a)'
  PROVE  RowKept(u)'
<1>0. 0 \in Runs
  BY SizeAssumption DEF Runs
<1>1. run'[u][n] = a /\ \A m \in Runs \ {n} : run'[u][m] = run[u][m]
  BY DEF FilesInv, TypeOK
<1>2. RowKept(u)
  BY DEF DiskInv
<1>3. InOrder(u)'
  BY <1>1, <1>2 DEF RowKept, InOrder, SameRow, Running
<1>4. Stored(u)'
  BY <1>0, <1>1, <1>2 DEF RowKept, Stored, SameRow
<1>5. upload[u].status = "PENDING" => Owns(u, n)
  BY DEF FilesInv, Fit, RunInv, OnlyOwnerRuns, Running, Owns
<1>6. upload[u].status # "UNAVAILABLE"
  BY DEF FilesInv, Fit, RunInv, RunsFitRows
<1>7. \A m \in Runs : Readable(u, m) => Readable(u, m)'
  <2>1. \A m \in Runs : Ready(u, m) # Staging(u) /\ Ready(u, m)[1] = u
    BY SizeAssumption DEF Ready, Staging, Runs
  <2>. QED  BY <2>1 DEF Readable
<1>8. Backed(u)'
  <2>1. upload[u].token \in Runs
    BY DEF FilesInv, TypeOK, Upload
  <2>. QED  BY <1>1, <1>2, <1>5, <1>6, <1>7, <2>1 DEF RowKept, Backed, SameRow, Owns
<1>. QED  BY <1>3, <1>4, <1>8 DEF RowKept

\* The same, as a step of the whole: new objects are the run's own.
LEMMA RunStep ==
  ASSUME FilesInv, TypeOK', DiskInv, NEW u \in Uploads, NEW n \in Runs, NEW a \in Places,
         Running(u, n), run' = [run EXCEPT ![u][n] = a],
         a.step \notin {"idle", "stage"}, a.step = "link" => run[u][n].step = "stage",
         UNCHANGED <<upload, deleter, sweeper>>,
         \A v \in Uploads : tombstone'[v] = "NONE" => tombstone[v] = "NONE",
         \/ disk' = disk
         \/ disk' = disk \ {Staging(u)}
         \/ disk' = disk \cup {Staging(u)} /\ upload[u].file # Staging(u)
         \/ disk' = disk \cup {Ready(u, n)} /\ upload[u].file # Ready(u, n),
         Owns(u, n) => Finds(u, n, a)'
  PROVE  DiskInv'
<1>0. Staging(u)[1] = u /\ Staging(u)[2] = 0 /\ Ready(u, n)[1] = u /\ Ready(u, n)[2] = n + 1
  BY DEF Staging, Ready
<1>1. RowKept(u)'
  BY <1>0, RunGoes DEF SameRow
<1>2. \A v \in Uploads \ {u} : Untouched(v)
  <2>1. \A v \in Uploads \ {u} : run'[v] = run[v]
    BY DEF FilesInv, TypeOK
  <2>. QED  BY <1>0, <2>1 DEF Untouched, SameRow
<1>3. upload[u].token \in Nat /\ n \in Nat
  BY SizeAssumption DEF FilesInv, TypeOK, Upload, Runs
<1>4. Advances(u)
  BY <1>3 DEF Advances, Spare
<1>5. upload[u].status # "ABSENT" /\ n <= upload[u].token
  BY DEF DiskInv, RowKept, InOrder, Running
<1>6. \A k \in disk' \ disk : k[1] = u /\ Begun(k)' /\ k # upload[u].file
  BY <1>0, <1>3, <1>5 DEF Begun
<1>. QED  BY <1>1, <1>2, <1>4, <1>6, RowMoves

-----------------------------------------------------------------------------
(* Every step keeps DiskInv.                                                *)

\* The place of a run, found by its step.
LEMMA OwnerAt ==
  ASSUME DiskInv, NEW u \in Uploads, NEW n \in Runs, Owns(u, n)
  PROVE  Finds(u, n, run[u][n])
BY DEF DiskInv, RowKept, Backed, Owns

LEMMA RefusedDisk ==
  ASSUME FilesInv, TypeOK', DiskInv, NEW u \in Uploads, NEW n \in Runs,
         Running(u, n), Refused(u, n)
  PROVE  DiskInv'
<1>1. PICK a \in Places : a = OnError(u, n)
  BY OnErrorIsPlace
<1>2. a.step \in {"attach", "outcome", "fail", "unpublish", "done"}
  BY <1>1 DEF OnError, Ended, At
<1>3. Owns(u, n) => Finds(u, n, a)'
  <2>. SUFFICES ASSUME Owns(u, n) PROVE Finds(u, n, a)'
    OBVIOUS
  <2>1. Finds(u, n, run[u][n])
    BY OwnerAt
  <2>2. Staging(u) \in disk => (Staging(u) \in disk)'
    BY DEF Refused, Staging
  <2>3. Quarantined(u) => Quarantined(u)'
    BY <2>2 DEF Refused, Quarantined
  <2>. QED
    BY <1>1, <2>1, <2>2, <2>3, SizeAssumption DEF Finds, OnError, Ended, At, Runs
<1>4. run' = [run EXCEPT ![u][n] = a] /\ UNCHANGED <<upload, tombstone, disk, deleter, sweeper>>
  BY <1>1 DEF Refused
<1>. QED  BY <1>2, <1>3, <1>4, RunStep

\* The steps that touch a run and the disk.
LEMMA DiskDisk ==
  ASSUME FilesInv, TypeOK', DiskInv, NEW u \in Uploads, NEW n \in Runs,
         \/ Stage(u) /\ n = 0
         \/ Rescan(u, n) \/ Link(u, n) \/ Unlink(u, n) \/ RunDies(u, n)
  PROVE  DiskInv'
<1>0. Running(u, n)
  BY DEF Stage, Rescan, Link, Unlink, RunDies, Running
<1>1. \A verdict \in Verdicts :
        \A step \in {"link", "unlink", "attach", "outcome"} :
          At(step, verdict) \in Places
  BY DEF At, Places, Steps
<1>2. Stored(u)
  BY DEF DiskInv, RowKept
<1>3. Owns(u, n) => Finds(u, n, run[u][n])
  BY OwnerAt
<1>4. n > 0 \/ n = 0
  BY SizeAssumption DEF Runs
<1>5. CASE Refused(u, n)
  BY <1>0, <1>5, RefusedDisk
<1>6. CASE Stage(u) /\ n = 0
  <2>1. PICK a \in Places :
          /\ run' = [run EXCEPT ![u][n] = a]
          /\ \/ a.step = "link"
             \/ a.step = "attach" /\ a.verdict # "PASSED"
    BY <1>1, <1>6 DEF Stage, At
  <2>2. disk' = disk \cup {Staging(u)} /\ upload[u].file # Staging(u)
    BY <1>2, <1>6 DEF Stage, Stored
  <2>3. Finds(u, n, a)'
    BY <1>6, <2>1, <2>2 DEF Finds, Staging
  <2>4. UNCHANGED <<upload, tombstone, deleter, sweeper>> /\ run[u][n].step = "stage"
    BY <1>6 DEF Stage
  <2>. QED  BY <1>0, <2>1, <2>2, <2>3, <2>4, RunStep
<1>7. CASE Rescan(u, n)
  <2>1. PICK a \in Places :
          /\ run' = [run EXCEPT ![u][n] = a]
          /\ a.step \in {"link", "outcome"}
    <3>1. PICK verdict \in Verdicts :
            run' = [run EXCEPT ![u][n] =
                      At(IF verdict = "PASSED" THEN "link" ELSE "outcome", verdict)]
      BY <1>7 DEF Rescan, Verdicts
    <3>. QED  BY <1>1, <3>1 DEF At
  <2>2. UNCHANGED <<upload, tombstone, disk, deleter, sweeper>> /\ run[u][n].step = "stage" /\ n > 0
    BY <1>7 DEF Rescan
  <2>3. Quarantined(u) => Quarantined(u)' /\ (Staging(u) \in disk)'
    BY <2>2 DEF Quarantined, Staging
  <2>4. Owns(u, n) => Finds(u, n, a)'
    BY <1>3, <2>1, <2>2, <2>3 DEF Finds
  <2>. QED  BY <1>0, <2>1, <2>2, <2>4, RunStep
<1>8. CASE Link(u, n) /\ ~Refused(u, n)
  <2>1. PICK a \in Places : a = At("unlink", "PASSED")
    BY <1>1 DEF Verdicts
  <2>2. /\ run' = [run EXCEPT ![u][n] = a]
        /\ UNCHANGED <<upload, tombstone, deleter, sweeper>> /\ run[u][n].step = "link"
        /\ disk' = disk \cup {Ready(u, n)}
    BY <1>8, <2>1 DEF Link
  <2>3. upload[u].file # Ready(u, n)
    BY <1>2, <2>2 DEF Stored
  <2>4. Quarantined(u) => Quarantined(u)'
    BY <2>2 DEF Quarantined, Staging
  <2>5. Owns(u, n) => Finds(u, n, a)'
    BY <1>3, <2>1, <2>2, <2>4 DEF Finds, At, Staging, Ready
  <2>6. a.step = "unlink"
    BY <2>1 DEF At
  <2>. QED  BY <1>0, <2>2, <2>3, <2>5, <2>6, RunStep
<1>9. CASE Unlink(u, n) /\ ~Refused(u, n)
  <2>1. PICK a \in Places : a = At("attach", "PASSED")
    BY <1>1 DEF Verdicts
  <2>2. /\ run' = [run EXCEPT ![u][n] = a]
        /\ UNCHANGED <<upload, tombstone, deleter, sweeper>> /\ run[u][n].step = "unlink"
        /\ disk' = disk \ {Staging(u)}
    BY <1>9, <2>1 DEF Unlink
  <2>3. Ready(u, n) \in disk => (Ready(u, n) \in disk)'
    BY <2>2, SizeAssumption DEF Ready, Staging, Runs
  <2>4. Owns(u, n) => Finds(u, n, a)'
    BY <1>3, <2>1, <2>2, <2>3 DEF Finds, At
  <2>5. a.step = "attach"
    BY <2>1 DEF At
  <2>. QED  BY <1>0, <2>2, <2>4, <2>5, RunStep
<1>10. CASE RunDies(u, n)
  <2>1. PICK a \in Places : a = Ended
    BY EndedIsPlace
  <2>2. Finds(u, n, a)' /\ a.step = "done"
    BY <2>1 DEF Finds, Ended, At
  <2>. QED  BY <1>0, <1>10, <2>1, <2>2, RunStep DEF RunDies
<1>. QED  BY <1>5, <1>6, <1>7, <1>8, <1>9, <1>10

LEMMA AdmitDisk ==
  ASSUME FilesInv, TypeOK', DiskInv, NEW u \in Uploads, Admit(u)
  PROVE  DiskInv'
<1>0. 0 \in Runs /\ Runs \subseteq Nat /\ \A k \in Keys : k[2] \in Nat
  BY SizeAssumption DEF Runs, Keys
<1>1. UNCHANGED <<tombstone, disk, deleter, sweeper>>
  BY DEF Admit
<1>2. upload[u].status = "ABSENT" /\ \A n \in Runs : run[u][n].step = "idle"
  BY <1>0 DEF Admit, FilesInv, Fit, RunInv, RunsFitRows, DiskInv, RowKept, InOrder
<1>3. /\ upload'[u].status = "PENDING" /\ upload'[u].token = 0
      /\ upload'[u].file = None
      /\ \A v \in Uploads \ {u} : upload'[v] = upload[v]
  BY DEF Admit, Absent, FilesInv, TypeOK
<1>4. PICK a \in {At("stage", "PASSED"), Ended} : run' = [run EXCEPT ![u][0] = a]
  BY DEF Admit, Heard
<1>5. /\ run'[u][0] = a
      /\ \A n \in Runs \ {0} : run'[u][n] = run[u][n]
      /\ \A v \in Uploads \ {u} : run'[v] = run[v]
  BY <1>0, <1>4 DEF FilesInv, TypeOK
<1>6. a.step \in {"stage", "done"}
  BY DEF At, Ended
<1>7. InOrder(u)'
  BY <1>0, <1>2, <1>3, <1>5, <1>6 DEF InOrder
<1>8. None # Staging(u) /\ \A n \in Runs : None # Ready(u, n)
  BY NoneIsFresh, SizeAssumption DEF Staging, Ready, Keys, Runs
<1>9. Stored(u)'
  BY <1>3, <1>8 DEF Stored
<1>10. Backed(u)'
  BY <1>3, <1>5, <1>6 DEF Backed, Finds
<1>11. \A v \in Uploads \ {u} : Untouched(v)
  BY <1>1, <1>3, <1>5 DEF Untouched, SameRow
<1>12. Advances(u)
  BY <1>2 DEF Advances, Begun
<1>. QED  BY <1>1, <1>2, <1>7, <1>9, <1>10, <1>11, <1>12, RowMoves DEF RowKept

\* A row ends while its run, if it has one, stays or ends.
LEMMA EndedRow ==
  ASSUME FilesInv, TypeOK', DiskInv, NEW u \in Uploads,
         upload[u].status \in Active,
         upload' = [upload EXCEPT ![u].status = "FAILED"],
         UNCHANGED <<disk, deleter, sweeper>>,
         \A v \in Uploads : tombstone'[v] = "NONE" => tombstone[v] = "NONE",
         \/ run' = run
         \/ \E n \in Runs : Running(u, n) /\ run' = [run EXCEPT ![u][n] = Ended]
  PROVE  DiskInv'
<1>1. /\ upload'[u].status = "FAILED" /\ upload'[u].token = upload[u].token
      /\ upload'[u].file = upload[u].file
      /\ \A v \in Uploads \ {u} : upload'[v] = upload[v]
  BY DEF FilesInv, TypeOK, Upload
<1>2. /\ \A v \in Uploads \ {u} : run'[v] = run[v]
      /\ \A n \in Runs : \/ run'[u][n] = run[u][n]
                         \/ run[u][n].step # "idle" /\ run'[u][n].step = "done"
  BY DEF FilesInv, TypeOK, Running, Ended, At
<1>3. RowKept(u)
  BY DEF DiskInv
<1>4. InOrder(u)'
  BY <1>1, <1>2, <1>3 DEF RowKept, InOrder, Active
<1>5. Stored(u)'
  <2>1. 0 \in Runs
    BY SizeAssumption DEF Runs
  <2>. QED  BY <1>1, <1>2, <1>3, <2>1 DEF RowKept, Stored
<1>6. Backed(u)'
  BY <1>1 DEF Backed
<1>7. \A v \in Uploads \ {u} : Untouched(v)
  BY <1>1, <1>2 DEF Untouched, SameRow
<1>8. Advances(u)
  <2>1. upload[u].token \in Nat
    BY SizeAssumption DEF FilesInv, TypeOK, Upload, Runs
  <2>. QED  BY <1>1, <2>1 DEF Advances, Spare
<1>. QED  BY <1>1, <1>4, <1>5, <1>6, <1>7, <1>8, RowMoves DEF RowKept

LEMMA ClaimRetryDisk ==
  ASSUME FilesInv, TypeOK', DiskInv, NEW u \in Uploads, NEW n \in Runs, ClaimRetry(u, n)
  PROVE  DiskInv'
<1>0. 0 \in Runs /\ Runs \subseteq Nat /\ \A k \in Keys : k[2] \in Nat
  BY SizeAssumption DEF Runs, Keys
<1>1. upload[u].status = "UNAVAILABLE" /\ UNCHANGED <<tombstone, disk, deleter, sweeper>>
  BY DEF ClaimRetry
<1>2. CASE UNCHANGED run /\ upload' = [upload EXCEPT ![u].status = "FAILED"]
  BY <1>1, <1>2, EndedRow DEF Active
<1>3. CASE /\ Heard(u, n, At("stage", "PASSED"), Ended)
           /\ upload' = [upload EXCEPT ![u].status = "PENDING", ![u].token = n]
  <2>1. /\ upload'[u].status = "PENDING" /\ upload'[u].token = n
        /\ upload'[u].file = upload[u].file /\ upload'[u].scan = upload[u].scan
        /\ \A v \in Uploads \ {u} : upload'[v] = upload[v]
    BY <1>3 DEF FilesInv, TypeOK, Upload
  <2>2. PICK a \in {At("stage", "PASSED"), Ended} : run' = [run EXCEPT ![u][n] = a]
    BY <1>3 DEF Heard
  <2>3. /\ run'[u][n] = a
        /\ \A m \in Runs \ {n} : run'[u][m] = run[u][m]
        /\ \A v \in Uploads \ {u} : run'[v] = run[v]
    BY <2>2 DEF FilesInv, TypeOK
  <2>4. a.step \in {"stage", "done"}
    BY DEF At, Ended
  <2>5. RowKept(u) /\ upload[u].token \in Nat
    BY <1>0 DEF DiskInv, FilesInv, TypeOK, Upload
  <2>6. n = upload[u].token + 1
    <3>1. n > 0 /\ run[u][n].step = "idle" /\ run[u][n - 1].step # "idle"
      BY DEF ClaimRetry
    <3>2. n - 1 \in Runs
      BY <3>1, SizeAssumption DEF Runs
    <3>3. n - 1 <= upload[u].token /\ ~(n <= upload[u].token)
      BY <1>1, <2>5, <3>1, <3>2 DEF RowKept, InOrder
    <3>. QED  BY <1>0, <2>5, <3>3
  <2>7. InOrder(u)'
    BY <1>0, <1>1, <2>1, <2>3, <2>4, <2>5, <2>6 DEF RowKept, InOrder
  <2>8. Quarantined(u)
    BY <1>1, <2>5 DEF RowKept, Backed
  <2>9. Quarantined(u)'
    BY <1>1, <2>1, <2>8 DEF Quarantined, Staging
  <2>10. Stored(u)'
    <3>1. run'[u][0].step # "stage"
      BY <1>0, <2>3, <2>5, <2>6, <2>8 DEF RowKept, Stored, Quarantined
    <3>2. \A m \in Runs : Staging(u) # Ready(u, m)
      BY <1>0 DEF Staging, Ready
    <3>3. Staging(u)[1] = u
      BY DEF Staging
    <3>. QED  BY <2>1, <2>8, <3>1, <3>2, <3>3 DEF Stored, Quarantined
  <2>11. Backed(u)'
    BY <2>1, <2>3, <2>4, <2>9 DEF Backed, Finds
  <2>12. \A v \in Uploads \ {u} : Untouched(v)
    BY <1>1, <2>1, <2>3 DEF Untouched, SameRow
  <2>13. Advances(u)
    BY <1>0, <1>1, <2>1, <2>5, <2>6 DEF Advances, Begun, Spare
  <2>. QED  BY <1>1, <2>1, <2>7, <2>10, <2>11, <2>12, <2>13, RowMoves DEF RowKept
<1>. QED  BY <1>2, <1>3 DEF ClaimRetry

LEMMA AttachDisk ==
  ASSUME FilesInv, TypeOK', DiskInv, NEW u \in Uploads, NEW n \in Runs, Attach(u, n)
  PROVE  DiskInv'
<1>0. Running(u, n)
  BY DEF Attach, Running
<1>1. CASE Refused(u, n)
  BY <1>0, <1>1, RefusedDisk
<1>2. CASE ~Refused(u, n)
  <2>. DEFINE verdict == run[u][n].verdict
              passed == verdict = "PASSED"
              file == IF passed THEN Ready(u, n) ELSE Staging(u)
              next == At(IF passed THEN "commit" ELSE "outcome", verdict)
  <2>1. Owns(u, n) /\ UNCHANGED <<tombstone, disk, deleter, sweeper>>
    BY <1>2 DEF Attach
  <2>2. /\ upload'[u].status = "PENDING" /\ upload'[u].token = n /\ upload[u].token = n
        /\ upload'[u].file = file /\ upload'[u].scan = StoredScan(verdict)
        /\ \A v \in Uploads \ {u} : upload'[v] = upload[v]
    BY <1>2, <2>1 DEF Attach, Owns, FilesInv, TypeOK, Upload
  <2>3. PICK a \in {next, OnError(u, n)} : run' = [run EXCEPT ![u][n] = a]
    BY <1>2 DEF Attach, Heard
  <2>4. \/ a.step = "commit" /\ passed
        \/ a.step = "outcome" /\ a.verdict = verdict /\ ~passed
        \/ a.step \in {"fail", "done"}
    BY <2>3 DEF Attach, OnError, At, Ended
  <2>5. /\ run'[u][n] = a
        /\ \A m \in Runs \ {n} : run'[u][m] = run[u][m]
        /\ \A v \in Uploads \ {u} : run'[v] = run[v]
    BY <2>3 DEF FilesInv, TypeOK
  <2>6. Runs \subseteq Nat /\ 0 \in Runs
    BY SizeAssumption DEF Runs
  <2>7. RowKept(u) /\ Finds(u, n, run[u][n]) /\ run[u][n].step = "attach"
    BY <2>1, OwnerAt DEF DiskInv, Attach
  <2>8. InOrder(u)'
    BY <2>1, <2>2, <2>4, <2>5, <2>7 DEF RowKept, InOrder, Owns
  <2>9. Staging(u)[1] = u /\ Ready(u, n)[1] = u
        /\ \A m \in Runs : Staging(u) # Ready(u, m) /\ (m # n => Ready(u, n) # Ready(u, m))
    BY <2>6 DEF Staging, Ready
  <2>10. \A m \in Runs : run'[u][m].step \notin {"stage", "link"}
    BY <1>0, <2>1, <2>4, <2>5
    DEF FilesInv, Fit, RunInv, OnlyOwnerRuns, Owns
  <2>11. Stored(u)'
    BY <2>2, <2>6, <2>9, <2>10 DEF Stored
  <2>12. Backed(u)'
    <3>1. passed => Readable(u, n)'
      BY <2>1, <2>2, <2>7 DEF Finds, Readable, StoredScan, Ready
    <3>2. verdict = "UNAVAILABLE" => Quarantined(u)'
      BY <2>1, <2>2, <2>7 DEF Finds, Quarantined, StoredScan, Staging
    <3>. QED  BY <2>2, <2>4, <2>5, <3>1, <3>2 DEF Backed, Finds
  <2>13. \A v \in Uploads \ {u} : Untouched(v)
    BY <2>1, <2>2, <2>5 DEF Untouched, SameRow
  <2>14. Advances(u)
    BY <2>1, <2>2, <2>6 DEF Advances, Spare, Owns
  <2>15. upload[u].status = "PENDING"
    BY <2>1 DEF Owns
  <2>. QED  BY <2>1, <2>8, <2>11, <2>12, <2>13, <2>14, <2>15, RowMoves DEF RowKept
<1>. QED  BY <1>1, <1>2

LEMMA OutcomeDisk ==
  ASSUME FilesInv, TypeOK', DiskInv, NEW u \in Uploads, NEW n \in Runs, Outcome(u, n)
  PROVE  DiskInv'
<1>0. Running(u, n) /\ run' = [run EXCEPT ![u][n] = Ended]
  BY DEF Outcome, Running
<1>1. UNCHANGED <<tombstone, disk, deleter, sweeper>>
  BY DEF Outcome
<1>2. CASE ~Owns(u, n)
  <2>1. PICK a \in Places : a = Ended
    BY EndedIsPlace
  <2>2. Finds(u, n, a)' /\ a.step = "done"
    BY <2>1 DEF Finds, Ended, At
  <2>3. upload' = upload
    BY <1>2 DEF Outcome
  <2>. QED  BY <1>0, <1>1, <2>1, <2>2, <2>3, RunStep
<1>3. CASE Owns(u, n)
  <2>. DEFINE status == IF n > 0 /\ upload[u].old THEN "FAILED"
                        ELSE run[u][n].verdict
  <2>1. upload' = [upload EXCEPT ![u].status = status]
    BY <1>3 DEF Outcome
  <2>2. run[u][n].verdict \in Verdicts /\ run[u][n].verdict # "PASSED"
    BY DEF Outcome, FilesInv, TypeOK, Fit, RunInv, StepsFitVerdicts
  <2>3. CASE status = "FAILED"
    <3>1. upload' = [upload EXCEPT ![u].status = "FAILED"]
      BY <2>1, <2>3
    <3>. QED  BY <1>0, <1>1, <1>3, <3>1, EndedRow DEF Owns, Active
  <2>4. CASE status # "FAILED"
    <3>1. status = "UNAVAILABLE" /\ run[u][n].verdict = "UNAVAILABLE"
      BY <2>2, <2>4 DEF Verdicts
    <3>2. /\ upload'[u].status = "UNAVAILABLE" /\ upload'[u].token = upload[u].token
          /\ upload'[u].file = upload[u].file /\ upload'[u].scan = upload[u].scan
          /\ \A v \in Uploads \ {u} : upload'[v] = upload[v]
      BY <2>1, <3>1 DEF FilesInv, TypeOK, Upload
    <3>3. /\ \A v \in Uploads \ {u} : run'[v] = run[v]
          /\ \A m \in Runs : \/ run'[u][m] = run[u][m]
                             \/ run[u][m].step # "idle" /\ run'[u][m].step = "done"
      BY <1>0 DEF FilesInv, TypeOK, Running, Ended, At
    <3>4. RowKept(u) /\ Finds(u, n, run[u][n]) /\ run[u][n].step = "outcome"
      BY <1>3, OwnerAt DEF DiskInv, Outcome
    <3>5. InOrder(u)'
      BY <1>3, <3>2, <3>3, <3>4 DEF RowKept, InOrder, Owns
    <3>6. 0 \in Runs /\ upload[u].token \in Nat
      BY SizeAssumption DEF Runs, FilesInv, TypeOK, Upload
    <3>7. Stored(u)'
      BY <3>2, <3>3, <3>4, <3>6 DEF RowKept, Stored
    <3>8. Backed(u)'
      <4>1. Quarantined(u)
        BY <3>1, <3>4 DEF Finds
      <4>2. Quarantined(u)'
        BY <1>1, <3>2, <4>1 DEF Quarantined, Staging
      <4>. QED  BY <3>2, <4>2 DEF Backed
    <3>9. \A v \in Uploads \ {u} : Untouched(v)
      BY <1>1, <3>2, <3>3 DEF Untouched, SameRow
    <3>10. Advances(u)
      BY <1>3, <3>2, <3>6 DEF Advances, Spare, Owns
    <3>. QED
      BY <1>1, <1>3, <3>2, <3>5, <3>7, <3>8, <3>9, <3>10, RowMoves DEF RowKept, Owns
  <2>. QED  BY <2>3, <2>4
<1>. QED  BY <1>2, <1>3

LEMMA CommitDisk ==
  ASSUME FilesInv, TypeOK', DiskInv, NEW u \in Uploads, NEW n \in Runs, Commit(u, n)
  PROVE  DiskInv'
<1>0. Running(u, n)
  BY DEF Commit, Running
<1>1. CASE Refused(u, n)
  BY <1>0, <1>1, RefusedDisk
<1>2. CASE ~Refused(u, n)
  <2>1. Owns(u, n) /\ UNCHANGED <<disk, deleter, sweeper>>
    BY <1>2 DEF Commit
  <2>2. upload' = [upload EXCEPT ![u].status = "PASSED"]
    BY <1>2 DEF Commit
  <2>3. /\ upload'[u].status = "PASSED" /\ upload'[u].token = n /\ upload[u].token = n
        /\ upload'[u].file = upload[u].file /\ upload'[u].scan = upload[u].scan
        /\ \A v \in Uploads \ {u} : upload'[v] = upload[v]
    BY <2>1, <2>2 DEF Owns, FilesInv, TypeOK, Upload
  <2>4. PICK a \in {Settled(u, n), OnError(u, n)} : run' = [run EXCEPT ![u][n] = a]
    BY <1>2 DEF Commit, Heard
  <2>5. a.step \in {"publish", "done", "fail"}
    BY <2>4 DEF Commit, Settled, OnError, Ended, At
  <2>6. /\ run'[u][n] = a
        /\ \A m \in Runs \ {n} : run'[u][m] = run[u][m]
        /\ \A v \in Uploads \ {u} : run'[v] = run[v]
    BY <2>4 DEF FilesInv, TypeOK
  <2>7. RowKept(u) /\ Readable(u, n)
    <3>1. Finds(u, n, run[u][n]) /\ run[u][n].step = "commit"
      BY <2>1, OwnerAt DEF Commit
    <3>. QED  BY <3>1 DEF Finds, DiskInv
  <2>8. Runs \subseteq Nat /\ 0 \in Runs
    BY SizeAssumption DEF Runs
  <2>9. InOrder(u)'
    BY <1>0, <2>1, <2>3, <2>5, <2>6, <2>7 DEF RowKept, InOrder, Owns, Running
  <2>10. Stored(u)'
    BY <2>3, <2>5, <2>6, <2>7, <2>8 DEF RowKept, Stored
  <2>11. Backed(u)'
    BY <2>1, <2>3, <2>7 DEF Backed, Readable, Ready
  <2>12. \A v \in Uploads : tombstone'[v] = "NONE" => tombstone[v] = "NONE"
    <3>1. \/ tombstone' = tombstone
          \/ tombstone' = [tombstone EXCEPT ![current[SlotOf[u]]] = Upserted(@)]
      BY <1>2 DEF Commit
    <3>. QED  BY <3>1 DEF FilesInv, TypeOK, Upserted
  <2>13. \A v \in Uploads \ {u} : Untouched(v)
    BY <2>1, <2>3, <2>6, <2>12 DEF Untouched, SameRow
  <2>14. Advances(u)
    <3>1. \A k \in Keys : k[2] <= n => k # Ready(u, n)
      BY <2>8 DEF Ready
    <3>. QED  BY <2>1, <2>3, <2>7, <2>8, <3>1 DEF Advances, Spare, Owns, Readable
  <2>. QED
    BY <2>1, <2>3, <2>9, <2>10, <2>11, <2>13, <2>14, RowMoves DEF RowKept, Owns
<1>. QED  BY <1>1, <1>2

LEMMA FailDisk ==
  ASSUME FilesInv, TypeOK', DiskInv, NEW u \in Uploads, NEW n \in Runs, Fail(u, n)
  PROVE  DiskInv'
<1>0. Running(u, n) /\ UNCHANGED <<disk, deleter, sweeper>>
  BY DEF Fail, Running
<1>1. CASE upload[u].status # "PASSED" /\ Owns(u, n)
  <2>1. /\ upload' = [upload EXCEPT ![u].status = "FAILED"]
        /\ run' = [run EXCEPT ![u][n] = Ended]
        /\ tombstone' \in {tombstone, [tombstone EXCEPT ![u] = Upserted(@)]}
    BY <1>1 DEF Fail
  <2>2. \A v \in Uploads : tombstone'[v] = "NONE" => tombstone[v] = "NONE"
    BY <2>1 DEF FilesInv, TypeOK, Upserted
  <2>. QED  BY <1>0, <1>1, <2>1, <2>2, EndedRow DEF Owns, Active
<1>2. CASE upload[u].status = "PASSED" \/ ~Owns(u, n)
  <2>1. PICK a \in Places :
          run' = [run EXCEPT ![u][n] = a] /\ a \in {Settled(u, n), Ended}
    BY <1>2, SettledIsPlace, EndedIsPlace DEF Fail
  <2>2. UNCHANGED <<upload, tombstone>>
    BY <1>2 DEF Fail
  <2>3. Finds(u, n, a)' /\ a.step \in {"publish", "done"}
    BY <2>1 DEF Finds, Settled, Ended, At
  <2>. QED  BY <1>0, <2>1, <2>2, <2>3, RunStep
<1>. QED  BY <1>1, <1>2

LEMMA PublishDisk ==
  ASSUME FilesInv, TypeOK', DiskInv, NEW u \in Uploads, Publish(u) \/ Unpublish(u)
  PROVE  DiskInv'
<1>0. 0 \in Runs /\ Running(u, 0) /\ UNCHANGED <<upload, disk, deleter, sweeper>>
  BY SizeAssumption DEF Runs, Running, Publish, Unpublish
<1>1. PICK a \in Places :
        run' = [run EXCEPT ![u][0] = a] /\ a \in {OnError(u, 0), Ended}
  BY <1>0, OnErrorIsPlace, EndedIsPlace DEF Publish, Unpublish, Heard
<1>2. Finds(u, 0, a)' /\ a.step \in {"unpublish", "done"}
  BY <1>1 DEF Finds, OnError, Ended, At, Publish, Unpublish
<1>3. \A v \in Uploads : tombstone'[v] = "NONE" => tombstone[v] = "NONE"
  BY DEF Publish, Unpublish, FilesInv, TypeOK, Upserted
<1>. QED  BY <1>0, <1>1, <1>2, <1>3, RunStep

\* A step that neither moves a run nor writes a row that is alive.
LEMMA RowsStand ==
  ASSUME FilesInv, DiskInv, \A u \in Uploads : Untouched(u)
  PROVE  /\ \A u \in Uploads : RowKept(u)'
         /\ \A k \in Keys : Begun(k) => Begun(k)'
         /\ \A k \in Keys : Spare(k) => Spare(k)'
<1>1. \A k \in Keys : k[1] \in Uploads
  BY DEF Keys
<1>. QED  BY <1>1, UntouchedKept DEF DiskInv, Begun, Spare, Untouched, SameRow

\* Keys are compared by the upload they were drawn for.
LEMMA OwnKey ==
  ASSUME FilesInv, DiskInv, NEW k \in Keys, NEW u \in Uploads, upload[u].file = k
  PROVE  k[1] = u
BY NoneIsFresh DEF DiskInv, RowKept, Stored

LEMMA DeletionDisk ==
  ASSUME FilesInv, TypeOK', DiskInv,
         \/ DeleteRemove \/ DeleteRetry \/ DeleteFails
         \/ \E u \in Uploads : Schedule(u) \/ DeleteBegin(u) \/ Age(u)
  PROVE  DiskInv'
<1>1. UNCHANGED <<run, sweeper>> /\ disk' \subseteq disk
  BY DEF DeleteRemove, DeleteRetry, DeleteFails, Schedule, DeleteBegin, Age
<1>2. \A u \in Uploads : /\ SameRow(u)
                        /\ upload'[u].file = upload[u].file
                        /\ upload'[u].scan = upload[u].scan
  <2>1. CASE upload' = upload
    BY <2>1 DEF SameRow
  <2>2. CASE \E u \in Uploads : Age(u)
    <3>1. PICK u \in Uploads : upload' = [upload EXCEPT ![u].old = TRUE]
      BY <2>2 DEF Age
    <3>. QED  BY <3>1 DEF FilesInv, TypeOK, Upload, SameRow
  <2>. QED
    BY <2>1, <2>2
    DEF DeleteRemove, DeleteRetry, DeleteFails, Schedule, DeleteBegin, Age
<1>3. \A u \in Uploads : tombstone'[u] = "NONE" => tombstone[u] = "NONE"
  <2>1. DeleteRetry => deleter.upload \in Uploads
    BY DEF DeleteRetry, FilesInv, Fit, DoomInv, DoomedHasEnded
  <2>. QED
    BY <2>1 DEF DeleteRemove, DeleteRetry, DeleteFails, Schedule, DeleteBegin, Age,
                FilesInv, TypeOK
<1>4. disk \subseteq Keys /\ sweeper.keys \subseteq Keys
  BY DEF FilesInv, TypeOK
<1>5. DeleterFits'
  <2>1. CASE DeleteRemove
    BY <2>1, <1>2 DEF DeleteRemove, DeleterFits, DiskInv, FilesInv, TypeOK
  <2>2. CASE DeleteRetry \/ \E u \in Uploads : Schedule(u) \/ Age(u)
    <3>1. deleter' = Idle \/ (deleter' = deleter /\ disk' = disk)
      BY <2>2 DEF DeleteRetry, Schedule, Age
    <3>2. deleter.step # "idle" => deleter.upload \in Uploads
      BY DEF FilesInv, Fit, DoomInv, DoomedHasEnded
    <3>. QED  BY <1>2, <3>1, <3>2 DEF Idle, DeleterFits, DiskInv
  <2>3. CASE DeleteFails
    <3>1. \/ deleter' = Idle \/ deleter'.step = "retry"
          \/ /\ deleter.step = "remove" /\ deleter'.step = "late"
             /\ deleter'.key = deleter.key /\ deleter'.upload = deleter.upload
      BY <2>3 DEF DeleteFails, FilesInv, TypeOK
    <3>. QED  BY <2>3, <3>1 DEF DeleteFails, Idle, DeleterFits, DiskInv
  <2>4. CASE \E u \in Uploads : DeleteBegin(u)
    BY <2>4 DEF DeleteBegin, DeleterFits
  <2>. QED  BY <2>1, <2>2, <2>3, <2>4
<1>6. \A u \in Uploads : RowKept(u)'
  <2>1. CASE disk' = disk
    BY <1>1, <1>2, <1>3, <2>1, UntouchedKept DEF Untouched, DiskInv
  <2>2. CASE DeleteRemove
    <3>1. PICK d \in Uploads :
            /\ disk' = disk \ {deleter.key}
            /\ deleter.key = upload[d].file /\ deleter.key # None
            /\ upload[d].status \in {"PASSED", "FAILED"} /\ tombstone[d] # "NONE"
            /\ UNCHANGED <<upload, tombstone>>
      BY <2>2 DEF DeleteRemove, DiskInv, DeleterFits, FilesInv, Fit, DoomInv, DoomedHasEnded
    <3>2. deleter.key[1] = d
      BY <3>1 DEF DiskInv, RowKept, Stored
    <3>3. \A u \in Uploads \ {d} : Untouched(u)
      BY <1>1, <3>1, <3>2 DEF Untouched, SameRow
    <3>4. RowKept(d)'
      BY <1>1, <3>1 DEF DiskInv, RowKept, InOrder, Stored, Backed
    <3>. QED  BY <3>1, <3>3, <3>4, UntouchedKept DEF DiskInv
  <2>. QED
    BY <2>1, <2>2 DEF DeleteRetry, DeleteFails, Schedule, DeleteBegin, Age
<1>7. \A k \in Keys : (Begun(k) => Begun(k)') /\ (Spare(k) => Spare(k)')
  <2>1. \A k \in Keys : k[1] \in Uploads
    BY DEF Keys
  <2>. QED  BY <1>2, <2>1 DEF Begun, Spare, SameRow
<1>8. ObjectsBegun' /\ SweepSpares'
  BY <1>1, <1>4, <1>7 DEF ObjectsBegun, SweepSpares, DiskInv
<1>. QED  BY <1>5, <1>6, <1>8 DEF DiskInv

LEMMA DeleteCommitDisk ==
  ASSUME FilesInv, TypeOK', DiskInv, DeleteCommit
  PROVE  DiskInv'
<1>1. PICK d \in Uploads :
      /\ d = deleter.upload
      /\ upload[d].status \in {"PASSED", "FAILED"} /\ tombstone[d] # "NONE"
      /\ UNCHANGED <<disk, run, sweeper>>
  BY DEF DeleteCommit, FilesInv, Fit, DoomInv, DoomedHasEnded
<1>2. /\ upload'[d].status = upload[d].status /\ upload'[d].token = upload[d].token
      /\ upload'[d].file = None
      /\ \A u \in Uploads \ {d} : upload'[u] = upload[u]
  BY <1>1 DEF DeleteCommit, FilesInv, TypeOK, Upload
<1>3. /\ tombstone'[d] = "SUCCEEDED"
      /\ \A u \in Uploads \ {d} : tombstone'[u] = tombstone[u]
  BY <1>1 DEF DeleteCommit, FilesInv, TypeOK
<1>4. None # Staging(d) /\ \A n \in Runs : None # Ready(d, n)
  BY <1>1, NoneIsFresh, SizeAssumption DEF Staging, Ready, Keys, Runs
<1>5. RowKept(d)'
  BY <1>1, <1>2, <1>3, <1>4 DEF DiskInv, RowKept, InOrder, Stored, Backed
<1>6. \A u \in Uploads : RowKept(u)'
  <2>1. \A u \in Uploads \ {d} : Untouched(u)
    BY <1>1, <1>2, <1>3 DEF Untouched, SameRow
  <2>. QED  BY <1>5, <2>1, UntouchedKept DEF DiskInv
<1>7. disk \subseteq Keys /\ sweeper.keys \subseteq Keys /\ None \notin Keys
  BY NoneIsFresh DEF FilesInv, TypeOK
<1>8. \A k \in Keys : (Begun(k) => Begun(k)') /\ (Spare(k) => Spare(k)')
  <2>1. \A k \in Keys : k[1] \in Uploads
    BY DEF Keys
  <2>. QED  BY <1>1, <1>2, <1>7, <2>1 DEF Begun, Spare
<1>9. ObjectsBegun' /\ SweepSpares'
  BY <1>1, <1>7, <1>8 DEF ObjectsBegun, SweepSpares, DiskInv
<1>10. DeleterFits'
  BY DEF DeleteCommit, DeleterFits, Idle, FilesInv, TypeOK
<1>. QED  BY <1>6, <1>9, <1>10 DEF DiskInv

LEMMA SweepDisk ==
  ASSUME FilesInv, TypeOK', DiskInv,
         \/ \E listed \in SUBSET disk : SweepList(listed)
         \/ SweepLock \/ SweepFails \/ Submit \/ Return \/ UNCHANGED vars
  PROVE  DiskInv'
<1>1. UNCHANGED <<upload, tombstone, disk, run, deleter>>
  BY DEF SweepList, SweepLock, SweepFails, Submit, Return, vars
<1>2. \A u \in Uploads : Untouched(u)
  BY <1>1 DEF Untouched, SameRow
<1>3. DeleterFits'
  BY <1>1 DEF DeleterFits, DiskInv
<1>4. sweeper'.keys \subseteq disk \cup sweeper.keys
  BY DEF SweepList, SweepLock, SweepFails, Submit, Return, vars, Resting, FilesInv, TypeOK
<1>5. disk \subseteq Keys /\ sweeper.keys \subseteq Keys
  BY DEF FilesInv, TypeOK
<1>6. ObjectsBegun'
  BY <1>1, <1>2, <1>4, <1>5, RowsStand DEF ObjectsBegun, DiskInv
<1>7. SweepSpares'
  <2>1. CASE SweepLock /\ sweeper'.step = "locked"
    <3>. SUFFICES ASSUME NEW k \in sweeper'.keys PROVE Spare(k)'
      BY DEF SweepSpares
    <3>1. /\ k \in Keys \ Known
          /\ \A u \in Uploads : upload[u].status # "PENDING"
      BY <2>1, <1>5 DEF SweepLock, Resting
    <3>2. PICK u \in Uploads, i \in 0 .. MaxTries + 1 : k = <<u, i>>
      BY <3>1 DEF Keys
    <3>3. upload[u].file = None \/ k # upload[u].file
      BY <3>1, <3>2 DEF Known
    <3>4. k # None
      BY <3>1, NoneIsFresh
    <3>5. upload[u].status = "UNAVAILABLE" => upload[u].file = <<u, 0>> /\ k # upload[u].file
      <4>1. <<u, 0>> \in Keys
        BY SizeAssumption DEF Keys
      <4>. QED  BY <3>3, <4>1, NoneIsFresh DEF DiskInv, RowKept, Backed, Quarantined, Staging
    <3>. QED  BY <1>1, <3>1, <3>2, <3>3, <3>4, <3>5 DEF Spare
  <2>2. CASE SweepFails
    BY <2>2, <1>2, <1>5, RowsStand
    DEF SweepFails, Resting, SweepSpares, DiskInv, FilesInv, TypeOK
  <2>3. CASE sweeper' = sweeper
    BY <2>3, <1>2, <1>5, RowsStand DEF SweepSpares, DiskInv
  <2>. QED
    BY <2>1, <2>2, <2>3 DEF SweepList, SweepLock, Submit, Return, vars, Resting, SweepSpares
<1>. QED  BY <1>2, <1>3, <1>6, <1>7, RowsStand DEF DiskInv

LEMMA SweepRemoveDisk ==
  ASSUME FilesInv, TypeOK', DiskInv, NEW k \in sweeper.keys, SweepRemove(k)
  PROVE  DiskInv'
<1>1. disk' = disk \ {k} /\ UNCHANGED <<upload, tombstone, run, deleter>>
  BY DEF SweepRemove
<1>2. k \in Keys /\ Spare(k)
  BY DEF SweepRemove, DiskInv, SweepSpares, FilesInv, TypeOK
<1>3. PICK u \in Uploads, i \in 0 .. MaxTries + 1 : k = <<u, i>>
  BY <1>2 DEF Keys
<1>4. \A v \in Uploads \ {u} : Untouched(v)
  BY <1>1, <1>3 DEF Untouched, SameRow
<1>5. RowKept(u)'
  <2>1. RowKept(u) /\ InOrder(u)' /\ Stored(u)'
    BY <1>1 DEF DiskInv, RowKept, InOrder, Stored
  <2>. DEFINE n == upload[u].token
  <2>2. n \in Nat /\ i \in Nat
    BY SizeAssumption DEF FilesInv, TypeOK, Upload, Runs
  <2>3. CASE upload[u].status = "PENDING"
    <3>1. Staging(u) # k /\ Ready(u, n) # k
      BY <1>2, <1>3, <2>2, <2>3 DEF Spare, Staging, Ready
    <3>2. Staging(u) \in disk => (Staging(u) \in disk)'
      BY <1>1, <3>1 DEF Staging
    <3>3. Ready(u, n) \in disk => (Ready(u, n) \in disk)'
      BY <1>1, <3>1 DEF Ready
    <3>4. Finds(u, n, run[u][n])
      BY <2>1, <2>3 DEF RowKept, Backed
    <3>5. Finds(u, n, run[u][n])'
      BY <1>1, <3>2, <3>3, <3>4 DEF Finds, Quarantined, Readable
    <3>. QED  BY <1>1, <2>1, <2>3, <3>5 DEF RowKept, Backed
  <2>4. CASE upload[u].status # "PENDING"
    <3>1. upload[u].status = "UNAVAILABLE" => Quarantined(u)'
      BY <1>1, <1>2, <1>3, <2>1 DEF RowKept, Backed, Quarantined, Spare, Staging
    <3>2. upload[u].status = "PASSED" /\ tombstone[u] = "NONE" => Readable(u, n)'
      BY <1>1, <1>2, <1>3, <2>1 DEF RowKept, Backed, Readable, Spare, Ready
    <3>. QED  BY <1>1, <2>1, <2>4, <3>1, <3>2 DEF RowKept, Backed
  <2>. QED  BY <2>3, <2>4
<1>6. sweeper'.keys \subseteq sweeper.keys /\ sweeper'.step \in {"idle", sweeper.step}
  BY DEF SweepRemove, Resting, FilesInv, TypeOK
<1>7. ObjectsBegun' /\ SweepSpares'
  BY <1>1, <1>6 DEF SweepRemove, Resting, ObjectsBegun, SweepSpares, DiskInv, Begun, Spare
<1>8. DeleterFits'
  BY <1>1 DEF DeleterFits, DiskInv
<1>. QED  BY <1>4, <1>5, <1>7, <1>8, UntouchedKept DEF DiskInv

LEMMA DiskInvStep == FilesInv /\ DiskInv /\ [Next]_vars => DiskInv'
<1>. SUFFICES ASSUME FilesInv, DiskInv, [Next]_vars PROVE DiskInv'
  OBVIOUS
<1>0. 0 \in Runs
  BY SizeAssumption DEF Runs
<1>1. TypeOK'
  BY TypeStep DEF FilesInv
<1>2. CASE \E u \in Uploads : Request(u) \/ Expire(u)
  <2>1. PICK u \in Uploads : Request(u) \/ Expire(u)
    BY <1>2
  <2>2. PublishRefused(u) => Running(u, 0) /\ Refused(u, 0)
    BY DEF PublishRefused, Running
  <2>3. Expire(u) => DiskInv'
    BY <1>1, EndedRow DEF Expire
  <2>. QED
    BY <1>0, <1>1, <2>1, <2>2, <2>3, AdmitDisk, DiskDisk, PublishDisk, RefusedDisk DEF Request
<1>3. CASE \E u \in Uploads, n \in Runs :
             ClaimRetry(u, n) \/ Continue(u, n) \/ StepFails(u, n) \/ RunDies(u, n)
  <2>1. PICK u \in Uploads, n \in Runs :
          ClaimRetry(u, n) \/ Continue(u, n) \/ StepFails(u, n) \/ RunDies(u, n)
    BY <1>3
  <2>2. StepFails(u, n) => Running(u, n) /\ Refused(u, n)
    BY DEF StepFails, Running
  <2>. QED
    BY <1>1, <2>1, <2>2, ClaimRetryDisk, DiskDisk, AttachDisk, OutcomeDisk, CommitDisk,
       FailDisk, RefusedDisk DEF Continue
<1>. QED
  BY <1>1, <1>2, <1>3, DeletionDisk, DeleteCommitDisk, SweepDisk, SweepRemoveDisk DEF Next

LEMMA DiskInit == Init => DiskInv
<1>. SUFFICES ASSUME Init PROVE DiskInv
  OBVIOUS
<1>1. \A u \in Uploads : /\ upload[u].status = "ABSENT" /\ upload[u].file = None
                        /\ \A n \in Runs : run[u][n].step = "idle"
  BY DEF Init, Absent, At
<1>2. \A u \in Uploads : None # Staging(u) /\ \A n \in Runs : None # Ready(u, n)
  BY NoneIsFresh, SizeAssumption DEF Staging, Ready, Keys, Runs
<1>3. \A u \in Uploads : RowKept(u)
  BY <1>1, <1>2 DEF RowKept, InOrder, Stored, Backed
<1>4. ObjectsBegun /\ SweepSpares /\ DeleterFits
  BY DEF Init, ObjectsBegun, SweepSpares, DeleterFits, Resting, Idle
<1>. QED  BY <1>3, <1>4 DEF DiskInv

\* The invariant of the disk: rows, runs, jobs and objects fit together in
\* every state, whatever was written unheard, died or outlived its lock.
THEOREM FilesDiskInvariant == Spec => [](FilesInv /\ DiskInv)
<1>1. Init => FilesInv /\ DiskInv
  BY InitInv, DiskInit
<1>2. FilesInv /\ DiskInv /\ [Next]_vars => (FilesInv /\ DiskInv)'
  BY StepInv, DiskInvStep
<1>. QED  BY <1>1, <1>2, PTL DEF Spec

\* The document of a slot and a published template passed the scan, and their
\* bytes are on the disk, for any number of uploads, retries and sweeps that
\* race (the download routes, qualifyFacilitiesDocuments).
THEOREM FilesShownIsReadable == Spec => []ShownIsReadable
<1>1. FilesInv /\ DiskInv => ShownIsReadable
  <2>. SUFFICES ASSUME FilesInv, DiskInv, NEW u \in Shown
                PROVE  /\ upload[u].status = "PASSED" /\ upload[u].scan = "PASSED"
                       /\ upload[u].file \in disk
    BY DEF ShownIsReadable
  <2>1. u \in Uploads
    BY DEF Shown, FilesInv, TypeOK
  <2>2. upload[u].status = "PASSED"
    BY DEF Shown, FilesInv, Fit, RowInv, NamedIsPassed
  <2>3. tombstone[u] = "NONE"
    BY <2>1 DEF FilesInv, Fit, DoomInv, DoomedIsHidden
  <2>. QED  BY <2>1, <2>2, <2>3 DEF DiskInv, RowKept, Backed, Readable
<1>. QED  BY <1>1, FilesDiskInvariant, PTL

\* A quarantined upload keeps the bytes that its next scan reads, and the row
\* says that the scan is due (retryUnavailableFacilitiesScan).
THEOREM FilesQuarantineIsKept == Spec => []QuarantineIsKept
<1>1. DiskInv => QuarantineIsKept
  BY DEF DiskInv, RowKept, Backed, Quarantined, QuarantineIsKept
<1>. QED  BY <1>1, FilesDiskInvariant, PTL

\* What is shown, published or in quarantine keeps its bytes, and nothing that
\* is needed has a tombstone: the two theorems before, and FilesDoomedIsHidden.
THEOREM FilesNeededIsKept == Spec => []NeededIsKept
  BY FilesShownIsReadable, FilesQuarantineIsKept, FilesDoomedIsHidden, PTL DEF NeededIsKept

\* A deletion is recorded as done only after the object was unlinked, and
\* nothing has written it again (reconcileFacilitiesDeletion).
THEOREM FilesDeletedIsGone == Spec => DeletedIsGone
<1>. DEFINE Gone == \A u \in Uploads :
                      tombstone[u] # "SUCCEEDED" /\ tombstone'[u] = "SUCCEEDED" =>
                        upload[u].file \notin disk
<1>1. FilesInv /\ DiskInv /\ [Next]_vars => [Gone]_vars
  <2>. SUFFICES ASSUME FilesInv, DiskInv, Next PROVE Gone
    OBVIOUS
  <2>1. CASE DeleteCommit
    <3>1. deleter.upload \in Uploads
      BY <2>1 DEF DeleteCommit, FilesInv, Fit, DoomInv, DoomedHasEnded
    <3>2. \A u \in Uploads \ {deleter.upload} : tombstone'[u] = tombstone[u]
      BY <2>1 DEF DeleteCommit, FilesInv, TypeOK
    <3>. QED  BY <2>1, <3>1, <3>2 DEF DeleteCommit, DiskInv, DeleterFits
  <2>2. CASE ~DeleteCommit
    <3>1. \/ tombstone' = tombstone
          \/ \E u \in Uploads \cup {None} :
               \/ tombstone' = [tombstone EXCEPT ![u] = Upserted(@)]
               \/ tombstone' = [tombstone EXCEPT ![u] = "PENDING"]
               \/ tombstone' = [tombstone EXCEPT ![u] =
                                  IF @ = "SUCCEEDED" THEN @ ELSE "RETRY_REQUIRED"]
      <4>1. \A s \in Slots : current[s] \in Uploads \cup {None}
        BY DEF FilesInv, TypeOK
      <4>2. deleter.upload \in Uploads \cup {None}
        BY DEF FilesInv, TypeOK
      <4>3. CASE \E u \in Uploads : Request(u) \/ Expire(u) \/ Schedule(u) \/ DeleteBegin(u)
                                      \/ Age(u)
        BY <4>3 DEF Request, Admit, Stage, Publish, PublishRefused, Refused, Unpublish,
                    Expire, Schedule, DeleteBegin, Age
      <4>4. CASE \E u \in Uploads, n \in Runs :
                   ClaimRetry(u, n) \/ Continue(u, n) \/ StepFails(u, n) \/ RunDies(u, n)
        <5>1. PICK u \in Uploads, n \in Runs :
                ClaimRetry(u, n) \/ Continue(u, n) \/ StepFails(u, n) \/ RunDies(u, n)
          BY <4>4
        <5>2. CASE Commit(u, n)
          BY <4>1, <5>2, SlotsAssumption DEF Commit, Refused
        <5>3. CASE Fail(u, n)
          BY <5>3 DEF Fail
        <5>. QED
          BY <5>1, <5>2, <5>3 DEF ClaimRetry, Continue, StepFails, RunDies, Rescan, Link, Unlink,
                                  Attach, Outcome, Refused
      <4>. QED
        BY <2>2, <4>2, <4>3, <4>4
        DEF Next, DeleteRemove, DeleteRetry, DeleteFails, SweepList, SweepLock, SweepFails,
            SweepRemove, Submit, Return
    <3>2. tombstone \in [Uploads -> {"NONE", "PENDING", "RETRY_REQUIRED", "SUCCEEDED"}]
      BY DEF FilesInv, TypeOK
    <3>. QED  BY <3>1, <3>2 DEF Upserted
  <2>. QED  BY <2>1, <2>2
<1>. QED  BY <1>1, FilesDiskInvariant, PTL DEF Spec, DeletedIsGone

-----------------------------------------------------------------------------
(***************************************************************************)
(* The slots keep what SlotPromise promises.  A commit shows a document, a *)
(* deletion discards one when it unlinks, publishing and its withdrawal,   *)
(* the submission and the return map to themselves, and everything else    *)
(* stutters: staging, scans, quarantine, promotions and sweeps are not to  *)
(* be seen.                                                                *)
(***************************************************************************)
Passed(u) == upload[u].status = "PASSED"
Spent == {u \in Uploads : upload[u].status = "PASSED"}
Kept == {u \in Uploads : upload[u].status = "PASSED" /\ upload[u].file \in disk}

\* What the readers of documents see stays as it is.
Unseen(u) == /\ Passed(u)' <=> Passed(u)
             /\ Passed(u) => (upload'[u].file \in disk' <=> upload[u].file \in disk)

LEMMA Stutters ==
  ASSUME UNCHANGED <<editable, current, published>>, \A u \in Uploads : Unseen(u)
  PROVE  UNCHANGED Promise!promised
<1>1. Spent' = Spent
  BY DEF Spent, Unseen, Passed
<1>2. Kept' = Kept
  BY DEF Kept, Unseen, Passed
<1>. QED  BY <1>1, <1>2 DEF Promise!promised, Spent, Kept

LEMMA RequestUnseen ==
  ASSUME FilesInv, DiskInv, NEW u \in Uploads, Admit(u) \/ Stage(u) \/ PublishRefused(u)
  PROVE  UNCHANGED Promise!promised
<1>0. 0 \in Runs
  BY SizeAssumption DEF Runs
<1>1. CASE Admit(u)
  <2>1. ~Passed(u)
    BY <1>0, <1>1 DEF Admit, FilesInv, Fit, RunInv, RunsFitRows, Passed
  <2>2. /\ upload'[u].status = "PENDING" /\ disk' = disk
        /\ \A v \in Uploads \ {u} : upload'[v] = upload[v]
    BY <1>1 DEF Admit, Absent, FilesInv, TypeOK
  <2>. QED  BY <1>1, <2>1, <2>2, Stutters DEF Admit, Unseen, Passed
<1>2. CASE Stage(u)
  <2>1. \A v \in Uploads : upload[v].file # Staging(u)
    <3>1. Staging(u) \in Keys /\ Staging(u)[1] = u
      BY SizeAssumption DEF Staging, Keys
    <3>2. upload[u].file # Staging(u)
      BY <1>2 DEF Stage, DiskInv, RowKept, Stored
    <3>. QED  BY <3>1, <3>2, OwnKey
  <2>. QED  BY <1>2, <2>1, Stutters DEF Stage, Unseen, Passed
<1>3. CASE PublishRefused(u)
  BY <1>3, Stutters DEF PublishRefused, Refused, Unseen, Passed
<1>. QED  BY <1>1, <1>2, <1>3

LEMMA ContinueUnseen ==
  ASSUME FilesInv, DiskInv, NEW u \in Uploads, NEW n \in Runs,
         \/ Rescan(u, n) \/ Link(u, n) \/ Unlink(u, n) \/ Attach(u, n)
         \/ Outcome(u, n) \/ Fail(u, n) \/ Expire(u)
         \/ ClaimRetry(u, n) \/ StepFails(u, n) \/ RunDies(u, n)
  PROVE  UNCHANGED Promise!promised
<1>0. /\ Staging(u) \in Keys /\ Staging(u)[1] = u
      /\ Ready(u, n) \in Keys /\ Ready(u, n)[1] = u /\ Staging(u) # Ready(u, n)
  BY SizeAssumption DEF Staging, Ready, Keys, Runs
<1>1. CASE UNCHANGED <<editable, current, upload, published, disk>>
  BY <1>1, Stutters DEF Unseen, Passed
<1>2. CASE Link(u, n) /\ disk' = disk \cup {Ready(u, n)}
  <2>1. \A v \in Uploads : upload[v].file # Ready(u, n)
    <3>1. upload[u].file # Ready(u, n)
      BY <1>2 DEF Link, DiskInv, RowKept, Stored
    <3>. QED  BY <1>0, <3>1, OwnKey
  <2>. QED  BY <1>2, <2>1, Stutters DEF Link, Refused, Unseen, Passed
<1>3. CASE Unlink(u, n) /\ disk' = disk \ {Staging(u)}
  <2>1. Passed(u) => upload[u].file # Staging(u)
    <3>1. upload[u].token \in Runs
      BY DEF FilesInv, TypeOK, Upload
    <3>2. Staging(u) # Ready(u, upload[u].token)
      BY <3>1, SizeAssumption DEF Staging, Ready, Runs
    <3>. QED  BY <1>0, <3>2, NoneIsFresh DEF DiskInv, RowKept, Backed, Passed
  <2>2. \A v \in Uploads : Passed(v) => upload[v].file # Staging(u)
    BY <1>0, <2>1, OwnKey
  <2>. QED  BY <1>3, <2>2, Stutters DEF Unlink, Refused, Unseen, Passed
<1>4. CASE /\ UNCHANGED <<editable, current, published, disk>>
           /\ ~Passed(u) /\ ~Passed(u)'
           /\ \A v \in Uploads \ {u} : upload'[v] = upload[v]
  BY <1>4, Stutters DEF Unseen, Passed
<1>5. CASE Attach(u, n) /\ ~Refused(u, n)
  <2>1. /\ upload[u].status = "PENDING" /\ upload'[u].status = "PENDING"
        /\ \A v \in Uploads \ {u} : upload'[v] = upload[v]
    BY <1>5 DEF Attach, Owns, FilesInv, TypeOK, Upload
  <2>. QED  BY <1>4, <1>5, <2>1 DEF Attach, Passed
<1>6. CASE Outcome(u, n) /\ Owns(u, n)
  <2>. DEFINE status == IF n > 0 /\ upload[u].old THEN "FAILED"
                        ELSE run[u][n].verdict
  <2>1. upload' = [upload EXCEPT ![u].status = status]
    BY <1>6 DEF Outcome
  <2>2. status # "PASSED"
    BY <1>6 DEF Outcome, FilesInv, Fit, RunInv, StepsFitVerdicts
  <2>. HIDE DEF status
  <2>3. upload'[u].status = status /\ \A v \in Uploads \ {u} : upload'[v] = upload[v]
    BY <2>1 DEF FilesInv, TypeOK, Upload
  <2>. QED  BY <1>4, <1>6, <2>2, <2>3 DEF Outcome, Owns, Passed
<1>7. CASE upload' = [upload EXCEPT ![u].status = "FAILED"] /\ ~Passed(u)
           /\ UNCHANGED <<editable, current, published, disk>>
  <2>1. upload'[u].status = "FAILED" /\ \A v \in Uploads \ {u} : upload'[v] = upload[v]
    BY <1>7 DEF FilesInv, TypeOK, Upload
  <2>. QED  BY <1>4, <1>7, <2>1 DEF Passed
<1>8. CASE ClaimRetry(u, n)
  <2>1. \/ upload' = [upload EXCEPT ![u].status = "FAILED"]
        \/ upload' = [upload EXCEPT ![u].status = "PENDING", ![u].token = n]
    BY <1>8 DEF ClaimRetry
  <2>2. /\ upload'[u].status # "PASSED" /\ upload[u].status = "UNAVAILABLE"
        /\ \A v \in Uploads \ {u} : upload'[v] = upload[v]
    BY <1>8, <2>1 DEF ClaimRetry, FilesInv, TypeOK, Upload
  <2>. QED  BY <1>4, <1>8, <2>2 DEF ClaimRetry, Passed
<1>9. CASE Expire(u)
  BY <1>7, <1>9 DEF Expire, Active, Passed
<1>10. CASE Fail(u, n) /\ upload' # upload
  BY <1>7, <1>10 DEF Fail, Passed
<1>. QED
  BY <1>1, <1>2, <1>3, <1>5, <1>6, <1>8, <1>9, <1>10
  DEF Rescan, Link, Unlink, Attach, Outcome, Fail, StepFails, RunDies, Refused

LEMMA CommitShows ==
  ASSUME FilesInv, DiskInv, NEW u \in Uploads, NEW n \in Runs, Commit(u, n)
  PROVE  [Promise!Next]_(Promise!promised)
<1>. DEFINE s == SlotOf[u]
<1>1. CASE Refused(u, n)
  BY <1>1, Stutters DEF Refused, Unseen, Passed
<1>2. CASE ~Refused(u, n)
  <2>1. /\ Owns(u, n) /\ BindingEditable(s) /\ s \in Slots
        /\ current' = [current EXCEPT ![s] = u]
        /\ UNCHANGED <<editable, published, disk>>
    BY <1>2, SlotsAssumption DEF Commit, Admissible
  <2>2. Readable(u, n)
    <3>1. Finds(u, n, run[u][n]) /\ run[u][n].step = "commit"
      BY <2>1, OwnerAt DEF Commit
    <3>. QED  BY <3>1 DEF Finds
  <2>3. /\ upload[u].status = "PENDING"
        /\ upload'[u].status = "PASSED" /\ upload'[u].file = upload[u].file
        /\ \A v \in Uploads \ {u} : upload'[v] = upload[v]
    <3>1. upload' = [upload EXCEPT ![u].status = "PASSED"]
      BY <1>2 DEF Commit
    <3>. QED  BY <2>1, <3>1 DEF Owns, FilesInv, TypeOK, Upload
  <2>4. u \notin Spent /\ Spent' = Spent \cup {u}
    BY <2>3 DEF Spent
  <2>5. Kept' = Kept \cup {u}
    BY <2>1, <2>2, <2>3 DEF Kept, Readable
  <2>6. editable \/ s \in Templates
    BY <2>1 DEF BindingEditable
  <2>7. Promise!Show(s, u)
    BY <2>1, <2>4, <2>5, <2>6 DEF Promise!Show, Spent, Kept
  <2>. QED  BY <2>1, <2>7 DEF Promise!Next
<1>. QED  BY <1>1, <1>2

LEMMA PublishShows ==
  ASSUME FilesInv, DiskInv, NEW u \in Uploads, Publish(u) \/ Unpublish(u)
  PROVE  [Promise!Next]_(Promise!promised)
<1>. DEFINE s == SlotOf[u]
<1>1. s \in Templates /\ s \in Slots /\ upload[u].status = "PASSED"
  <2>1. 0 \in Runs
    BY SizeAssumption DEF Runs
  <2>. QED
    BY <2>1, SlotsAssumption DEF Publish, Unpublish, FilesInv, Fit, RunInv, StepsFitVerdicts
<1>2. UNCHANGED <<editable, upload, disk>> /\ Spent' = Spent /\ Kept' = Kept
  BY DEF Publish, Unpublish, Spent, Kept
<1>3. CASE Publish(u)
  <2>1. Promise!Publish(s)
    BY <1>1, <1>2, <1>3, NoneIsFresh DEF Publish, Promise!Publish, Spent, Kept
  <2>. QED  BY <1>1, <2>1 DEF Promise!Next
<1>4. CASE Unpublish(u) /\ ~UNCHANGED current
  <2>1. u \notin published /\ current' = [current EXCEPT ![s] = None]
        /\ UNCHANGED published
    BY <1>4 DEF Unpublish
  <2>2. current[s] \notin published
    <3>1. current[s] # None =>
            /\ current[s] \in Uploads /\ SlotOf[current[s]] = s
            /\ upload[current[s]].status = "PASSED"
      BY <1>1 DEF FilesInv, TypeOK, Fit, RowInv, NamedIsPassed
    <3>2. current[s] \in {u, None}
      BY <1>1, <3>1 DEF FilesInv, Fit, RowInv, OnePerTemplate
    <3>3. None \notin published
      BY NoneIsFresh DEF FilesInv, TypeOK
    <3>. QED  BY <2>1, <3>2, <3>3
  <2>3. Promise!Withdraw(s)
    BY <1>1, <1>2, <2>1, <2>2 DEF Promise!Withdraw, Spent, Kept
  <2>. QED  BY <1>1, <2>3 DEF Promise!Next
<1>5. CASE Unpublish(u) /\ UNCHANGED current
  BY <1>2, <1>5, Stutters DEF Unpublish, Unseen, Passed
<1>. QED  BY <1>3, <1>4, <1>5

LEMMA JobsDiscard ==
  ASSUME FilesInv, DiskInv,
         \/ DeleteRemove \/ DeleteCommit \/ DeleteRetry \/ DeleteFails
         \/ \E u \in Uploads : Schedule(u) \/ DeleteBegin(u) \/ Age(u)
         \/ \E listed \in SUBSET disk : SweepList(listed)
         \/ SweepLock \/ SweepFails
         \/ \E k \in sweeper.keys : SweepRemove(k)
  PROVE  [Promise!Next]_(Promise!promised)
<1>1. CASE UNCHANGED <<editable, current, upload, published, disk>>
  BY <1>1, Stutters DEF Unseen, Passed
<1>2. CASE DeleteRemove
  <2>1. PICK d \in Uploads :
          /\ d = deleter.upload /\ disk' = disk \ {upload[d].file} /\ upload[d].file # None
          /\ tombstone[d] # "NONE"
          /\ UNCHANGED <<editable, current, upload, published>>
    BY <1>2 DEF DeleteRemove, DiskInv, DeleterFits, FilesInv, Fit, DoomInv, DoomedHasEnded
  <2>2. d \notin Shown
    BY <2>1 DEF FilesInv, Fit, DoomInv, DoomedIsHidden
  <2>3. d \notin published /\ \A s \in Slots : current[s] # d
    BY <2>2, NoneIsFresh DEF Shown
  <2>4. \A u \in Uploads \ {d} : upload[u].file # upload[d].file
    BY <2>1 DEF DiskInv, RowKept, Stored
  <2>5. Kept' = Kept \ {d} /\ Spent' = Spent
    BY <2>1, <2>4 DEF Kept, Spent
  <2>6. Promise!Discard(d)
    BY <2>1, <2>3, <2>5 DEF Promise!Discard, Kept, Spent
  <2>. QED  BY <2>6 DEF Promise!Next
<1>3. CASE DeleteCommit
  <2>1. PICK d \in Uploads : d = deleter.upload
    BY <1>3 DEF DeleteCommit, FilesInv, Fit, DoomInv, DoomedHasEnded
  <2>2. /\ upload'[d].status = upload[d].status /\ upload'[d].file = None
        /\ \A u \in Uploads \ {d} : upload'[u] = upload[u]
    BY <1>3, <2>1 DEF DeleteCommit, FilesInv, TypeOK, Upload
  <2>3. upload[d].file \notin disk
    BY <1>3, <2>1 DEF DeleteCommit, DiskInv, DeleterFits
  <2>4. None \notin disk
    BY NoneIsFresh DEF FilesInv, TypeOK
  <2>5. UNCHANGED <<editable, current, published, disk>>
    BY <1>3 DEF DeleteCommit
  <2>6. Unseen(d)
    BY <2>2, <2>3, <2>4, <2>5 DEF Unseen, Passed
  <2>7. \A u \in Uploads \ {d} : Unseen(u)
    BY <2>2, <2>5 DEF Unseen, Passed
  <2>. QED  BY <2>5, <2>6, <2>7, Stutters
<1>4. CASE \E u \in Uploads : Age(u)
  <2>1. PICK u \in Uploads : Age(u)
    BY <1>4
  <2>2. \A v \in Uploads : upload'[v].status = upload[v].status /\ upload'[v].file = upload[v].file
    BY <2>1 DEF Age, FilesInv, TypeOK, Upload
  <2>. QED  BY <2>1, <2>2, Stutters DEF Age, Unseen, Passed
<1>5. CASE \E k \in sweeper.keys : SweepRemove(k)
  <2>1. PICK k \in sweeper.keys : SweepRemove(k)
    BY <1>5
  <2>2. k \in Keys /\ Spare(k)
    BY <2>1 DEF SweepRemove, DiskInv, SweepSpares, FilesInv, TypeOK
  <2>3. \A u \in Uploads : Passed(u) => upload[u].file # k
    BY <2>2, OwnKey DEF Passed, Spare
  <2>. QED  BY <2>1, <2>3, Stutters DEF SweepRemove, Unseen, Passed
<1>. QED
  BY <1>1, <1>2, <1>3, <1>4, <1>5
  DEF DeleteRetry, DeleteFails, Schedule, DeleteBegin, SweepList, SweepLock, SweepFails

LEMMA PromiseStep ==
  FilesInv /\ DiskInv /\ [Next]_vars => [Promise!Next]_(Promise!promised)
<1>. SUFFICES ASSUME FilesInv, DiskInv, [Next]_vars
              PROVE  [Promise!Next]_(Promise!promised)
  OBVIOUS
<1>1. CASE UNCHANGED vars
  BY <1>1, Stutters DEF vars, Unseen, Passed
<1>2. CASE Submit
  <2>1. \A s \in Required : current[s] \in Kept
    BY <1>2, SlotsAssumption DEF Submit, Kept, FilesInv, TypeOK
  <2>2. Spent' = Spent /\ Kept' = Kept
    BY <1>2 DEF Submit, Spent, Kept
  <2>3. Promise!Submit
    BY <1>2, <2>1, <2>2 DEF Submit, Promise!Submit, Spent, Kept
  <2>. QED  BY <2>3 DEF Promise!Next
<1>3. CASE Return
  <2>1. Spent' = Spent /\ Kept' = Kept
    BY <1>3 DEF Return, Spent, Kept
  <2>2. Promise!Return
    BY <1>3, <2>1 DEF Return, Promise!Return, Spent, Kept
  <2>. QED  BY <2>2 DEF Promise!Next
<1>4. CASE \E u \in Uploads : Request(u) \/ Expire(u)
  <2>1. 0 \in Runs
    BY SizeAssumption DEF Runs
  <2>. QED  BY <1>4, <2>1, RequestUnseen, ContinueUnseen, PublishShows DEF Request
<1>5. CASE \E u \in Uploads, n \in Runs :
             ClaimRetry(u, n) \/ Continue(u, n) \/ StepFails(u, n) \/ RunDies(u, n)
  BY <1>5, ContinueUnseen, CommitShows DEF Continue
<1>. QED  BY <1>1, <1>2, <1>3, <1>4, <1>5, JobsDiscard DEF Next

LEMMA PromiseInit == Init => Promise!Init
<1>. SUFFICES ASSUME Init PROVE Promise!Init
  OBVIOUS
<1>1. Spent = {} /\ Kept = {}
  BY DEF Init, Absent, Spent, Kept
<1>2. {current[s] : s \in Slots} \ {None} = {}
  BY DEF Init
<1>. QED  BY <1>1, <1>2 DEF Init, Promise!Init, Spent, Kept

\* FacilitiesFiles implements SlotPromise: whatever is uploaded, scanned,
\* promoted, deleted and swept at once, a document that was replaced does not
\* come back, and its bytes stay for as long as it is shown or published.
THEOREM FilesKeepsPromise == Spec => KeepsPromise
  BY PromiseInit, PromiseStep, FilesDiskInvariant, PTL DEF Spec, KeepsPromise, Promise!Spec

-----------------------------------------------------------------------------
(***************************************************************************)
(* Quotas.  A total is a cardinality: that of the set of the units of f,   *)
(* of which it is shown how it grows, splits and compares.                 *)
(***************************************************************************)
Units(f) == UNION {{x} \X (1 .. f[x]) : x \in DOMAIN f}

LEMMA UnitOf ==
  ASSUME NEW S, NEW f \in [S -> Nat], NEW z
  PROVE  z \in Units(f) <=> \E x \in S : z \in {x} \X (1 .. f[x])
BY DEF Units

LEMMA UnitsFinite ==
  ASSUME NEW S, IsFiniteSet(S), NEW f \in [S -> Nat]
  PROVE  /\ IsFiniteSet(Units(f))
         /\ Total(f) = Cardinality(Units(f))
         /\ Total(f) \in Nat
<1>. DEFINE At1(x) == {x} \X (1 .. f[x])
            T == {At1(x) : x \in S}
            g == [x \in S |-> At1(x)]
<1>1. g \in Surjection(S, T)
  BY DEF Surjection
<1>2. IsFiniteSet(T)
  BY <1>1, FS_Surjection
<1>3. ASSUME NEW x \in S PROVE IsFiniteSet(At1(x))
  <2>1. IsFiniteSet({x})
    BY FS_Singleton
  <2>2. f[x] \in Int
    OBVIOUS
  <2>3. IsFiniteSet(1 .. f[x])
    BY <2>2, FS_Interval
  <2>. QED  BY <2>1, <2>3, FS_Product
<1>4. IsFiniteSet(UNION T)
  <2>1. \A U \in T : IsFiniteSet(U)
    BY <1>3
  <2>. HIDE DEF T
  <2>. QED  BY <1>2, <2>1, FS_UNION
<1>5. Units(f) = UNION T
  BY DEF Units
<1>. QED  BY <1>4, <1>5, FS_CardinalityType DEF Total, Units

\* A total of fewer and smaller values is not greater.
LEMMA TotalAtMost ==
  ASSUME NEW S, IsFiniteSet(S), NEW f \in [S -> Nat],
         NEW T \in SUBSET S, NEW g \in [T -> Nat], \A x \in T : g[x] <= f[x]
  PROVE  Total(g) <= Total(f)
<1>1. IsFiniteSet(T)
  BY FS_Subset
<1>2. Units(g) \subseteq Units(f)
  <2>. SUFFICES ASSUME NEW z \in Units(g) PROVE z \in Units(f)
    OBVIOUS
  <2>1. PICK x \in T : z \in {x} \X (1 .. g[x])
    BY UnitOf
  <2>2. 1 .. g[x] \subseteq 1 .. f[x]
    OBVIOUS
  <2>3. z \in {x} \X (1 .. f[x])
    BY <2>1, <2>2
  <2>. QED  BY <2>3, UnitOf
<1>. QED  BY <1>1, <1>2, UnitsFinite, FS_Subset

\* A total is that of a part and that of the rest.
LEMMA TotalSplits ==
  ASSUME NEW S, IsFiniteSet(S), NEW f \in [S -> Nat], NEW T \in SUBSET S
  PROVE  Total(f) = Total([x \in T |-> f[x]]) + Total([x \in S \ T |-> f[x]])
<1>. DEFINE g == [x \in T |-> f[x]]
            h == [x \in S \ T |-> f[x]]
<1>1. g \in [T -> Nat] /\ h \in [S \ T -> Nat]
  OBVIOUS
<1>2. IsFiniteSet(T) /\ IsFiniteSet(S \ T)
  BY FS_Subset
<1>3. \A z : z \in Units(f) <=> \E x \in S : z \in {x} \X (1 .. f[x])
  BY UnitOf
<1>4. \A z : z \in Units(g) <=> \E x \in T : z \in {x} \X (1 .. f[x])
  <2>1. \A z : z \in Units(g) <=> \E x \in T : z \in {x} \X (1 .. g[x])
    BY <1>1, UnitOf
  <2>. QED  BY <2>1
<1>5. \A z : z \in Units(h) <=> \E x \in S \ T : z \in {x} \X (1 .. f[x])
  <2>1. \A z : z \in Units(h) <=> \E x \in S \ T : z \in {x} \X (1 .. h[x])
    BY <1>1, UnitOf
  <2>. QED  BY <2>1
<1>. HIDE DEF g, h
<1>6. Units(f) = Units(g) \cup Units(h)
  BY <1>3, <1>4, <1>5
<1>7. Units(g) \cap Units(h) = {}
  BY <1>4, <1>5
<1>8. /\ IsFiniteSet(Units(g)) /\ Total(g) = Cardinality(Units(g)) /\ Total(g) \in Nat
      /\ IsFiniteSet(Units(h)) /\ Total(h) = Cardinality(Units(h)) /\ Total(h) \in Nat
      /\ Total(f) = Cardinality(Units(f))
  BY <1>1, <1>2, UnitsFinite
<1>9. Cardinality(Units(g) \cup Units(h)) = Total(g) + Total(h) - Cardinality({})
  BY <1>7, <1>8, FS_Union
<1>10. Total(f) = Total(g) + Total(h)
  BY <1>6, <1>8, <1>9, FS_EmptySet
<1>. QED  BY <1>10 DEF g, h

LEMMA TotalOfOne ==
  ASSUME NEW x, NEW f \in [{x} -> Nat]
  PROVE  Total(f) = f[x]
<1>. DEFINE n == f[x]
<1>1. n \in Nat
  OBVIOUS
<1>2. Units(f) = {x} \X (1 .. n)
  BY DEF Units
<1>. HIDE DEF n
<1>3. IsFiniteSet({x}) /\ Cardinality({x}) = 1
  BY FS_Singleton
<1>4. IsFiniteSet(1 .. n) /\ Cardinality(1 .. n) = n
  BY <1>1, FS_Interval
<1>5. Cardinality({x} \X (1 .. n)) = Cardinality({x}) * Cardinality(1 .. n)
  BY <1>3, <1>4, FS_Product
<1>6. Cardinality({x}) * Cardinality(1 .. n) = n
  BY <1>1, <1>3, <1>4
<1>7. Total(f) = Cardinality(Units(f))
  BY DEF Total, Units
<1>8. Total(f) = n
  BY <1>2, <1>5, <1>6, <1>7
<1>. QED  BY <1>8 DEF n

\* Where one value is written over, the total changes by that much.
LEMMA TotalWith ==
  ASSUME NEW S, IsFiniteSet(S), NEW f \in [S -> Nat], NEW x \in S
  PROVE  /\ Total(f) = f[x] + Total([y \in S \ {x} |-> f[y]])
         /\ Total([y \in S \ {x} |-> f[y]]) \in Nat
<1>. DEFINE one == [y \in {x} |-> f[y]]
            rest == [y \in S \ {x} |-> f[y]]
<1>1. {x} \in SUBSET S /\ one \in [{x} -> Nat] /\ rest \in [S \ {x} -> Nat]
  OBVIOUS
<1>2. Total(one) = one[x] /\ one[x] = f[x]
  BY <1>1, TotalOfOne
<1>3. Total(f) = Total(one) + Total(rest)
  BY <1>1, TotalSplits
<1>4. IsFiniteSet(S \ {x})
  BY FS_Subset
<1>5. Total(rest) \in Nat
  BY <1>1, <1>4, UnitsFinite
<1>. QED  BY <1>2, <1>3, <1>5

LEMMA BytesNat ==
  ASSUME NEW S \in SUBSET Uploads, IsFiniteSet(S)
  PROVE  Bytes(S) \in Nat
BY UnitsFinite, SizeAssumption DEF Bytes

LEMMA BytesAtMost ==
  ASSUME NEW S \in SUBSET Uploads, IsFiniteSet(S), NEW T \in SUBSET S
  PROVE  Bytes(T) <= Bytes(S)
<1>. DEFINE f == [u \in S |-> Size[u]]
            g == [u \in T |-> Size[u]]
<1>1. f \in [S -> Nat] /\ g \in [T -> Nat] /\ \A u \in T : g[u] <= f[u]
  BY SizeAssumption
<1>2. Bytes(S) = Total(f) /\ Bytes(T) = Total(g)
  BY DEF Bytes
<1>. HIDE DEF f, g
<1>. QED  BY <1>1, <1>2, TotalAtMost

LEMMA BytesSplit ==
  ASSUME NEW S \in SUBSET Uploads, IsFiniteSet(S), NEW T \in SUBSET S
  PROVE  Bytes(S) = Bytes(T) + Bytes(S \ T)
<1>. DEFINE f == [u \in S |-> Size[u]]
<1>1. f \in [S -> Nat]
  BY SizeAssumption
<1>2. /\ [u \in T |-> f[u]] = [u \in T |-> Size[u]]
      /\ [u \in S \ T |-> f[u]] = [u \in S \ T |-> Size[u]]
  OBVIOUS
<1>3. Total(f) = Total([u \in T |-> f[u]]) + Total([u \in S \ T |-> f[u]])
  BY <1>1, TotalSplits
<1>. QED  BY <1>2, <1>3 DEF Bytes

LEMMA BytesOfOne ==
  ASSUME NEW S \in SUBSET Uploads, IsFiniteSet(S), NEW u \in S
  PROVE  Bytes(S) = Size[u] + Bytes(S \ {u})
<1>. DEFINE f == [v \in S |-> Size[v]]
<1>1. f \in [S -> Nat]
  BY SizeAssumption
<1>2. [v \in S \ {u} |-> f[v]] = [v \in S \ {u} |-> Size[v]] /\ f[u] = Size[u]
  OBVIOUS
<1>3. Total(f) = f[u] + Total([v \in S \ {u} |-> f[v]])
  BY <1>1, TotalWith
<1>. QED  BY <1>2, <1>3 DEF Bytes

-----------------------------------------------------------------------------
(* What a slot is charged, by its parts.                                    *)

Lesser(m, n) == IF m < n THEN m ELSE n
Held(s, shown) == IF shown[s] = None THEN 0 ELSE Size[shown[s]]
Coming(s, rows, shown) ==
  {u \in Uploads : SlotOf[u] = s /\ rows[u].status = "PENDING" /\ shown[s] # u}
Due(s, rows, shown) ==
  {u \in Coming(s, rows, shown) : rows[u].base = shown[s]}

Counted == {u \in Uploads : upload[u].status # "ABSENT"}

LEMMA ChargeIs ==
  ASSUME NEW s, NEW rows, NEW shown
  PROVE  Charge(s, rows, shown) =
           Held(s, shown) + Bytes(Coming(s, rows, shown))
             - Lesser(Held(s, shown), Bytes(Due(s, rows, shown)))
BY DEF Charge, Held, Coming, Due, Lesser

\* A slot is charged the greater of what it holds and what will replace that,
\* and all else that is on its way.
LEMMA ChargeOf ==
  ASSUME NEW s \in Slots, NEW rows, NEW shown,
         shown[s] \in Uploads \cup {None},
         IsFiniteSet(Coming(s, rows, shown))
  PROVE  LET held == Held(s, shown)
             coming == Coming(s, rows, shown)
             due == Due(s, rows, shown)
         IN /\ held \in Nat /\ Bytes(due) \in Nat /\ Bytes(coming \ due) \in Nat
            /\ Bytes(coming) = Bytes(due) + Bytes(coming \ due)
            /\ Charge(s, rows, shown) =
                 (IF held < Bytes(due) THEN Bytes(due) ELSE held)
                   + Bytes(coming \ due)
            /\ Charge(s, rows, shown) \in Nat
<1>. DEFINE held == Held(s, shown)
            coming == Coming(s, rows, shown)
            due == Due(s, rows, shown)
<1>1. held \in Nat
  BY SizeAssumption DEF Held
<1>2. coming \in SUBSET Uploads /\ due \in SUBSET coming
  BY DEF Coming, Due
<1>3. IsFiniteSet(due) /\ IsFiniteSet(coming \ due)
  BY <1>2, FS_Subset
<1>4. Bytes(due) \in Nat /\ Bytes(coming \ due) \in Nat
  BY <1>2, <1>3, BytesNat
<1>5. Bytes(coming) = Bytes(due) + Bytes(coming \ due)
  BY <1>2, BytesSplit
<1>6. Charge(s, rows, shown) = held + Bytes(coming) - Lesser(held, Bytes(due))
  BY ChargeIs
<1>. HIDE DEF held, coming, due
<1>7. Charge(s, rows, shown) =
        (IF held < Bytes(due) THEN Bytes(due) ELSE held) + Bytes(coming \ due)
  BY <1>1, <1>4, <1>5, <1>6 DEF Lesser
<1>8. Charge(s, rows, shown) \in Nat
  BY <1>1, <1>4, <1>7
<1>. QED  BY <1>1, <1>4, <1>5, <1>7, <1>8 DEF held, coming, due

\* The charges of the slots of the application, as they are.
Charging == [s \in Slots \ Templates |-> Charge(s, upload, current)]
QuotaInv == IsFiniteSet(Counted) /\ Charged(upload, current) <= Quota

LEMMA ComingCounted ==
  ASSUME IsFiniteSet(Counted), NEW s
  PROVE  IsFiniteSet(Coming(s, upload, current))
<1>1. Coming(s, upload, current) \in SUBSET Counted
  BY DEF Coming, Counted
<1>. QED  BY <1>1, FS_Subset

LEMMA ChargingTyped ==
  ASSUME TypeOK, IsFiniteSet(Counted)
  PROVE  Charging \in [Slots \ Templates -> Nat]
<1>. SUFFICES ASSUME NEW s \in Slots \ Templates
              PROVE  Charge(s, upload, current) \in Nat
  BY DEF Charging
<1>1. current[s] \in Uploads \cup {None}
  BY DEF TypeOK
<1>. QED  BY <1>1, ComingCounted, ChargeOf

\* Nothing is added to what is on its way to the application: no row becomes
\* pending or changes its base, and the slots stay as they are.
Settling ==
  /\ \A u \in Uploads : /\ SlotOf[u] \notin Templates
                        /\ upload'[u].status = "PENDING"
       => upload[u].status = "PENDING" /\ upload'[u].base = upload[u].base
  /\ \A s \in Slots \ Templates : current'[s] = current[s]

\* What settles is not charged more.
LEMMA ChargeFalls ==
  ASSUME TypeOK, TypeOK', IsFiniteSet(Counted), IsFiniteSet(Counted)', Settling,
         NEW s \in Slots \ Templates
  PROVE  Charge(s, upload', current') <= Charge(s, upload, current)
<1>. DEFINE held == Held(s, current)
            coming == Coming(s, upload, current)
            due == Due(s, upload, current)
            held2 == Held(s, current')
            coming2 == Coming(s, upload', current')
            due2 == Due(s, upload', current')
<1>1. current[s] \in Uploads \cup {None} /\ current'[s] = current[s]
  BY DEF TypeOK, Settling
<1>2. held2 = held
  BY <1>1 DEF Held
<1>3. coming \subseteq Uploads /\ due \subseteq coming
  BY DEF Coming, Due
<1>4. due2 \in SUBSET due /\ coming2 \ due2 \in SUBSET (coming \ due)
  BY <1>1 DEF Settling, Coming, Due
<1>5. IsFiniteSet(coming) /\ IsFiniteSet(coming2)
  <2>1. coming2 \in SUBSET Counted'
    BY DEF Coming, Counted
  <2>. QED  BY <2>1, ComingCounted, FS_Subset
<1>6. IsFiniteSet(due) /\ IsFiniteSet(coming \ due)
  BY <1>3, <1>5, FS_Subset
<1>. HIDE DEF held, coming, due, held2, coming2, due2
<1>7. Bytes(due2) <= Bytes(due) /\ Bytes(coming2 \ due2) <= Bytes(coming \ due)
  BY <1>3, <1>4, <1>6, BytesAtMost
<1>8. /\ held \in Nat /\ Bytes(due) \in Nat /\ Bytes(coming \ due) \in Nat
      /\ Charge(s, upload, current) =
           (IF held < Bytes(due) THEN Bytes(due) ELSE held) + Bytes(coming \ due)
  BY <1>1, <1>5, ChargeOf DEF held, coming, due
<1>9. /\ Bytes(due2) \in Nat /\ Bytes(coming2 \ due2) \in Nat
      /\ Charge(s, upload', current') =
           (IF held2 < Bytes(due2) THEN Bytes(due2) ELSE held2) + Bytes(coming2 \ due2)
  BY <1>1, <1>5, ChargeOf DEF held2, coming2, due2
<1>. QED  BY <1>2, <1>7, <1>8, <1>9

LEMMA SettlingKeepsQuota ==
  ASSUME TypeOK, TypeOK', IsFiniteSet(Counted)', QuotaInv, Settling
  PROVE  QuotaInv'
<1>. DEFINE f == Charging
            g == [s \in Slots \ Templates |-> Charge(s, upload', current')]
<1>1. f \in [Slots \ Templates -> Nat]
  BY ChargingTyped DEF QuotaInv
<1>2. g \in [Slots \ Templates -> Nat]
  <2>1. (TypeOK /\ IsFiniteSet(Counted) => Charging \in [Slots \ Templates -> Nat])'
    BY ChargingTyped, PTL
  <2>. QED  BY <2>1 DEF Charging
<1>3. \A s \in Slots \ Templates : g[s] <= f[s]
  BY ChargeFalls DEF QuotaInv, Charging
<1>4. Charged(upload, current) = Total(f) /\ Charged(upload', current') = Total(g)
  BY DEF Charged, Charging
<1>. HIDE DEF f, g
<1>5. Total(g) <= Total(f)
  BY <1>1, <1>2, <1>3, TotalAtMost, SlotsAssumption
<1>6. Total(g) \in Nat /\ Total(f) \in Nat
  BY <1>1, <1>2, UnitsFinite, SlotsAssumption
<1>7. Charged(upload', current') <= Quota
  BY <1>4, <1>5, <1>6, SizeAssumption DEF QuotaInv
<1>. QED  BY <1>7 DEF QuotaInv

\* No row appears but the one named.
LEMMA CountedGrows ==
  ASSUME IsFiniteSet(Counted), NEW u,
         \A v \in Uploads \ {u} : upload'[v].status # "ABSENT" => upload[v].status # "ABSENT"
  PROVE  IsFiniteSet(Counted)'
<1>1. IsFiniteSet(Counted \cup {u})
  BY FS_AddElement
<1>2. Counted' \in SUBSET (Counted \cup {u})
  BY DEF Counted
<1>. QED  BY <1>1, <1>2, FS_Subset

LEMMA CalmQuota ==
  ASSUME TypeOK, TypeOK', QuotaInv,
         UNCHANGED current \/ \E s \in Templates : \A t \in Slots \ {s} : current'[t] = current[t],
         \A v \in Uploads : /\ upload'[v].status # "ABSENT" => upload[v].status # "ABSENT"
                            /\ upload'[v].status = "PENDING" =>
                                 /\ upload[v].status = "PENDING"
                                 /\ upload'[v].base = upload[v].base
  PROVE  QuotaInv'
<1>1. IsFiniteSet(Counted)'
  <2>1. Counted' \in SUBSET Counted
    BY DEF Counted
  <2>. QED  BY <2>1, FS_Subset DEF QuotaInv
<1>2. Settling
  BY DEF Settling
<1>. QED  BY <1>1, <1>2, SettlingKeepsQuota

\* The triggers look at the quota when a row becomes pending ...
LEMMA AdmitQuota ==
  ASSUME TypeOK, TypeOK', QuotaInv, NEW u \in Uploads, Admit(u)
  PROVE  QuotaInv'
<1>. DEFINE row == [Absent EXCEPT !.status = "PENDING", !.base = current[SlotOf[u]]]
<1>1. upload' = [upload EXCEPT ![u] = row] /\ current' = current
  BY DEF Admit
<1>2. \A v \in Uploads \ {u} : upload'[v] = upload[v]
  BY <1>1 DEF TypeOK
<1>3. IsFiniteSet(Counted)'
  BY <1>2, CountedGrows DEF QuotaInv
<1>4. CASE SlotOf[u] \notin Templates
  <2>1. Charged(upload', current) <= Quota
    BY <1>1, <1>4 DEF Admit, Admissible
  <2>. QED  BY <1>1, <1>3, <2>1 DEF QuotaInv
<1>5. CASE SlotOf[u] \in Templates
  <2>1. Settling
    BY <1>1, <1>2, <1>5 DEF Settling
  <2>. QED  BY <1>3, <2>1, SettlingKeepsQuota
<1>. QED  BY <1>4, <1>5

LEMMA ClaimQuota ==
  ASSUME TypeOK, TypeOK', QuotaInv, NEW u \in Uploads, NEW n \in Runs, ClaimRetry(u, n)
  PROVE  QuotaInv'
<1>1. CASE upload' = [upload EXCEPT ![u].status = "FAILED"]
  <2>1. \A v \in Uploads : v # u => upload'[v] = upload[v]
    BY <1>1 DEF TypeOK
  <2>2. upload'[u].status = "FAILED" /\ upload[u].status # "ABSENT"
    BY <1>1 DEF ClaimRetry, TypeOK, Upload
  <2>. QED  BY <2>1, <2>2, CalmQuota DEF ClaimRetry
<1>2. CASE /\ upload' = [upload EXCEPT ![u].status = "PENDING", ![u].token = n]
           /\ Admissible(u, upload', current)
  <2>1. \A v \in Uploads \ {u} : upload'[v] = upload[v]
    BY <1>2 DEF TypeOK
  <2>2. IsFiniteSet(Counted)'
    BY <2>1, CountedGrows DEF QuotaInv
  <2>3. current' = current
    BY DEF ClaimRetry
  <2>4. CASE SlotOf[u] \notin Templates
    BY <1>2, <2>2, <2>3, <2>4 DEF Admissible, QuotaInv
  <2>5. CASE SlotOf[u] \in Templates
    <3>1. Settling
      BY <2>1, <2>3, <2>5 DEF Settling
    <3>. QED  BY <2>2, <3>1, SettlingKeepsQuota
  <2>. QED  BY <2>4, <2>5
<1>. QED  BY <1>1, <1>2 DEF ClaimRetry

\* ... and when it passes.
LEMMA CommitQuota ==
  ASSUME TypeOK, TypeOK', QuotaInv, NEW u \in Uploads, NEW n \in Runs, Commit(u, n)
  PROVE  QuotaInv'
<1>. DEFINE s == SlotOf[u]
<1>1. CASE Refused(u, n)
  BY <1>1, CalmQuota DEF Refused
<1>2. CASE /\ upload' = [upload EXCEPT ![u].status = "PASSED"]
           /\ current' = [current EXCEPT ![s] = u]
           /\ Owns(u, n)
           /\ s \notin Templates => Charged(upload', current') <= Quota
  <2>1. /\ \A v \in Uploads : v # u => upload'[v] = upload[v]
        /\ \A t \in Slots \ {s} : current'[t] = current[t]
    BY <1>2 DEF TypeOK
  <2>2. upload'[u].status = "PASSED" /\ upload[u].status # "ABSENT"
    BY <1>2 DEF TypeOK, Upload, Owns
  <2>3. CASE s \in Templates
    BY <2>1, <2>2, <2>3, CalmQuota
  <2>4. CASE s \notin Templates
    <3>1. IsFiniteSet(Counted)'
      BY <2>1, CountedGrows DEF QuotaInv
    <3>. QED  BY <1>2, <2>4, <3>1 DEF QuotaInv
  <2>. QED  BY <2>3, <2>4
<1>3. CASE ~Refused(u, n)
  BY <1>2, <1>3 DEF Commit
<1>. QED  BY <1>1, <1>3

\* Whatever else happens to a row, it is not more than was counted.
LEMMA RowQuota ==
  ASSUME TypeOK, TypeOK', QuotaInv, UNCHANGED current, NEW u \in Uploads,
         \A v \in Uploads \ {u} : upload'[v] = upload[v],
         upload'[u].base = upload[u].base, upload[u].status # "ABSENT",
         upload'[u].status = "PENDING" => upload[u].status = "PENDING"
  PROVE  QuotaInv'
<1>1. \A v \in Uploads : v # u => upload'[v] = upload[v]
  OBVIOUS
<1>. QED  BY <1>1, CalmQuota

LEMMA SettleQuota ==
  ASSUME TypeOK, TypeOK', QuotaInv, NEW u \in Uploads, NEW x \in {"FAILED", "UNAVAILABLE", "PASSED"},
         upload' = [upload EXCEPT ![u].status = x], UNCHANGED current,
         upload[u].status # "ABSENT"
  PROVE  QuotaInv'
<1>1. \A v \in Uploads \ {u} : upload'[v] = upload[v]
  BY DEF TypeOK
<1>2. upload'[u].base = upload[u].base /\ upload'[u].status = x
  BY DEF TypeOK, Upload
<1>. QED  BY <1>1, <1>2, RowQuota

LEMMA ContinueQuota ==
  ASSUME FilesInv, TypeOK', QuotaInv, NEW u \in Uploads, NEW n \in Runs, Continue(u, n)
  PROVE  QuotaInv'
<1>0. TypeOK
  BY DEF FilesInv
<1>1. CASE UNCHANGED <<upload, current>>
  BY <1>0, <1>1, CalmQuota
<1>2. CASE Commit(u, n)
  BY <1>0, <1>2, CommitQuota
<1>3. CASE Attach(u, n) /\ ~UNCHANGED <<upload, current>>
  <2>1. /\ upload[u].status = "PENDING"
        /\ upload' = [upload EXCEPT
             ![u].file = IF run[u][n].verdict = "PASSED" THEN Ready(u, n) ELSE Staging(u),
             ![u].scan = StoredScan(run[u][n].verdict)]
        /\ current' = current
    BY <1>3 DEF Attach, Refused, Owns
  <2>2. \A v \in Uploads \ {u} : upload'[v] = upload[v]
    BY <1>0, <2>1 DEF TypeOK
  <2>3. upload'[u].base = upload[u].base /\ upload'[u].status = upload[u].status
    BY <1>0, <2>1 DEF TypeOK, Upload
  <2>. QED  BY <1>0, <2>1, <2>2, <2>3, RowQuota
<1>4. CASE Outcome(u, n) /\ ~UNCHANGED <<upload, current>>
  <2>1. /\ upload[u].status = "PENDING"
        /\ upload' = [upload EXCEPT ![u].status =
             IF n > 0 /\ upload[u].old THEN "FAILED" ELSE run[u][n].verdict]
        /\ current' = current
    BY <1>4 DEF Outcome, Owns
  <2>2. (IF n > 0 /\ upload[u].old THEN "FAILED" ELSE run[u][n].verdict)
          \in {"FAILED", "UNAVAILABLE", "PASSED"}
    BY <1>0 DEF TypeOK, Verdicts
  <2>. QED  BY <1>0, <2>1, <2>2, SettleQuota
<1>5. CASE Fail(u, n) /\ ~UNCHANGED <<upload, current>>
  BY <1>0, <1>5, SettleQuota DEF Fail, Owns
<1>. QED
  BY <1>1, <1>2, <1>3, <1>4, <1>5
  DEF Continue, Rescan, Link, Unlink, Refused

LEMMA QuotaStep ==
  ASSUME FilesInv, QuotaInv, [Next]_vars
  PROVE  QuotaInv'
<1>0. TypeOK /\ TypeOK'
  BY TypeStep DEF FilesInv
<1>1. CASE UNCHANGED <<upload, current>>
  BY <1>0, <1>1, CalmQuota
<1>2. ASSUME NEW u \in Uploads, Admit(u) PROVE QuotaInv'
  BY <1>0, <1>2, AdmitQuota
<1>3. ASSUME NEW u \in Uploads, NEW n \in Runs, ClaimRetry(u, n) PROVE QuotaInv'
  BY <1>0, <1>3, ClaimQuota
<1>4. ASSUME NEW u \in Uploads, NEW n \in Runs, Continue(u, n) PROVE QuotaInv'
  BY <1>0, <1>4, ContinueQuota
<1>5. ASSUME NEW u \in Uploads, Unpublish(u) PROVE QuotaInv'
  <2>1. SlotOf[u] \in Templates
    BY <1>5, SizeAssumption DEF FilesInv, Fit, RunInv, StepsFitVerdicts, Unpublish, Runs
  <2>2. UNCHANGED current \/ \A t \in Slots \ {SlotOf[u]} : current'[t] = current[t]
    BY <1>0, <1>5 DEF Unpublish, TypeOK
  <2>3. UNCHANGED upload
    BY <1>5 DEF Unpublish
  <2>. QED  BY <1>0, <2>1, <2>2, <2>3, CalmQuota
<1>6. ASSUME NEW u \in Uploads, Expire(u) PROVE QuotaInv'
  BY <1>0, <1>6, SettleQuota DEF Expire, Active
<1>7. ASSUME NEW u \in Uploads, Age(u) PROVE QuotaInv'
  <2>1. upload' = [upload EXCEPT ![u].old = TRUE] /\ current' = current
    BY <1>7 DEF Age
  <2>2. \A v \in Uploads \ {u} : upload'[v] = upload[v]
    BY <1>0, <2>1 DEF TypeOK
  <2>3. upload'[u].base = upload[u].base /\ upload'[u].status = upload[u].status
    BY <1>0, <2>1 DEF TypeOK, Upload
  <2>. QED  BY <1>0, <1>7, <2>1, <2>2, <2>3, RowQuota DEF Age
<1>8. CASE DeleteCommit
  <2>. DEFINE u == deleter.upload
  <2>1. u \in Uploads /\ upload[u].status # "ABSENT"
    BY <1>8 DEF FilesInv, Fit, DoomInv, DoomedHasEnded, DeleteCommit
  <2>2. upload' = [upload EXCEPT ![u].file = None, ![u].scan = "NONE"] /\ current' = current
    BY <1>8 DEF DeleteCommit
  <2>. HIDE DEF u
  <2>3. \A v \in Uploads \ {u} : upload'[v] = upload[v]
    BY <1>0, <2>2 DEF TypeOK
  <2>4. upload'[u].base = upload[u].base /\ upload'[u].status = upload[u].status
    BY <1>0, <2>1, <2>2 DEF TypeOK, Upload
  <2>. QED  BY <1>0, <2>1, <2>2, <2>3, <2>4, RowQuota
<1>9. ASSUME NEW u \in Uploads, Request(u) PROVE QuotaInv'
  BY <1>1, <1>2, <1>5, <1>9
  DEF Request, Stage, Publish, PublishRefused, Refused
<1>10. CASE \E u \in Uploads : Schedule(u) \/ DeleteBegin(u)
  BY <1>1, <1>10 DEF Schedule, DeleteBegin
<1>11. CASE \E u \in Uploads, n \in Runs : StepFails(u, n) \/ RunDies(u, n)
  BY <1>1, <1>11 DEF StepFails, RunDies, Refused
<1>12. CASE \/ DeleteRemove \/ DeleteRetry \/ DeleteFails
            \/ \E listed \in SUBSET disk : SweepList(listed)
            \/ SweepLock \/ SweepFails \/ \E k \in sweeper.keys : SweepRemove(k)
            \/ Submit \/ Return \/ UNCHANGED vars
  BY <1>1, <1>12
  DEF DeleteRemove, DeleteRetry, DeleteFails, SweepList, SweepLock, SweepFails,
      SweepRemove, Submit, Return, vars
<1>. QED
  BY <1>3, <1>4, <1>6, <1>7, <1>8, <1>9, <1>10, <1>11, <1>12 DEF Next

LEMMA QuotaInit == Init => QuotaInv
<1>. SUFFICES ASSUME Init PROVE QuotaInv
  OBVIOUS
<1>1. TypeOK
  BY TypeInit
<1>2. Counted = {}
  BY DEF Init, Absent, Counted
<1>3. IsFiniteSet(Counted)
  BY <1>2, FS_EmptySet
<1>4. ASSUME NEW s \in Slots \ Templates PROVE Charge(s, upload, current) = 0
  <2>1. current[s] = None
    BY DEF Init
  <2>2. Coming(s, upload, current) = {} /\ Due(s, upload, current) = {}
    BY <1>2 DEF Coming, Due, Counted
  <2>3. Held(s, current) = 0
    BY <2>1 DEF Held
  <2>4. Bytes({}) = 0
    <3>1. Units([u \in {} |-> Size[u]]) = {}
      BY DEF Units
    <3>. QED  BY <3>1, FS_EmptySet DEF Bytes, Total, Units
  <2>5. Charge(s, upload, current) = 0 + 0 - Lesser(0, 0)
    BY <2>2, <2>3, <2>4, ChargeIs
  <2>. QED  BY <2>5 DEF Lesser
<1>5. Units(Charging) = {}
  BY <1>4 DEF Units, Charging
<1>6. Charged(upload, current) = 0
  BY <1>5, FS_EmptySet DEF Charged, Charging, Total, Units
<1>. QED  BY <1>3, <1>6, SizeAssumption DEF QuotaInv

\* The inductive invariant of the quota: what is charged for the documents
\* that are shown and for all that are on their way stays within it, whatever
\* is admitted, claimed, committed and given up at the same time.
THEOREM FilesQuotaInvariant == Spec => [](FilesInv /\ QuotaInv)
<1>1. Init => QuotaInv
  BY QuotaInit
<1>2. FilesInv /\ QuotaInv /\ [Next]_vars => QuotaInv'
  BY QuotaStep
<1>. QED  BY <1>1, <1>2, FilesInvariant, PTL DEF Spec

\* The documents of the slots are charged to them, and no two slots show one.
LEMMA ChargedIsHeld ==
  ASSUME FilesInv, QuotaInv
  PROVE  QuotaHolds
<1>. DEFINE App == Slots \ Templates
            Showing == {current[s] : s \in App} \ {None}
            f == [u \in Showing |-> Size[u]]
            m == [z \in Units(f) |-> <<SlotOf[z[1]], z[2]>>]
<1>1. /\ Showing \subseteq Uploads
      /\ \A u \in Showing : SlotOf[u] \in App /\ current[SlotOf[u]] = u
  BY DEF FilesInv, TypeOK, Fit, RowInv, NamedIsPassed
<1>2. f \in [Showing -> Nat]
  BY <1>1, SizeAssumption
<1>3. Charging \in [App -> Nat] /\ IsFiniteSet(App)
  BY ChargingTyped, SlotsAssumption DEF FilesInv, QuotaInv
<1>4. ASSUME NEW u \in Showing PROVE Size[u] \in Nat /\ Size[u] <= Charging[SlotOf[u]]
  <2>. DEFINE s == SlotOf[u]
  <2>1. s \in App /\ current[s] = u /\ u \in Uploads /\ u # None
    BY <1>1, <1>4
  <2>2. Held(s, current) = Size[u]
    BY <2>1 DEF Held
  <2>3. IsFiniteSet(Coming(s, upload, current))
    BY ComingCounted DEF QuotaInv
  <2>. HIDE DEF s
  <2>4. /\ Size[u] \in Nat
        /\ Charge(s, upload, current) =
             (IF Size[u] < Bytes(Due(s, upload, current))
              THEN Bytes(Due(s, upload, current)) ELSE Size[u])
               + Bytes(Coming(s, upload, current) \ Due(s, upload, current))
        /\ Bytes(Due(s, upload, current)) \in Nat
        /\ Bytes(Coming(s, upload, current) \ Due(s, upload, current)) \in Nat
    BY <2>1, <2>2, <2>3, ChargeOf
  <2>5. Size[u] <= Charge(s, upload, current)
    BY <2>4
  <2>6. Charging[s] = Charge(s, upload, current)
    BY <2>1 DEF Charging
  <2>. QED  BY <2>4, <2>5, <2>6 DEF s
<1>. HIDE DEF App, Showing, f
<1>5. \A z \in Units(f) : \E u \in Showing : z \in {u} \X (1 .. Size[u])
  <2>1. \A z \in Units(f) : \E u \in Showing : z \in {u} \X (1 .. f[u])
    BY <1>2, UnitOf
  <2>. QED  BY <2>1 DEF f
<1>6. m \in Injection(Units(f), Units(Charging))
  <2>1. ASSUME NEW z \in Units(f) PROVE m[z] \in Units(Charging)
    <3>1. PICK u \in Showing : z \in {u} \X (1 .. Size[u])
      BY <1>5
    <3>2. SlotOf[u] \in App /\ Size[u] \in Nat /\ Size[u] <= Charging[SlotOf[u]]
          /\ Charging[SlotOf[u]] \in Nat
      BY <1>1, <1>3, <1>4
    <3>3. z[1] = u /\ z[2] \in 1 .. Charging[SlotOf[u]]
      BY <3>1, <3>2
    <3>4. m[z] \in {SlotOf[u]} \X (1 .. Charging[SlotOf[u]])
      BY <3>3
    <3>. QED  BY <1>3, <3>2, <3>4, UnitOf
  <2>2. ASSUME NEW y \in Units(f), NEW z \in Units(f), m[y] = m[z] PROVE y = z
    <3>1. PICK u \in Showing : y \in {u} \X (1 .. Size[u])
      BY <1>5
    <3>2. PICK v \in Showing : z \in {v} \X (1 .. Size[v])
      BY <1>5
    <3>3. SlotOf[y[1]] = SlotOf[z[1]] /\ y[2] = z[2]
      BY <2>2
    <3>4. y[1] = u /\ z[1] = v /\ y = <<y[1], y[2]>> /\ z = <<z[1], z[2]>>
      BY <3>1, <3>2
    <3>5. u = v
      BY <1>1, <3>3, <3>4
    <3>. QED  BY <3>3, <3>4, <3>5
  <2>. HIDE DEF m
  <2>3. m \in [Units(f) -> Units(Charging)]
    BY <2>1 DEF m
  <2>. QED  BY <2>2, <2>3 DEF Injection, IsInjective
<1>7. IsFiniteSet(Units(Charging)) /\ Total(Charging) = Cardinality(Units(Charging))
      /\ Total(Charging) \in Nat
  BY <1>3, UnitsFinite
<1>8. IsFiniteSet(Units(f)) /\ Cardinality(Units(f)) <= Total(Charging)
  BY <1>6, <1>7, FS_Injection
<1>9. Bytes(Showing) = Cardinality(Units(f))
  BY DEF Bytes, Total, Units, f
<1>10. Total(Charging) <= Quota
  BY DEF QuotaInv, Charged, Charging
<1>11. Cardinality(Units(f)) \in Nat
  BY <1>8, FS_CardinalityType
<1>12. Bytes(Showing) <= Quota
  BY <1>7, <1>8, <1>9, <1>10, <1>11, SizeAssumption
<1>. QED  BY <1>12 DEF QuotaHolds, Showing, App

\* What passes is charged no more than while it was on its way.
LEMMA PassingFits ==
  ASSUME FilesInv, QuotaInv, NEW u \in Uploads, SlotOf[u] \notin Templates,
         upload[u].status = "PENDING"
  PROVE  Charged([upload EXCEPT ![u].status = "PASSED"],
                 [current EXCEPT ![SlotOf[u]] = u]) <= Quota
<1>. DEFINE s == SlotOf[u]
            App == Slots \ Templates
            rows == [upload EXCEPT ![u].status = "PASSED"]
            shown == [current EXCEPT ![s] = u]
            g == [t \in App |-> Charge(t, rows, shown)]
<1>1. /\ TypeOK /\ s \in App /\ IsFiniteSet(Counted)
      /\ Charging \in [App -> Nat] /\ IsFiniteSet(App)
  BY ChargingTyped, SlotsAssumption DEF FilesInv, QuotaInv
<1>2. /\ \A v \in Uploads : rows[v].base = upload[v].base
      /\ \A v \in Uploads \ {u} : rows[v].status = upload[v].status
      /\ rows[u].status = "PASSED"
      /\ shown[s] = u /\ \A t \in App \ {s} : shown[t] = current[t]
  BY <1>1 DEF TypeOK, Upload
<1>3. \A v \in Uploads : upload[v].status = "PENDING" => current[s] # v
  BY <1>1, NoneIsFresh DEF FilesInv, Fit, RowInv, NamedIsPassed
<1>. HIDE DEF rows, shown
<1>4. ASSUME NEW t \in App \ {s} PROVE Charge(t, rows, shown) = Charge(t, upload, current)
  <2>1. Coming(t, rows, shown) = Coming(t, upload, current)
    BY <1>2 DEF Coming
  <2>2. Due(t, rows, shown) = Due(t, upload, current)
    BY <1>2, <2>1 DEF Due, Coming
  <2>3. Held(t, shown) = Held(t, current)
    BY <1>2 DEF Held
  <2>. QED  BY <2>1, <2>2, <2>3, ChargeIs
<1>5. Charge(s, rows, shown) \in Nat /\ Charge(s, rows, shown) <= Charge(s, upload, current)
  <2>. DEFINE coming == Coming(s, upload, current)
              due == Due(s, upload, current)
              coming2 == Coming(s, rows, shown)
              due2 == Due(s, rows, shown)
  <2>1. coming \in SUBSET Uploads /\ u \in coming /\ IsFiniteSet(coming)
    BY <1>1, <1>3, ComingCounted DEF Coming
  <2>2. coming2 = coming \ {u}
    BY <1>2, <1>3 DEF Coming
  <2>3. IsFiniteSet(coming2)
    BY <2>1, <2>2, FS_Subset
  <2>4. Bytes(coming) = Size[u] + Bytes(coming2)
    BY <2>1, <2>2, BytesOfOne
  <2>5. Held(s, shown) = Size[u]
    BY <1>2, NoneIsFresh DEF Held
  <2>6. current[s] \in Uploads \cup {None} /\ shown[s] \in Uploads \cup {None}
        /\ s \in Slots /\ Size[u] \in Nat
    BY <1>1, <1>2, SizeAssumption DEF TypeOK
  <2>. HIDE DEF s, coming, due, coming2, due2
  <2>7. /\ Bytes(due2) \in Nat /\ Bytes(coming2 \ due2) \in Nat
        /\ Bytes(coming2) = Bytes(due2) + Bytes(coming2 \ due2)
        /\ Charge(s, rows, shown) \in Nat
        /\ Charge(s, rows, shown) =
             (IF Size[u] < Bytes(due2) THEN Bytes(due2) ELSE Size[u]) + Bytes(coming2 \ due2)
    BY <2>3, <2>5, <2>6, ChargeOf DEF coming2, due2
  <2>8. /\ Held(s, current) \in Nat /\ Bytes(due) \in Nat /\ Bytes(coming \ due) \in Nat
        /\ Bytes(coming) = Bytes(due) + Bytes(coming \ due)
        /\ Charge(s, upload, current) =
             (IF Held(s, current) < Bytes(due) THEN Bytes(due) ELSE Held(s, current))
               + Bytes(coming \ due)
    BY <2>1, <2>6, ChargeOf DEF coming, due
  <2>9. Charge(s, rows, shown) <= Size[u] + Bytes(coming2)
    BY <2>6, <2>7
  <2>10. Bytes(coming) <= Charge(s, upload, current)
    BY <2>8
  <2>. QED  BY <2>4, <2>6, <2>7, <2>8, <2>9, <2>10
<1>6. g \in [App -> Nat] /\ \A t \in App : g[t] <= Charging[t]
  <2>1. ASSUME NEW t \in App
        PROVE /\ Charge(t, upload, current) = Charging[t]
              /\ Charge(t, rows, shown) \in Nat
              /\ Charge(t, rows, shown) <= Charging[t]
    <3>1. Charging[t] = Charge(t, upload, current) /\ Charging[t] \in Nat
      BY <1>1 DEF Charging
    <3>. QED  BY <1>4, <1>5, <3>1
  <2>. QED  BY <2>1
<1>7. Charged(rows, shown) = Total(g) /\ Charged(upload, current) = Total(Charging)
  BY DEF Charged, Charging
<1>. HIDE DEF g, App
<1>8. Total(g) <= Total(Charging) /\ Total(g) \in Nat /\ Total(Charging) \in Nat
  BY <1>1, <1>6, TotalAtMost, UnitsFinite
<1>9. Charged(rows, shown) <= Quota
  BY <1>7, <1>8, SizeAssumption DEF QuotaInv
<1>. QED  BY <1>9 DEF rows, shown

\* The bytes of the slots never exceed the quota, and what was admitted is
\* never refused for it: for any number of slots and uploads of any size.
THEOREM FilesQuotaSuffices == Spec => []QuotaSuffices
<1>1. FilesInv /\ QuotaInv => QuotaHolds
  BY ChargedIsHeld
<1>2. FilesInv /\ QuotaInv => AdmittedFits
  BY PassingFits DEF AdmittedFits
<1>. QED  BY <1>1, <1>2, FilesQuotaInvariant, PTL DEF QuotaSuffices
=============================================================================
