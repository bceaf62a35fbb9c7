-------------------------- MODULE FacilitiesFiles --------------------------
(***************************************************************************)
(* The private file store of the facilities programme.  A document is      *)
(* uploaded into a slot (FacilitiesFileBinding) and takes the way          *)
(*                                                                         *)
(*   admitted PENDING -> staged -> scanned -> promoted -> attached to a    *)
(*   StoredFile row -> committed PASSED and made current of its slot       *)
(*                                                                         *)
(* through one transaction or one file operation after the other, any of   *)
(* which may fail, succeed unheard, or be the last of its process.  When   *)
(* the scan gives no answer the bytes wait in quarantine (UNAVAILABLE) and *)
(* the maintenance job scans them again under a retry token.  The document *)
(* that a committed one replaces gets a tombstone, and the maintenance job *)
(* deletes it; it also expires what took more than a day, and sweeps the   *)
(* objects on the disk that no row names.                                  *)
(*                                                                         *)
(* A transaction is one action: it locks the application and the slot      *)
(* first, and its triggers (migration 20260919140000) are conjuncts of its *)
(* guard.  Three last longer and are split: a deletion holds the lock of   *)
(* the slot while it unlinks, the sweep holds an advisory lock while it    *)
(* does, and both may outlive their transaction, which times out after 5s. *)
(* A row of FacilitiesFileUploadAttempt repeats the status of its upload   *)
(* and is left out.                                                        *)
(***************************************************************************)
EXTENDS Naturals, FiniteSets

CONSTANTS
  Uploads,    \* the uploads that requests bring in, one idempotency key each
  Slots,      \* the bindings: slots of one application, and of templates
  Templates,  \* those of them that hold one version of a questionnaire
  Required,   \* those of the application that it may not be submitted without
  SlotOf,     \* the slot of each upload
  Size,       \* its bytes
  Quota,      \* bytes that the slots of the application may hold
  MaxTries,   \* bound: how often one upload is scanned again
  Tripwire,   \* more orphans than this (or than rows) stop a sweep
  MaxListed,  \* bound: how many names one sweep lists
  Faults,     \* which processes meet errors: "upload", "delete", "sweep"
  None        \* SQL NULL

ASSUME SlotsAssumption ==
  /\ Templates \subseteq Slots /\ IsFiniteSet(Slots \ Templates)
  /\ Required \subseteq Slots \ Templates
  /\ SlotOf \in [Uploads -> Slots]
ASSUME SizeAssumption ==
  /\ Size \in [Uploads -> Nat]
  /\ Quota \in Nat /\ MaxTries \in Nat /\ Tripwire \in Nat
  /\ MaxListed \in Nat
ASSUME FaultsAssumption == Faults \subseteq {"upload", "delete", "sweep"}

\* Run 0 of an upload is the request that brings it, run n its n-th rescan.
Runs == 0 .. MaxTries

\* Storage keys.  The staging key of an upload is drawn by its request, a
\* ready key by each run that promotes it.
Keys == Uploads \X (0 .. MaxTries + 1)
Staging(u) == <<u, 0>>
Ready(u, n) == <<u, n + 1>>

ASSUME NoneIsFresh == None \notin Uploads \cup Keys

Verdicts == {"PASSED", "UNAVAILABLE", "FAILED"}

\* "FAILED" stands for every terminal status but PASSED.  token = 0 is a null
\* retryToken, file and scan are the StoredFile row the upload refers to (it
\* is referred to by no other), old says that 24 hours have gone by.
Upload == [status : {"ABSENT", "PENDING"} \cup Verdicts,
           base   : Uploads \cup {None},
           token  : Runs,
           file   : Keys \cup {None},
           scan   : {"NONE", "PENDING", "PASSED", "FAILED"},
           old    : BOOLEAN]

Steps == {"idle", "stage", "link", "unlink", "attach", "outcome", "commit",
          "fail", "publish", "unpublish", "done"}

VARIABLES
  editable,   \* is the status of the application DRAFT or NEEDS_EDIT?
  current,    \* currentUploadId of each slot
  upload,     \* the rows of FacilitiesFileUpload
  tombstone,  \* the status of the FacilitiesFileDeletionTombstone of each
  published,  \* the uploads that a QuestionnaireTemplateVersion names
  disk,       \* the objects in the private storage
  run,        \* where each run of each upload is, and what its scan said
  deleter,    \* the deletion in progress
  sweeper     \* the orphan sweep in progress

vars == <<editable, current, upload, tombstone, published, disk, run,
          deleter, sweeper>>

At(step, verdict) == [step |-> step, verdict |-> verdict]
Ended == At("done", "PASSED")
Idle == [step |-> "idle", upload |-> None, key |-> None]
Resting == [step |-> "idle", keys |-> {}]
Absent == [status |-> "ABSENT", base |-> None, token |-> 0, file |-> None,
           scan |-> "NONE", old |-> FALSE]

Init ==
  /\ editable = TRUE
  /\ current = [s \in Slots |-> None]
  /\ upload = [u \in Uploads |-> Absent]
  /\ tombstone = [u \in Uploads |-> "NONE"]
  /\ published = {} /\ disk = {}
  /\ run = [u \in Uploads |-> [n \in Runs |-> At("idle", "PASSED")]]
  /\ deleter = Idle
  /\ sweeper = Resting

-----------------------------------------------------------------------------
(* Locks and checks that the transactions share.                           *)

\* The lock of the slot is free: no deletion is inside its transaction.
SlotFree(s) ==
  deleter.step \in {"remove", "commit"} => SlotOf[deleter.upload] # s

\* A row of FacilitiesFileUpload may be written: its trigger also takes the
\* advisory lock that a sweep holds exclusively.
Writable(u) == SlotFree(SlotOf[u]) /\ sweeper.step # "locked"

\* Mutant: the status of the application is not looked at.
EditableAnyway(s) == TRUE

\* assertBindingEditable
BindingEditable(s) == s \in Templates \/ editable

Owns(u, n) == upload[u].status = "PENDING" /\ upload[u].token = n

Known == {upload[u].file : u \in Uploads} \ {None}

\* The sum of the values of f, counted one by one.
Total(f) == Cardinality(UNION {{x} \X (1 .. f[x]) : x \in DOMAIN f})

Bytes(S) == Total([u \in S |-> Size[u]])

\* Mutant: more is credited than the slot holds.
ChargeOfAll(s, rows, shown) ==
  LET held == IF shown[s] = None THEN 0 ELSE Size[shown[s]]
      coming == {u \in Uploads : /\ SlotOf[u] = s
                                 /\ rows[u].status = "PENDING"
                                 /\ shown[s] # u}
      due == Bytes({u \in coming : rows[u].base = shown[s]})
  IN held + Bytes(coming) - due

\* What the quota trigger charges a slot: the document it shows and all that
\* are on their way, less what the latter will replace.
Charge(s, rows, shown) ==
  LET held == IF shown[s] = None THEN 0 ELSE Size[shown[s]]
      coming == {u \in Uploads : /\ SlotOf[u] = s
                                 /\ rows[u].status = "PENDING"
                                 /\ shown[s] # u}
      due == Bytes({u \in coming : rows[u].base = shown[s]})
  IN held + Bytes(coming) - (IF held < due THEN held ELSE due)

Charged(rows, shown) ==
  Total([s \in Slots \ Templates |-> Charge(s, rows, shown)])

\* Mutant: it is not checked that the base is still current.
AdmissibleOnAnyBase(u, rows, shown) ==
  LET s == SlotOf[u]
      base == rows[u].base
  IN /\ BindingEditable(s)
     /\ ~rows[u].old
     /\ base # None => upload[base].status = "PASSED"
     /\ s \notin Templates => Charged(rows, shown) <= Quota

\* The trigger of FacilitiesFileUpload, for a row that becomes PENDING, or
\* PASSED and is still counted as PENDING.
Admissible(u, rows, shown) ==
  LET s == SlotOf[u]
      base == rows[u].base
  IN /\ BindingEditable(s)
     /\ ~rows[u].old
     /\ base = current[s]
     /\ base # None => upload[base].status = "PASSED" /\ tombstone[base] = "NONE"
     /\ s \notin Templates => Charged(rows, shown) <= Quota

-----------------------------------------------------------------------------
(* The answers a run gets.                                                 *)

\* A transaction took effect: the run goes on, or hears of an error.
Heard(u, n, next, error) ==
  \E answer \in {next} \cup (IF "upload" \in Faults THEN {error} ELSE {}) :
    run' = [run EXCEPT ![u][n] = answer]

\* What a run does next when its step fails.
OnError(u, n) ==
  LET step == run[u][n].step
      promotion == step \in {"link", "unlink"}
  IN CASE promotion /\ n = 0 -> At("attach", "UNAVAILABLE")
       [] promotion /\ n > 0 -> At("outcome", "UNAVAILABLE")
       [] step = "stage" /\ n > 0 -> At("outcome", "FAILED")
       [] step = "stage" /\ n = 0 -> At("fail", "FAILED")
       [] step = "attach" /\ n > 0 -> At("fail", "FAILED")
       [] step = "commit" -> At("fail", "FAILED")
       [] step = "publish" -> At("unpublish", "PASSED")
       [] OTHER -> Ended

Refused(u, n) ==
  /\ run' = [run EXCEPT ![u][n] = OnError(u, n)]
  /\ UNCHANGED <<editable, current, upload, tombstone, published, disk,
                 deleter, sweeper>>

\* A step fails without effect: the storage or the database is unreachable,
\* or the lock is not granted within 2s.
StepFails(u, n) ==
  /\ "upload" \in Faults
  /\ run[u][n].step \notin {"idle", "done"}
  /\ Refused(u, n)

\* The process dies.
RunDies(u, n) ==
  /\ "upload" \in Faults
  /\ run[u][n].step \notin {"idle", "done"}
  /\ run' = [run EXCEPT ![u][n] = Ended]
  /\ UNCHANGED <<editable, current, upload, tombstone, published, disk,
                 deleter, sweeper>>

-----------------------------------------------------------------------------
(* storeOwnedFacilitiesFile, and the retries of the maintenance job.        *)

\* The transaction that reserves the bytes.  The binding of a template is
\* made for one upload.  An upload that is not admitted leaves no row here.
Admit(u) ==
  LET s == SlotOf[u]
      row == [Absent EXCEPT !.status = "PENDING", !.base = current[s]]
      rows == [upload EXCEPT ![u] = row]
  IN /\ run[u][0].step = "idle"
     /\ Writable(u)
     /\ s \in Templates => \A v \in Uploads :
                             SlotOf[v] = s => upload[v].status = "ABSENT"
     /\ Admissible(u, rows, current)
     /\ upload' = rows
     /\ Heard(u, 0, At("stage", "PASSED"), Ended)
     /\ UNCHANGED <<editable, current, tombstone, published, disk, deleter,
                    sweeper>>

\* The tombstone that an upsert leaves.
Upserted(t) == IF t = "NONE" THEN "PENDING" ELSE t

\* writeStaging and the scan, which touches nothing.
Stage(u) ==
  /\ run[u][0].step = "stage"
  /\ disk' = disk \cup {Staging(u)}
  /\ \E verdict \in Verdicts :
       run' = [run EXCEPT ![u][0] =
                 At(IF verdict = "PASSED" THEN "link" ELSE "attach", verdict)]
  /\ UNCHANGED <<editable, current, upload, tombstone, published, deleter,
                 sweeper>>

\* Mutant: a retry takes a pending upload over.
ClaimPending(u, n) ==
  LET row == upload[u]
      rows == [upload EXCEPT ![u].status = "PENDING", ![u].token = n]
  IN /\ n > 0 /\ run[u][n].step = "idle" /\ run[u][n - 1].step # "idle"
     /\ Writable(u)
     /\ row.status \in {"PENDING", "UNAVAILABLE"} /\ row.scan = "PENDING"
     /\ Admissible(u, rows, current)
     /\ upload' = rows
     /\ Heard(u, n, At("stage", "PASSED"), Ended)
     /\ UNCHANGED <<editable, current, tombstone, published, disk, deleter,
                    sweeper>>

\* The claim of a retry: whoever writes its token first owns the upload.
ClaimRetry(u, n) ==
  LET row == upload[u]
      rows == [upload EXCEPT ![u].status = "PENDING", ![u].token = n]
  IN /\ n > 0 /\ run[u][n].step = "idle" /\ run[u][n - 1].step # "idle"
     /\ Writable(u)
     /\ row.status = "UNAVAILABLE" /\ row.scan = "PENDING"
     /\ \/ /\ row.old
           /\ upload' = [upload EXCEPT ![u].status = "FAILED"]
           /\ UNCHANGED run
        \/ /\ Admissible(u, rows, current)
           /\ upload' = rows
           /\ Heard(u, n, At("stage", "PASSED"), Ended)
     /\ UNCHANGED <<editable, current, tombstone, published, disk, deleter,
                    sweeper>>

\* readStaging and the second scan.
Rescan(u, n) ==
  /\ n > 0 /\ run[u][n].step = "stage"
  /\ \E verdict \in IF Staging(u) \in disk THEN Verdicts ELSE {"FAILED"} :
       run' = [run EXCEPT ![u][n] =
                 At(IF verdict = "PASSED" THEN "link" ELSE "outcome", verdict)]
  /\ UNCHANGED <<editable, current, upload, tombstone, published, disk,
                 deleter, sweeper>>

\* promote: link the ready object, then unlink the staged one.
Link(u, n) ==
  /\ run[u][n].step = "link"
  /\ \/ /\ Staging(u) \in disk
        /\ disk' = disk \cup {Ready(u, n)}
        /\ run' = [run EXCEPT ![u][n] = At("unlink", "PASSED")]
        /\ UNCHANGED <<editable, current, upload, tombstone, published,
                       deleter, sweeper>>
     \/ Staging(u) \notin disk /\ Refused(u, n)

Unlink(u, n) ==
  /\ run[u][n].step = "unlink"
  /\ \/ /\ Staging(u) \in disk
        /\ disk' = disk \ {Staging(u)}
        /\ run' = [run EXCEPT ![u][n] = At("attach", "PASSED")]
        /\ UNCHANGED <<editable, current, upload, tombstone, published,
                       deleter, sweeper>>
     \/ Staging(u) \notin disk /\ Refused(u, n)

StoredScan(verdict) == IF verdict = "UNAVAILABLE" THEN "PENDING" ELSE verdict

\* The StoredFile row; that of a rescan replaces the one of the quarantine.
Attach(u, n) ==
  LET verdict == run[u][n].verdict
      passed == verdict = "PASSED"
  IN /\ run[u][n].step = "attach"
     /\ Writable(u)
     /\ \/ /\ Owns(u, n)
           /\ upload' = [upload EXCEPT
                ![u].file = IF passed THEN Ready(u, n) ELSE Staging(u),
                ![u].scan = StoredScan(verdict)]
           /\ Heard(u, n, At(IF passed THEN "commit" ELSE "outcome", verdict),
                    OnError(u, n))
           /\ UNCHANGED <<editable, current, tombstone, published, disk,
                          deleter, sweeper>>
        \/ ~Owns(u, n) /\ Refused(u, n)

\* An upload that did not pass; ownedOutcome also looks at the clock.
Outcome(u, n) ==
  LET verdict == run[u][n].verdict
      status == IF n > 0 /\ upload[u].old THEN "FAILED" ELSE verdict
  IN /\ run[u][n].step = "outcome"
     /\ Writable(u)
     /\ upload' = IF Owns(u, n) THEN [upload EXCEPT ![u].status = status]
                  ELSE upload
     /\ run' = [run EXCEPT ![u][n] = Ended]
     /\ UNCHANGED <<editable, current, tombstone, published, disk, deleter,
                    sweeper>>

\* What follows a commit: only the request that brought a template publishes.
Settled(u, n) ==
  IF n = 0 /\ SlotOf[u] \in Templates THEN At("publish", "PASSED") ELSE Ended

\* commitFacilitiesUpload
Commit(u, n) ==
  LET s == SlotOf[u]
      rows == [upload EXCEPT ![u].status = "PASSED"]
      shown == [current EXCEPT ![s] = u]
      old == current[s]
      allowed == /\ Owns(u, n)
                 /\ Admissible(u, upload, current)
                 /\ s \notin Templates => Charged(rows, shown) <= Quota
  IN /\ run[u][n].step = "commit"
     /\ Writable(u)
     /\ \/ /\ allowed
           /\ upload' = rows
           /\ current' = shown
           /\ tombstone' = IF old = None THEN tombstone
                           ELSE [tombstone EXCEPT ![old] = Upserted(@)]
           /\ Heard(u, n, Settled(u, n), OnError(u, n))
           /\ UNCHANGED <<editable, published, disk, deleter, sweeper>>
        \/ ~allowed /\ Refused(u, n)

\* After a failure: a commit that took effect unheard is read back, otherwise
\* failPendingFacilitiesUpload ends what the run still owns.
Fail(u, n) ==
  /\ run[u][n].step = "fail"
  /\ \/ /\ upload[u].status = "PASSED"
        /\ run' = [run EXCEPT ![u][n] = Settled(u, n)]
        /\ UNCHANGED <<upload, tombstone>>
     \/ /\ upload[u].status # "PASSED"
        /\ Writable(u)
        /\ \/ /\ Owns(u, n)
              /\ upload' = [upload EXCEPT ![u].status = "FAILED"]
              /\ tombstone' = IF upload[u].file = None THEN tombstone
                              ELSE [tombstone EXCEPT ![u] = Upserted(@)]
           \/ ~Owns(u, n) /\ UNCHANGED <<upload, tombstone>>
        /\ run' = [run EXCEPT ![u][n] = Ended]
  /\ UNCHANGED <<editable, current, published, disk, deleter, sweeper>>

-----------------------------------------------------------------------------
(* Templates: the route of the questionnaires publishes what it stored, or  *)
(* schedules its deletion (scheduleUnpublishedTemplateDeletion).            *)

Publish(u) ==
  /\ run[u][0].step = "publish"
  /\ SlotFree(SlotOf[u])
  /\ current[SlotOf[u]] = u
  /\ upload[u].status = "PASSED" /\ upload[u].file # None
  /\ tombstone[u] = "NONE"
  /\ published' = published \cup {u}
  /\ Heard(u, 0, Ended, OnError(u, 0))
  /\ UNCHANGED <<editable, current, upload, tombstone, disk, deleter, sweeper>>

\* The upload is not current, or its version label was taken meanwhile.
PublishRefused(u) == run[u][0].step = "publish" /\ Refused(u, 0)

\* Mutant: the slot goes on to name it.
UnpublishInPlace(u) ==
  /\ run[u][0].step = "unpublish"
  /\ SlotFree(SlotOf[u])
  /\ tombstone' = IF upload[u].file # None /\ u \notin published
                  THEN [tombstone EXCEPT ![u] = Upserted(@)] ELSE tombstone
  /\ run' = [run EXCEPT ![u][0] = Ended]
  /\ UNCHANGED <<editable, current, upload, published, disk, deleter, sweeper>>

Unpublish(u) ==
  /\ run[u][0].step = "unpublish"
  /\ SlotFree(SlotOf[u])
  /\ IF upload[u].file # None /\ u \notin published
     THEN /\ current' = [current EXCEPT ![SlotOf[u]] = None]
          /\ tombstone' = [tombstone EXCEPT ![u] = Upserted(@)]
     ELSE UNCHANGED <<current, tombstone>>
  /\ run' = [run EXCEPT ![u][0] = Ended]
  /\ UNCHANGED <<editable, upload, published, disk, deleter, sweeper>>

-----------------------------------------------------------------------------
(* The maintenance job on rows.                                             *)

Active == {"PENDING", "UNAVAILABLE"}

\* expireFacilitiesUpload
Expire(u) ==
  /\ Writable(u)
  /\ upload[u].status \in Active /\ upload[u].old
  /\ upload' = [upload EXCEPT ![u].status = "FAILED"]
  /\ UNCHANGED <<editable, current, tombstone, published, disk, run, deleter,
                 sweeper>>

\* reconcileTerminalFacilitiesQuarantine, up to the tombstone.
Schedule(u) ==
  /\ SlotFree(SlotOf[u])
  /\ upload[u].status = "FAILED" /\ upload[u].file # None
  /\ current[SlotOf[u]] # u
  /\ tombstone[u] = "NONE"
  /\ tombstone' = [tombstone EXCEPT ![u] = "PENDING"]
  /\ UNCHANGED <<editable, current, upload, published, disk, run, deleter,
                 sweeper>>

\* Mutant: the row is settled before the object is unlinked.
DeleteRowFirst(u) ==
  /\ deleter.step = "idle"
  /\ tombstone[u] \in {"PENDING", "RETRY_REQUIRED"}
  /\ current[SlotOf[u]] # u
  /\ upload[u].status \notin Active /\ upload[u].file # None
  /\ u \notin published
  /\ deleter' = [step |-> "commit", upload |-> u, key |-> upload[u].file]
  /\ UNCHANGED <<editable, current, upload, tombstone, published, disk, run,
                 sweeper>>

\* Mutant: a deletion that failed is not picked up again.
DeleteOnce(u) ==
  /\ deleter.step = "idle"
  /\ tombstone[u] = "PENDING"
  /\ current[SlotOf[u]] # u
  /\ upload[u].status \notin Active /\ upload[u].file # None
  /\ u \notin published
  /\ deleter' = [step |-> "remove", upload |-> u, key |-> upload[u].file]
  /\ UNCHANGED <<editable, current, upload, tombstone, published, disk, run,
                 sweeper>>

\* reconcileFacilitiesDeletion: it takes the locks and looks for a reference.
DeleteBegin(u) ==
  /\ deleter.step = "idle"
  /\ \/ tombstone[u] \in {"PENDING", "RETRY_REQUIRED"}
     \/ tombstone[u] = "SUCCEEDED" /\ upload[u].file # None
  /\ current[SlotOf[u]] # u
  /\ upload[u].status \notin Active /\ upload[u].file # None
  /\ u \notin published
  /\ deleter' = [step |-> "remove", upload |-> u, key |-> upload[u].file]
  /\ UNCHANGED <<editable, current, upload, tombstone, published, disk, run,
                 sweeper>>

\* It unlinks the object; the transaction may have timed out meanwhile.
DeleteRemove ==
  /\ deleter.step \in {"remove", "late"}
  /\ disk' = disk \ {deleter.key}
  /\ deleter' = [deleter EXCEPT !.step = IF @ = "remove" THEN "commit"
                                         ELSE "retry"]
  /\ UNCHANGED <<editable, current, upload, tombstone, published, run, sweeper>>

DeleteCommit ==
  LET u == deleter.upload
  IN /\ deleter.step = "commit"
     /\ sweeper.step # "locked"
     /\ tombstone' = [tombstone EXCEPT ![u] = "SUCCEEDED"]
     /\ upload' = [upload EXCEPT ![u].file = None, ![u].scan = "NONE"]
     /\ \E step \in {"idle"} \cup (IF "delete" \in Faults THEN {"retry"}
                                   ELSE {}) :
          deleter' = IF step = "idle" THEN Idle
                     ELSE [deleter EXCEPT !.step = step]
     /\ UNCHANGED <<editable, current, published, disk, run, sweeper>>

\* The catch: a tombstone that succeeded unheard is left alone.
DeleteRetry ==
  /\ deleter.step = "retry"
  /\ tombstone' = [tombstone EXCEPT ![deleter.upload] =
                     IF @ = "SUCCEEDED" THEN @ ELSE "RETRY_REQUIRED"]
  /\ deleter' = Idle
  /\ UNCHANGED <<editable, current, upload, published, disk, run, sweeper>>

\* The transaction fails before the unlink, in it or after it; it times out
\* while the unlink is going on; the job dies.
DeleteFails ==
  /\ "delete" \in Faults /\ deleter.step # "idle"
  /\ \/ /\ deleter.step \in {"remove", "late", "commit"}
        /\ deleter' = [deleter EXCEPT !.step = "retry"]
     \/ /\ deleter.step = "remove"
        /\ deleter' = [deleter EXCEPT !.step = "late"]
     \/ deleter' = Idle
  /\ UNCHANGED <<editable, current, upload, tombstone, published, disk, run,
                 sweeper>>

-----------------------------------------------------------------------------
(* reconcileFacilitiesOrphans                                               *)

\* The names are listed before the lock is asked for; an object is listed
\* when it is older than a limit the operator sets.
SweepList(listed) ==
  /\ sweeper.step = "idle"
  /\ listed # {} /\ Cardinality(listed) <= MaxListed
  /\ sweeper' = [step |-> "listed", keys |-> listed]
  /\ UNCHANGED <<editable, current, upload, tombstone, published, disk, run,
                 deleter>>

\* Mutant: uploads on their way are not looked for.
SweepLockAnyway ==
  LET orphans == sweeper.keys \ Known
  IN /\ sweeper.step = "listed"
     /\ sweeper' = IF orphans # {} /\ Known # {}
                   THEN [step |-> "locked", keys |-> orphans] ELSE Resting
     /\ UNCHANGED <<editable, current, upload, tombstone, published, disk, run,
                    deleter>>

\* Under the lock: no upload may be on its way, and neither an empty table
\* nor too many orphans are believed.
SweepLock ==
  LET orphans == sweeper.keys \ Known
      limit == IF Cardinality(Known) > Tripwire THEN Cardinality(Known)
               ELSE Tripwire
      go == /\ \A u \in Uploads : upload[u].status # "PENDING"
            /\ orphans # {} /\ Known # {}
            /\ Cardinality(orphans) <= limit
  IN /\ sweeper.step = "listed"
     /\ sweeper' = IF go THEN [step |-> "locked", keys |-> orphans]
                   ELSE Resting
     /\ UNCHANGED <<editable, current, upload, tombstone, published, disk, run,
                    deleter>>

\* Mutant: only staged objects are removed.
SweepStaged(k) ==
  /\ sweeper.step \in {"locked", "late"} /\ k \in sweeper.keys
  /\ disk' = IF k[2] = 0 THEN disk \ {k} ELSE disk
  /\ sweeper' = IF sweeper.keys = {k} THEN Resting
                ELSE [sweeper EXCEPT !.keys = @ \ {k}]
  /\ UNCHANGED <<editable, current, upload, tombstone, published, run, deleter>>

\* One object after the other; the names outlive a lock that timed out.
SweepRemove(k) ==
  /\ sweeper.step \in {"locked", "late"} /\ k \in sweeper.keys
  /\ disk' = disk \ {k}
  /\ sweeper' = IF sweeper.keys = {k} THEN Resting
                ELSE [sweeper EXCEPT !.keys = @ \ {k}]
  /\ UNCHANGED <<editable, current, upload, tombstone, published, run, deleter>>

SweepFails ==
  /\ "sweep" \in Faults /\ sweeper.step # "idle"
  /\ \/ sweeper' = Resting
     \/ sweeper.step = "locked" /\ sweeper' = [sweeper EXCEPT !.step = "late"]
  /\ UNCHANGED <<editable, current, upload, tombstone, published, disk, run,
                 deleter>>

-----------------------------------------------------------------------------
(* Time and the application.                                                *)

Age(u) ==
  /\ upload[u].status # "ABSENT" /\ ~upload[u].old
  /\ upload' = [upload EXCEPT ![u].old = TRUE]
  /\ UNCHANGED <<editable, current, tombstone, published, disk, run, deleter,
                 sweeper>>

\* The application is submitted once qualifyFacilitiesDocuments has read every
\* required document (or its payment was asked for), and comes back for a correction.
Submit ==
  /\ editable
  /\ \A s \in Required :
       LET u == current[s]
       IN /\ u # None
          /\ upload[u].status = "PASSED" /\ tombstone[u] = "NONE"
          /\ upload[u].file \in disk
  /\ editable' = FALSE
  /\ UNCHANGED <<current, upload, tombstone, published, disk, run, deleter,
                 sweeper>>

Return ==
  /\ ~editable
  /\ editable' = TRUE
  /\ UNCHANGED <<current, upload, tombstone, published, disk, run, deleter,
                 sweeper>>

Request(u) == Admit(u) \/ Stage(u) \/ Publish(u) \/ PublishRefused(u)
                \/ Unpublish(u)
Continue(u, n) == \/ Rescan(u, n) \/ Link(u, n) \/ Unlink(u, n) \/ Attach(u, n)
                  \/ Outcome(u, n) \/ Commit(u, n) \/ Fail(u, n)

Next ==
  \/ \E u \in Uploads : Request(u) \/ Expire(u) \/ Schedule(u) \/ DeleteBegin(u)
                          \/ Age(u)
  \/ \E u \in Uploads, n \in Runs : \/ ClaimRetry(u, n) \/ Continue(u, n)
                                    \/ StepFails(u, n) \/ RunDies(u, n)
  \/ DeleteRemove \/ DeleteCommit \/ DeleteRetry \/ DeleteFails
  \/ \E listed \in SUBSET disk : SweepList(listed)
  \/ SweepLock \/ SweepFails
  \/ \E k \in sweeper.keys : SweepRemove(k)
  \/ Submit \/ Return

Spec == Init /\ [][Next]_vars

\* The maintenance job runs again and again, each queue gets its turn, and
\* neither storage nor database fail every time: strong fairness of its
\* steps.  Nothing is assumed of requests and retries, which may stop
\* anywhere, and time passes.
UnlinkInTime == deleter.step = "remove" /\ DeleteRemove
SweepAll == SweepList(disk)

Maintenance ==
  /\ WF_vars(\E u \in Uploads : Age(u))
  /\ SF_vars(\E u \in Uploads : Expire(u))
  /\ SF_vars(\E u \in Uploads : Schedule(u))
  /\ \A u \in Uploads : SF_vars(DeleteBegin(u))
  /\ SF_vars(UnlinkInTime) /\ SF_vars(DeleteCommit)
  /\ WF_vars(DeleteRemove) /\ WF_vars(DeleteRetry)
  /\ SF_vars(SweepAll) /\ WF_vars(SweepLock)
  /\ WF_vars(\E k \in sweeper.keys : SweepRemove(k))

MaintainedSpec == Spec /\ Maintenance

\* The processes that serve requests and rescan go on with what they began.
Progress ==
  \A u \in Uploads :
    /\ WF_vars(Stage(u)) /\ WF_vars(Publish(u) \/ PublishRefused(u))
    /\ WF_vars(Unpublish(u))
    /\ \A n \in Runs : SF_vars(Continue(u, n))

DiligentSpec == MaintainedSpec /\ Progress

-----------------------------------------------------------------------------
(* Properties.                                                              *)

\* Types of the rows, of the places of the runs and of the two jobs.
TypeOK ==
  /\ editable \in BOOLEAN
  /\ current \in [Slots -> Uploads \cup {None}]
  /\ upload \in [Uploads -> Upload]
  /\ tombstone \in [Uploads -> {"NONE", "PENDING", "RETRY_REQUIRED",
                                "SUCCEEDED"}]
  /\ published \subseteq Uploads
  /\ disk \subseteq Keys
  /\ run \in [Uploads -> [Runs -> [step : Steps, verdict : Verdicts]]]
  /\ deleter \in [step : {"idle", "remove", "late", "commit", "retry"},
                  upload : Uploads \cup {None}, key : Keys \cup {None}]
  /\ sweeper \in [step : {"idle", "listed", "locked", "late"},
                  keys : SUBSET Keys]

Shown == ({current[s] : s \in Slots} \ {None}) \cup published

\* The document of a slot and a published template passed the scan, and
\* their bytes are on the disk: whatever was promoted, swept, deleted or lost
\* an acknowledgement meanwhile (the download routes read them).
ShownIsReadable ==
  \A u \in Shown : /\ upload[u].status = "PASSED"
                   /\ upload[u].scan = "PASSED"
                   /\ upload[u].file \in disk

\* A quarantined upload can be scanned again: its staged bytes are there and
\* its row still says that the scan is due (lifecycle.ts keeps them).
QuarantineIsKept ==
  \A u \in Uploads :
    upload[u].status = "UNAVAILABLE" =>
      /\ upload[u].file = Staging(u) /\ Staging(u) \in disk
      /\ upload[u].scan = "PENDING"

\* Of two replacements of one document one is committed: the committed
\* documents of a slot form a line, and none forks off a replaced one.
OneSuccessor ==
  \A u, v \in Uploads :
    /\ upload[u].status = "PASSED" /\ upload[v].status = "PASSED"
    /\ SlotOf[u] = SlotOf[v] /\ upload[u].base = upload[v].base
    => u = v

\* While an upload is on its way only the holder of its token works on it:
\* no retry starts before the request, or the retry before it, has let go.
OnlyOwnerRuns ==
  \A u \in Uploads, n \in Runs :
    /\ upload[u].status = "PENDING"
    /\ run[u][n].step \notin {"idle", "done"}
    => n = upload[u].token

\* A document with a tombstone is neither the document of its slot nor
\* published, and so its deletion hurts nobody.
DoomedIsHidden == \A u \in Uploads : tombstone[u] # "NONE" => u \notin Shown

\* What is needed is kept: all three.
NeededIsKept == ShownIsReadable /\ QuarantineIsKept /\ DoomedIsHidden

\* A deletion is recorded as done only after the object was unlinked, however
\* often the transaction around the unlink failed.
DeletedIsGone ==
  [][\A u \in Uploads :
       tombstone[u] # "SUCCEEDED" /\ tombstone'[u] = "SUCCEEDED" =>
         upload[u].file \notin disk]_vars

\* The bytes that the slots of the application hold never exceed the quota,
\* whatever was reserved at the same time.
QuotaHolds ==
  Bytes({current[s] : s \in Slots \ Templates} \ {None}) <= Quota

\* An upload that was admitted is not refused for the quota when it commits,
\* minutes later: its reservation was enough.
AdmittedFits ==
  \A u \in Uploads :
    LET s == SlotOf[u]
    IN s \notin Templates /\ upload[u].status = "PENDING"
         /\ upload[u].base = current[s]
       => Charged([upload EXCEPT ![u].status = "PASSED"],
                  [current EXCEPT ![s] = u]) <= Quota

\* What is reserved is enough, and no more than there is: both.
QuotaSuffices == QuotaHolds /\ AdmittedFits

\* The slots keep what SlotPromise promises to those who only see documents.
Promise == INSTANCE SlotPromise WITH
  Documents <- Uploads, Nothing <- None, open <- editable, shown <- current,
  spent <- {u \in Uploads : upload[u].status = "PASSED"},
  kept <- {u \in Uploads : upload[u].status = "PASSED" /\ upload[u].file \in disk}
KeepsPromise == Promise!Spec

\* An upload does not stay on its way or in quarantine for ever, wherever the
\* process that worked on it died.
EndsUp ==
  \A u \in Uploads : upload[u].status \in Active ~> upload[u].status \notin Active

\* A document that failed or was replaced is deleted in the end, although
\* single deletions fail.
IsPurged ==
  \A u \in Uploads :
    (upload[u].status = "FAILED" \/ tombstone[u] # "NONE") /\ upload[u].file # None
      ~> upload[u].file = None

\* An object that no row names or will name is removed, unless the sweep has
\* no row to compare it with.
OrphansGo ==
  \A k \in Keys :
    k \in disk \ Known /\ upload[k[1]].status \notin Active
      ~> k \notin disk \/ Known = {}

\* A template that passed is published or its deletion is scheduled: no
\* passed object becomes unreachable.
NoStrandedTemplate ==
  \A u \in Uploads :
    SlotOf[u] \in Templates /\ upload[u].status = "PASSED"
      ~> u \in published \/ tombstone[u] # "NONE"
=============================================================================
