--------------------------- MODULE MaintenanceJob ---------------------------
(***************************************************************************)
(* One file maintenance job (lib/maintenance/file-job.ts, cursor.ts and the *)
(* queues that use them).  A parent takes an advisory lock in a transaction *)
(* that it keeps open, forks a worker, probes its transaction, and reports  *)
(* completion once the worker ended well and the transaction committed.     *)
(* The worker takes the queues in an order that rotates with every run, and *)
(* the rows of a queue after a cursor that it stores before each row.       *)
(* What is done to a row is FacilitiesFiles and LegacyFiles; here a row is  *)
(* visited, and some rows hang or kill every worker that visits them.  The  *)
(* rows stay: those that fail again and again are the hard case.            *)
(***************************************************************************)
EXTENDS Naturals, Sequences

CONSTANTS
  Parents,      \* processes that the scheduler starts again and again
  QueueCount, RowCount,   \* queues, and how many rows each of them has
  PageSize,
  Poison,       \* <<queue, row>> that hang or kill the worker
  MaxLosses,    \* bound: lost connections and killed parents
  NoParent

Queues == 1..QueueCount
RowsOf(q) == 1..RowCount[q]

ASSUME JobConstants ==
  /\ QueueCount \in Nat \ {0} /\ PageSize \in Nat \ {0} /\ MaxLosses \in Nat
  /\ RowCount \in [1..QueueCount -> Nat]
  /\ NoParent \notin Parents

VARIABLES
  lockHolder,   \* whose transaction has the advisory lock
  parent,       \* what each parent awaits
  worker,       \* its worker, with the rest of the order and of the page
  outcome,      \* the message of the worker, once the parent has it
  turn,         \* the stored order: the queue that comes first next time
  cursor,       \* the stored cursors
  losses,
  overtaken     \* parents that another one took the lock from (not stored)

jobVars == <<lockHolder, parent, worker, outcome, turn, cursor, losses, overtaken>>
processes == <<lockHolder, parent, outcome, losses, overtaken>>

Alive == {"order", "turn", "queue", "rows", "busy", "report"}
Worker == [step : Alive \cup {"none", "sent", "failed"},
           order : Seq(Queues), page : Seq(Nat), began : BOOLEAN]
NoWorker == [step |-> "none", order |-> <<>>, page |-> <<>>, began |-> FALSE]

JobInit ==
  /\ lockHolder = NoParent
  /\ parent = [p \in Parents |-> "idle"]
  /\ worker = [p \in Parents |-> NoWorker]
  /\ outcome = [p \in Parents |-> FALSE]
  /\ turn = 1
  /\ cursor = [q \in Queues |-> 0]
  /\ losses = 0
  /\ overtaken = {}

Living(p) == worker[p].step \in Alive

-----------------------------------------------------------------------------
(* The parent.                                                              *)

\* A parent that finds the lock held reports that it skipped, and ends.
StartJob(p) ==
  /\ parent[p] = "idle" /\ lockHolder = NoParent
  /\ lockHolder' = p
  /\ parent' = [parent EXCEPT ![p] = "awaits"]
  /\ worker' = [worker EXCEPT ![p] = [NoWorker EXCEPT !.step = "order"]]
  /\ outcome' = [outcome EXCEPT ![p] = FALSE]
  /\ overtaken' = (overtaken \cup {o \in Parents : parent[o] \in {"awaits", "commits"}})
                    \ {p}
  /\ UNCHANGED <<turn, cursor, losses>>

\* The connection is lost, and with it the transaction and the lock.
LoseLock(p) ==
  /\ lockHolder = p /\ losses < MaxLosses
  /\ lockHolder' = NoParent /\ losses' = losses + 1
  /\ UNCHANGED <<parent, worker, outcome, turn, cursor, overtaken>>

Hung(p) == /\ worker[p].step = "busy"
           /\ <<Head(worker[p].order), Head(worker[p].page)>> \in Poison

\* The worker is killed, and the transaction given up when it has closed.
Kills(p) ==
  /\ worker' = [worker EXCEPT ![p] = NoWorker]
  /\ parent' = [parent EXCEPT ![p] = "idle"]
  /\ lockHolder' = IF lockHolder = p THEN NoParent ELSE lockHolder
  /\ UNCHANGED <<outcome, turn, cursor, overtaken>>

\* The probe fails, or the deadline passes: it is 20 seconds after the one that
\* the worker keeps, unless it hangs (or, at most MaxLosses times, stalls).
GiveUp(p) ==
  /\ parent[p] = "awaits" /\ (lockHolder # p \/ Hung(p))
  /\ Kills(p) /\ UNCHANGED losses
GiveUpOnStall(p) ==
  /\ parent[p] = "awaits" /\ Living(p) /\ losses < MaxLosses
  /\ Kills(p) /\ losses' = losses + 1

\* The message of the worker arrives.
HearOutcome(p) ==
  /\ parent[p] = "awaits" /\ worker[p].step = "sent" /\ ~outcome[p]
  /\ outcome' = [outcome EXCEPT ![p] = TRUE]
  /\ UNCHANGED <<lockHolder, parent, worker, turn, cursor, losses, overtaken>>

\* So does its exit, sometimes first; without both the job has failed.
HearExit(p) ==
  /\ parent[p] = "awaits" /\ worker[p].step \in {"sent", "failed"}
  /\ IF worker[p].step = "sent" /\ outcome[p]
     THEN /\ parent' = [parent EXCEPT ![p] = "commits"]
          /\ UNCHANGED lockHolder
     ELSE /\ parent' = [parent EXCEPT ![p] = "idle"]
          /\ lockHolder' = IF lockHolder = p THEN NoParent ELSE lockHolder
  /\ worker' = [worker EXCEPT ![p] = NoWorker]
  /\ UNCHANGED <<outcome, turn, cursor, losses, overtaken>>

\* Mutant: completion is recorded without waiting for the transaction.
CommitsUnheard(p) ==
  /\ parent[p] = "commits"
  /\ lockHolder' = IF lockHolder = p THEN NoParent ELSE lockHolder
  /\ parent' = [parent EXCEPT ![p] = "reports"]
  /\ UNCHANGED <<worker, outcome, turn, cursor, losses, overtaken>>

\* The commit is acknowledged, or fails on a lost connection.
JobCommits(p) ==
  /\ parent[p] = "commits" /\ lockHolder = p
  /\ lockHolder' = NoParent
  /\ parent' = [parent EXCEPT ![p] = "reports"]
  /\ UNCHANGED <<worker, outcome, turn, cursor, losses, overtaken>>

JobFails(p) ==
  /\ parent[p] = "commits" /\ lockHolder # p
  /\ parent' = [parent EXCEPT ![p] = "idle"]
  /\ UNCHANGED <<lockHolder, worker, outcome, turn, cursor, losses, overtaken>>

RecordCompletion(p) ==
  /\ parent[p] = "reports"
  /\ parent' = [parent EXCEPT ![p] = "idle"]
  /\ outcome' = [outcome EXCEPT ![p] = FALSE]
  /\ UNCHANGED <<lockHolder, worker, turn, cursor, losses, overtaken>>

\* A parent is killed; its worker goes on until it sees the channel close.
ParentDies(p) ==
  /\ parent[p] \in {"awaits", "commits"} /\ losses < MaxLosses
  /\ losses' = losses + 1
  /\ parent' = [parent EXCEPT ![p] = "dead"]
  /\ lockHolder' = IF lockHolder = p THEN NoParent ELSE lockHolder
  /\ UNCHANGED <<worker, outcome, turn, cursor, overtaken>>

\* Mutant: the worker does not watch the channel.
DisconnectIgnored(p) ==
  /\ parent[p] = "dead"
  /\ parent' = [parent EXCEPT ![p] = "idle"]
  /\ UNCHANGED <<lockHolder, worker, outcome, turn, cursor, losses, overtaken>>

Disconnect(p) ==
  /\ parent[p] = "dead"
  /\ parent' = [parent EXCEPT ![p] = "idle"]
  /\ worker' = [worker EXCEPT ![p] = NoWorker]
  /\ UNCHANGED <<lockHolder, outcome, turn, cursor, losses, overtaken>>

-----------------------------------------------------------------------------
(* The worker.                                                              *)

Rotated(start) == [n \in 1..QueueCount |-> ((start + n - 2) % QueueCount) + 1]

ReadOrder(p) ==
  /\ worker[p].step = "order"
  /\ worker' = [worker EXCEPT ![p].step = "turn", ![p].order = Rotated(turn)]
  /\ UNCHANGED <<processes, turn, cursor>>

\* Mutant: every run begins with the same queue.
StoreSameOrder(p) ==
  /\ worker[p].step = "turn"
  /\ turn' = Head(worker[p].order)
  /\ worker' = [worker EXCEPT ![p].step = "queue"]
  /\ UNCHANGED <<processes, cursor>>

\* The next run starts with another queue, whatever becomes of this one.
StoreOrder(p) ==
  /\ worker[p].step = "turn"
  /\ turn' = (Head(worker[p].order) % QueueCount) + 1
  /\ worker' = [worker EXCEPT ![p].step = "queue"]
  /\ UNCHANGED <<processes, cursor>>

After(q, c) ==
  LET rest == RowCount[q] - (IF c = RowCount[q] THEN 0 ELSE c)
      from == RowCount[q] - rest
  IN [n \in 1..(IF rest < PageSize THEN rest ELSE PageSize) |-> from + n]

\* The rows after the cursor, from the beginning again if there are none.
ReadPage(p) ==
  /\ worker[p].step = "queue" /\ worker[p].order # <<>>
  /\ LET q == Head(worker[p].order)
     IN worker' = [worker EXCEPT ![p].step = "rows", ![p].began = FALSE,
                                 ![p].page = After(q, cursor[q])]
  /\ UNCHANGED <<processes, turn, cursor>>

\* The first row of the first queue never finds its time used up.
OutOfTime(p) == worker[p].began \/ Len(worker[p].order) < QueueCount

EndQueue(p) ==
  /\ worker[p].step = "rows"
  /\ worker[p].page = <<>> \/ OutOfTime(p)
  /\ worker' = [worker EXCEPT ![p].step = "queue", ![p].page = <<>>,
                              ![p].order = Tail(@)]
  /\ UNCHANGED <<processes, turn, cursor>>

\* The cursor is stored before the row is worked on.
Advance(p) ==
  /\ worker[p].step = "rows" /\ worker[p].page # <<>>
  /\ cursor' = [cursor EXCEPT ![Head(worker[p].order)] = Head(worker[p].page)]
  /\ worker' = [worker EXCEPT ![p].step = "busy", ![p].began = TRUE]
  /\ UNCHANGED <<processes, turn>>

Visiting(p, q, r) == /\ worker[p].step = "busy"
                     /\ Head(worker[p].order) = q /\ Head(worker[p].page) = r

RowDone(p) ==
  /\ worker[p].step = "busy" /\ ~Hung(p)
  /\ worker' = [worker EXCEPT ![p].step = "rows", ![p].page = Tail(@)]
  /\ UNCHANGED <<processes, turn, cursor>>

\* The work throws, or the process dies: on poison (that does not hang it), or
\* at most MaxLosses times for another reason.
Throws(p) == worker' = [worker EXCEPT ![p] = [NoWorker EXCEPT !.step = "failed"]]
PoisonKills(p) ==
  /\ Hung(p) /\ Throws(p)
  /\ UNCHANGED <<processes, turn, cursor>>
WorkThrows(p) ==
  /\ Living(p) /\ losses < MaxLosses
  /\ Throws(p) /\ losses' = losses + 1
  /\ UNCHANGED <<lockHolder, parent, outcome, turn, cursor, overtaken>>

EndWork(p) ==
  /\ worker[p].step = "queue" /\ worker[p].order = <<>>
  /\ worker' = [worker EXCEPT ![p].step = "report"]
  /\ UNCHANGED <<processes, turn, cursor>>

\* The result is sent before the channel is closed; an error is an exit.
Send(p) ==
  /\ worker[p].step = "report"
  /\ \E s \in {"sent", "failed"} :
       worker' = [worker EXCEPT ![p] = [NoWorker EXCEPT !.step = s]]
  /\ UNCHANGED <<processes, turn, cursor>>

Works(p) ==
  \/ ReadOrder(p) \/ StoreOrder(p) \/ ReadPage(p) \/ EndQueue(p) \/ Advance(p)
  \/ RowDone(p) \/ EndWork(p) \/ Send(p)

JobNext ==
  \E p \in Parents :
    \/ StartJob(p) \/ LoseLock(p) \/ GiveUp(p) \/ GiveUpOnStall(p)
    \/ HearOutcome(p) \/ HearExit(p) \/ JobCommits(p) \/ JobFails(p)
    \/ RecordCompletion(p) \/ ParentDies(p) \/ Disconnect(p)
    \/ Works(p) \/ PoisonKills(p) \/ WorkThrows(p)

\* The scheduler starts parents for ever; timers, events of the channel and the
\* probe reach a parent, and the operations of a worker return.
JobFairness ==
  \A p \in Parents :
    /\ WF_jobVars(StartJob(p)) /\ WF_jobVars(GiveUp(p)) /\ WF_jobVars(HearExit(p))
    /\ WF_jobVars(JobCommits(p)) /\ WF_jobVars(JobFails(p))
    /\ WF_jobVars(RecordCompletion(p)) /\ WF_jobVars(Disconnect(p))
    /\ WF_jobVars(Works(p))

JobSpec == JobInit /\ [][JobNext]_jobVars /\ JobFairness

-----------------------------------------------------------------------------
(* Properties.                                                              *)

\* Types of the processes and of what the database keeps for them.
JobTypeOK ==
  /\ lockHolder \in Parents \cup {NoParent}
  /\ parent \in [Parents -> {"idle", "awaits", "commits", "reports", "dead"}]
  /\ worker \in [Parents -> Worker]
  /\ outcome \in [Parents -> BOOLEAN]
  /\ turn \in Queues
  /\ cursor \in [Queues -> Nat]
  /\ losses \in 0..MaxLosses
  /\ overtaken \subseteq Parents

\* A completion is recorded only for a run that had the lock from its first
\* step to its last, so that no other run of the job began beside it.
ReportIsTrue == \A p \in Parents : parent[p] = "reports" => p \notin overtaken

\* A worker that works without the lock, because the connection or the parent
\* was lost, is stopped.
DoomedStops ==
  \A p \in Parents : (Living(p) /\ lockHolder # p) ~> ~Living(p)

\* No row that hangs or kills every worker keeps another row, of its own queue
\* or of another one, from being visited again and again.
EveryRowVisited ==
  \A q \in Queues : \A r \in RowsOf(q) : []<>(\E p \in Parents : Visiting(p, q, r))
=============================================================================
