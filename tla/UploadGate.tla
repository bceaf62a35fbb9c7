----------------------------- MODULE UploadGate -----------------------------
(***************************************************************************)
(* What an upload passes through inside one server process before and      *)
(* while it is scanned: the admission by the rate limiter (lib/uploads/    *)
(* rate-limit.ts) and the semaphore in front of clamd (lib/facilities-     *)
(* files/scanner.ts).  All of this state is memory of one event loop: an   *)
(* action is what the loop runs without an await, and timers and socket    *)
(* events come in any order.  What is stored afterwards is FacilitiesFiles *)
(* and LegacyFiles; here a scan ends and its request is answered.          *)
(***************************************************************************)
EXTENDS Naturals, Sequences, FiniteSetsExt, SequencesExt

CONSTANTS
  Arrivals,        \* upload requests that may arrive
  SubjectOf,       \* the user or admin of each
  Address,         \* the address that all of them come from
  MaxInFlightPerUser, MaxInFlightGlobal, MaxPerUserPerHour, MaxPerIpPerHour,
  ScanLimit        \* the limit of the semaphore

Subjects == {SubjectOf[a] : a \in Arrivals}

ASSUME GateConstants ==
  /\ {MaxInFlightPerUser, MaxInFlightGlobal, MaxPerUserPerHour,
      MaxPerIpPerHour, ScanLimit} \subseteq Nat \ {0}
  /\ Address \notin Subjects /\ IsFiniteSet(Arrivals)

VARIABLES
  stage,           \* where the handler of each request is
  inFlightByUser, inFlightTotal,
  window,          \* entries of the last hour, of each subject and the address
  active, waiters  \* the semaphore

gateVars == <<stage, inFlightByUser, inFlightTotal, window, active, waiters>>
limiter == <<inFlightByUser, inFlightTotal, window>>
semaphore == <<active, waiters>>

GateInit ==
  /\ stage = [a \in Arrivals |-> "new"]
  /\ inFlightByUser = [s \in Subjects |-> 0]
  /\ inFlightTotal = 0
  /\ window = [k \in Subjects \cup {Address} |-> 0]
  /\ active = 0 /\ waiters = <<>>

At(a, s) == stage[a] = s
Goes(a, s) == stage' = [stage EXCEPT ![a] = s]

-----------------------------------------------------------------------------
(* The rate limiter.                                                        *)

Admissible(s) ==
  /\ inFlightTotal < MaxInFlightGlobal
  /\ inFlightByUser[s] < MaxInFlightPerUser
  /\ window[s] < MaxPerUserPerHour
  /\ window[Address] < MaxPerIpPerHour

Admit(a) ==
  LET s == SubjectOf[a]
  IN /\ At(a, "new") /\ Admissible(s)
     /\ window' = [window EXCEPT ![s] = @ + 1, ![Address] = @ + 1]
     /\ inFlightByUser' = [inFlightByUser EXCEPT ![s] = @ + 1]
     /\ inFlightTotal' = inFlightTotal + 1
     /\ Goes(a, "body")
     /\ UNCHANGED <<semaphore>>

\* A denied request holds nothing and may come again.
Deny(a) ==
  /\ At(a, "new") /\ ~Admissible(SubjectOf[a])
  /\ UNCHANGED gateVars

\* An hour after it was made an entry is pruned.
EntryExpires(k) ==
  /\ window[k] > 0
  /\ window' = [window EXCEPT ![k] = @ - 1]
  /\ UNCHANGED <<stage, inFlightByUser, inFlightTotal, semaphore>>

\* The `finally' of the route gives back what the admission holds.
Respond(a) ==
  LET s == SubjectOf[a]
      rest == inFlightByUser[s] - 1
  IN /\ At(a, "respond")
     /\ inFlightByUser' = [inFlightByUser EXCEPT ![s] =
                             IF inFlightByUser[s] = 0 THEN 0 ELSE rest]
     /\ inFlightTotal' = IF inFlightTotal = 0 THEN 0 ELSE inFlightTotal - 1
     /\ Goes(a, "done")
     /\ UNCHANGED <<window, semaphore>>

-----------------------------------------------------------------------------
(* The route between the two, and the semaphore.                            *)

\* The body was read; the form or the file may be refused.
BodyEnds(a, accepted) ==
  /\ At(a, "body")
  /\ Goes(a, IF accepted THEN "acquire" ELSE "respond")
  /\ UNCHANGED <<limiter, semaphore>>

Acquire(a) ==
  /\ At(a, "acquire")
  /\ \/ /\ active < ScanLimit
        /\ active' = active + 1
        /\ Goes(a, "scan")
        /\ UNCHANGED waiters
     \/ /\ active >= ScanLimit
        /\ waiters' = Append(waiters, a)
        /\ Goes(a, "wait")
        /\ UNCHANGED active
  /\ UNCHANGED <<limiter>>

\* Mutant: a waiter that gave up stays in the queue.
TimeoutLeavesWaiter(a) ==
  /\ At(a, "wait")
  /\ Goes(a, "respond")
  /\ UNCHANGED <<limiter, semaphore>>

\* The timer of a waiter that was not granted its slot in time.
QueueTimeout(a) ==
  /\ At(a, "wait")
  /\ waiters' = RemoveFirst(waiters, a)
  /\ Goes(a, "respond")
  /\ UNCHANGED <<limiter, active>>

\* Mutant: a slot that is handed over is counted as free as well.
ReleaseTwice(a) ==
  /\ At(a, "release")
  /\ active' = active - 1
  /\ waiters' = IF waiters = <<>> THEN waiters ELSE Tail(waiters)
  /\ stage' = [b \in Arrivals |-> IF b = a THEN "respond"
                                 ELSE IF waiters # <<>> /\ b = Head(waiters) THEN "scan"
                                 ELSE stage[b]]
  /\ UNCHANGED <<limiter>>

\* The slot goes to the first waiter without anyone else seeing it free.
Release(a) ==
  /\ At(a, "release")
  /\ IF waiters = <<>>
     THEN /\ active' = active - 1
          /\ Goes(a, "respond")
          /\ UNCHANGED waiters
     ELSE /\ active' = active - 1 + 1
          /\ waiters' = Tail(waiters)
          /\ stage' = [stage EXCEPT ![a] = "respond", ![Head(waiters)] = "scan"]
  /\ UNCHANGED <<limiter>>

\* Mutant: nobody looks at a conversation that falls silent.
ScanMayHang(a) ==
  /\ At(a, "scan")
  /\ Goes(a, "release") \/ Goes(a, "silent")
  /\ UNCHANGED <<limiter, semaphore>>

\* The conversation with clamd ends, once: with the NUL of a reply, with the
\* socket closed, in error, idle for too long or overrun by a reply.  The file
\* and the reply are bounded, so that a socket that is not idle ends as well.
ScanEnds(a) ==
  /\ At(a, "scan")
  /\ Goes(a, "release")
  /\ UNCHANGED <<limiter, semaphore>>

GateNext ==
  \/ \E k \in Subjects \cup {Address} : EntryExpires(k)
  \/ \E a \in Arrivals :
       \/ Admit(a) \/ Deny(a) \/ Respond(a)
       \/ \E accepted \in BOOLEAN : BodyEnds(a, accepted)
       \/ Acquire(a) \/ QueueTimeout(a) \/ ScanEnds(a) \/ Release(a)

\* The loop goes on with what can go on, timers fire, a body ends (node ends
\* it for a client that stalls) and conversations end.
GateFairness ==
  \A a \in Arrivals :
    /\ WF_gateVars(Respond(a)) /\ WF_gateVars(Acquire(a))
    /\ WF_gateVars(\E accepted \in BOOLEAN : BodyEnds(a, accepted))
    /\ WF_gateVars(QueueTimeout(a)) /\ WF_gateVars(Release(a))
    /\ WF_gateVars(ScanEnds(a))

GateSpec == GateInit /\ [][GateNext]_gateVars /\ GateFairness

-----------------------------------------------------------------------------
(* Properties.                                                              *)

\* Types of the counters and of the places of the handlers.
GateTypeOK ==
  /\ stage \in [Arrivals -> {"new", "body", "acquire", "wait", "scan",
                             "release", "respond", "done"}]
  /\ inFlightByUser \in [Subjects -> Nat] /\ inFlightTotal \in Nat
  /\ window \in [Subjects \cup {Address} -> Nat]
  /\ active \in Nat /\ waiters \in Seq(Arrivals)

InStage(ss) == {a \in Arrivals : stage[a] \in ss}

\* No slot is lost and none given twice, whichever of grant, release and
\* timeout comes first; and nobody waits while a slot is free.
SlotsMatch ==
  /\ active = Cardinality(InStage({"scan", "release"})) /\ active <= ScanLimit
  /\ Range(waiters) = InStage({"wait"}) /\ IsInjective(waiters)
  /\ waiters # <<>> => active = ScanLimit

\* The counters in flight are the requests that were admitted and have not
\* been answered, of each user and of all, and stay within the limits.
FlightsMatch ==
  LET flying == InStage({"body", "acquire", "wait", "scan", "release", "respond"})
  IN /\ inFlightTotal = Cardinality(flying)
     /\ inFlightTotal <= MaxInFlightGlobal
     /\ \A s \in Subjects :
          /\ inFlightByUser[s] = Cardinality({a \in flying : SubjectOf[a] = s})
          /\ inFlightByUser[s] <= MaxInFlightPerUser

\* Neither the semaphore nor the limiter drifts from the requests it counts, in
\* whatever order events, timers and refusals come.
GateMatches == SlotsMatch /\ FlightsMatch

\* Every admitted request is answered, however many wait and whatever clamd
\* does.
EveryUploadAnswered == \A a \in Arrivals : At(a, "body") ~> At(a, "done")
=============================================================================
