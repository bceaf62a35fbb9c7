---------------------------- MODULE MCStorageLive ----------------------------
(* What the maintenance job must bring about, for TLC, in three scenarios:  *)
(*   deletion  two facilities uploads for one slot, and deletions that fail *)
(*   orphans   one facilities upload whose request may die anywhere         *)
(*   legacy    two legacy files for one slot                                *)
(* A scenario is chosen for good, so fairness of a disjunction of actions   *)
(* of different scenarios is fairness of each of them in its own.           *)
EXTENDS LegacyFiles

CONSTANTS u1, u2, a, s1, o1, o2

VARIABLES
  scenario,
  editable, current, upload, tombstone, published, file, run, deleter, sweeper

MCSlotOf == [o \in Objects |-> s1]

Deletion == INSTANCE FacilitiesFiles WITH
  Uploads <- {u1, u2}, Slots <- {a}, Templates <- {}, Required <- {a}, SlotOf <- [u \in {u1, u2} |-> a],
  Size <- [u \in {u1, u2} |-> 1], Quota <- 3, MaxTries <- 0, Tripwire <- 1, MaxListed <- 0,
  Faults <- {"delete"}, disk <- file
Orphans == INSTANCE FacilitiesFiles WITH
  Uploads <- {u1}, Slots <- {a}, Templates <- {}, Required <- {a}, SlotOf <- [u \in {u1} |-> a],
  Size <- [u \in {u1} |-> 1], Quota <- 3, MaxTries <- 1, Tripwire <- 3, MaxListed <- 3,
  Faults <- {"upload"}, disk <- file

facilities == <<editable, current, upload, tombstone, published, file, run, deleter, sweeper>>
liveVars == <<scenario, facilities, vars>>

NoFacilities ==
  /\ editable = None /\ current = None /\ upload = None /\ tombstone = None
  /\ published = None /\ file = None /\ run = None /\ deleter = None
  /\ sweeper = None

\* A legacy application that nobody works on.
Quiet == Init /\ \A s \in Slots : binding[s].file = None

LiveInit ==
  \/ scenario = "deletion" /\ Deletion!Init /\ Quiet
  \/ scenario = "orphans" /\ Orphans!Init /\ Quiet
  \/ scenario = "legacy" /\ Init /\ NoFacilities

InDeletion == scenario = "deletion" /\ UNCHANGED <<scenario, vars>>
InOrphans == scenario = "orphans" /\ UNCHANGED <<scenario, vars>>
InLegacy == scenario = "legacy" /\ UNCHANGED <<scenario, facilities>>

LiveNext ==
  \/ InDeletion /\ Deletion!Next
  \/ InOrphans /\ Orphans!Next
  \/ InLegacy /\ Next

\* Fairness and Maintenance, one conjunct of each in one conjunct here.
LiveFairness ==
  /\ WF_liveVars(\/ InDeletion /\ \E u \in {u1, u2} : Deletion!Age(u)
                 \/ InOrphans /\ Orphans!Age(u1)
                 \/ InLegacy /\ RequestEnds(o1))
  /\ WF_liveVars(\/ InDeletion /\ Deletion!DeleteRemove
                 \/ InOrphans /\ Orphans!DeleteRemove
                 \/ InLegacy /\ RequestEnds(o2))
  /\ WF_liveVars(\/ InDeletion /\ Deletion!DeleteRetry
                 \/ InOrphans /\ Orphans!DeleteRetry)
  /\ WF_liveVars(InOrphans /\ Orphans!SweepLock)
  /\ WF_liveVars(InOrphans /\ \E k \in sweeper.keys : Orphans!SweepRemove(k))
  /\ SF_liveVars(\/ InDeletion /\ \E u \in {u1, u2} : Deletion!Expire(u)
                 \/ InOrphans /\ Orphans!Expire(u1)
                 \/ InLegacy /\ Authorize(o1))
  /\ SF_liveVars(\/ InDeletion /\ \E u \in {u1, u2} : Deletion!Schedule(u)
                 \/ InOrphans /\ Orphans!Schedule(u1)
                 \/ InLegacy /\ Authorize(o2))
  /\ SF_liveVars(\/ InDeletion /\ Deletion!DeleteBegin(u1)
                 \/ InOrphans /\ Orphans!DeleteBegin(u1)
                 \/ InLegacy /\ Abandon(o1))
  /\ SF_liveVars(\/ InDeletion /\ Deletion!DeleteBegin(u2)
                 \/ InOrphans /\ Orphans!SweepAll
                 \/ InLegacy /\ Abandon(o2))
  /\ SF_liveVars(\/ InDeletion /\ Deletion!UnlinkInTime
                 \/ InOrphans /\ Orphans!UnlinkInTime
                 \/ InLegacy /\ Unlink(o1))
  /\ SF_liveVars(\/ InDeletion /\ Deletion!DeleteCommit
                 \/ InOrphans /\ Orphans!DeleteCommit
                 \/ InLegacy /\ Unlink(o2))

LiveSpec == LiveInit /\ [][LiveNext]_liveVars /\ LiveFairness

-----------------------------------------------------------------------------
(* Properties.                                                              *)

\* Every failed or replaced document of the facilities programme is deleted in
\* the end, although deletions fail (reconcileFacilitiesDeletion).
IsPurged ==
  \A u \in {u1, u2} :
    (/\ scenario = "deletion"
     /\ upload[u].status = "FAILED" \/ tombstone[u] # "NONE"
     /\ upload[u].file # None) ~> (scenario = "deletion" => upload[u].file = None)

\* An upload ends wherever its process died, and what it left on the disk is
\* swept, unless there is no row to compare it with
\* (expireFacilitiesUpload, reconcileFacilitiesOrphans).
OnItsWay == scenario = "orphans" /\ upload[u1].status \in {"PENDING", "UNAVAILABLE"}
Orphan(n) == scenario = "orphans" /\ <<u1, n>> \in file \ Orphans!Known
OrphansGo ==
  /\ OnItsWay ~> ~OnItsWay
  /\ \A n \in 0 .. 2 :
       (Orphan(n) /\ ~OnItsWay)
         ~> (scenario = "orphans" => <<u1, n>> \notin file \/ Orphans!Known = {})

\* OrphansGo and LeftoversGo: neither store keeps what nothing refers to.
NothingIsLeft == OrphansGo /\ LeftoversGo
=============================================================================
