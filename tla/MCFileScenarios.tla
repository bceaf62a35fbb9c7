--------------------------- MODULE MCFileScenarios ---------------------------
(* LegacyFiles for TLC, of which only a part moves in each scenario:        *)
(*   pages       two pages of an applicant store o1 and o2 in one slot      *)
(*   historical  o1 and o2 replace the file h1 of the time before           *)
(*   desks       two reviewers look at an application that is edited        *)
(*   certificate a reviewer stores two certificates                         *)
EXTENDS LegacyFiles, TLC

CONSTANTS s1, h1, o1, o2, o3, c1, c2, p1, p2, p3, a1, a2

VARIABLE scenario

MCSlotOf == [o \in Objects |-> IF o \in {c1, c2} THEN Certificate ELSE s1]

scenarioVars == <<scenario, vars>>

Symmetry == Permutations({p1, p2}) \cup Permutations({o1, o2})

\* Who and what takes part, and how many writes of the draft there are.
Parts == [
  pages       |-> [tabs |-> {p1, p2}, editors |-> {}, admins |-> {},
                   objects |-> {o1, o2}, writes |-> 4],
  historical  |-> [tabs |-> {p3}, editors |-> {}, admins |-> {},
                   objects |-> {h1, o1, o2}, writes |-> 3],
  desks       |-> [tabs |-> {p3}, editors |-> {p3}, admins |-> {a1, a2},
                   objects |-> {o3, c1}, writes |-> 6],
  certificate |-> [tabs |-> {p3}, editors |-> {}, admins |-> {a1},
                   objects |-> {o3, c1, c2}, writes |-> 6]]

Within(part) ==
  /\ \A t \in Tabs : page[t].open => t \in part.tabs /\ page[t].text \subseteq part.editors
  /\ \A r \in Admins : desk[r].open => r \in part.admins
  /\ \A o \in Objects : request[o].step # "none" \/ Referenced(o) => o \in part.objects
  /\ draft.version <= part.writes

ScenarioInit == scenario \in DOMAIN Parts /\ Init /\ Within(Parts[scenario])
ScenarioNext == UNCHANGED scenario /\ Next /\ Within(Parts[scenario])'
ScenarioSpec == ScenarioInit /\ [][ScenarioNext]_scenarioVars
=============================================================================
