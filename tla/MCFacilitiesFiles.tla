------------------------- MODULE MCFacilitiesFiles -------------------------
(* FacilitiesFiles for TLC: u1 and u2 go into one slot of the application,  *)
(* u3 into an optional one, and t1 into a template.  All at once are too    *)
(* many.                                                                   *)
EXTENDS FacilitiesFiles

CONSTANTS u1, u2, u3, t1, a, b, q

MCSlotOf == [u \in Uploads |-> CASE u = t1 -> q [] u = u3 -> b [] OTHER -> a]
MCSize == [u \in Uploads |-> IF u \in {u2, u3} THEN 2 ELSE 1]

ScannedOnce == \A u \in Uploads : upload[u].token = 0
Undisturbed == deleter.step \notin {"late", "retry"} /\ sweeper.step # "late"

\* Two uploads, each scanned again once, beside deletions that do not fail, or
\* scanned only once, while one job fails or both go well; three uploads that
\* together exceed the quota, none of which fails its scan, while processes
\* die; or one upload, or one template, while everything may fail.
Interesting ==
  LET begun == {u \in Uploads : upload[u].status # "ABSENT"}
  IN \/ /\ begun \subseteq {u1, u2}
        /\ Undisturbed \/ deleter.step = "idle" \/ sweeper.step = "idle"
        /\ \/ ScannedOnce
           \/ /\ Undisturbed /\ sweeper.step = "idle"
              /\ \A u \in Uploads : tombstone[u] # "RETRY_REQUIRED"
     \/ /\ begun \subseteq {u1, u2, u3}
        /\ ScannedOnce /\ deleter.step = "idle" /\ sweeper.step = "idle"
        /\ \A u \in Uploads : /\ run[u][0].verdict = "PASSED"
                              /\ tombstone[u] \in {"NONE", "PENDING"}
     \/ begun \subseteq {u1}
     \/ begun \subseteq {t1}
=============================================================================
