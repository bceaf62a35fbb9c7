-------------------------- MODULE MCFacilitiesCase --------------------------
(* The facilities programme around a profile, for TLC: either the case of a *)
(* company, with two pages that change the profile while it is completed,   *)
(* paid for and submitted, or with two reviewers, or with one page and one  *)
(* (all at once are out of reach), or one page of the profile and its rows. *)
EXTENDS FacilitiesCase, ProfileForm, TLC

VARIABLE part

partVars == <<part, caseVars, profileVars>>

Init ==
  /\ part \in {"case", "page"}
  /\ CaseInit /\ ProfileInit
  /\ (part = "page") => (minted = {})

Next ==
  \/ part = "case" /\ CaseNext /\ UNCHANGED <<part, profileVars>>
  \/ part = "page" /\ ProfileNext /\ UNCHANGED <<part, caseVars>>

Spec == Init /\ [][Next]_partVars

Symmetry == Permutations(Reviewers) \cup Permutations(Pages) \cup Permutations(Officers)

MCMaxDocs == [s \in Documents |-> IF s = Form THEN 2 ELSE 1]

Interesting ==
  CASE part = "page" -> lastId <= 3 /\ (uploads = {} \/ version = 1)
    [] part = "case" ->
         \/ /\ \A a \in Reviewers : screen[a] = Shut
            /\ status # "UNDER_REVIEW" /\ doc[Form] <= 1
            /\ \/ Cardinality(minted) = 1 /\ reviewVersion <= 2
               \/ payment # "settled" /\ reviewVersion <= 1 /\ profile.version <= 3
         \/ /\ Cardinality(minted) = 1 /\ profile.version <= 2
            /\ \E p \in Pages : form[p] = Shut
            /\ \/ \A p \in Pages : form[p] = Shut
               \/ \E b \in Reviewers : screen[b] = Shut
=============================================================================
