---------------------------- MODULE SlotPromise ----------------------------
(***************************************************************************)
(* What the private file store promises to those who only see documents:   *)
(* a slot shows one document at a time, a document that was shown once is  *)
(* never shown again after it was replaced, a slot of an application       *)
(* changes only while the application is open and is never emptied, a      *)
(* published template stays published, and the bytes of a document are     *)
(* kept for as long as it is shown or published.                           *)
(***************************************************************************)
CONSTANTS Documents, Slots, Templates, Required, Nothing

VARIABLES open,       \* may the applicant edit the application?
          shown,      \* the document of each slot
          spent,      \* the documents that were shown at some time
          kept,       \* those whose bytes can be read
          published   \* the templates that were handed out

promised == <<open, shown, spent, kept, published>>

Init ==
  /\ open = TRUE
  /\ shown \in [Slots -> Documents \cup {Nothing}]
  /\ spent = {shown[s] : s \in Slots} \ {Nothing}
  /\ kept = spent /\ published = {}

Show(s, d) ==
  /\ open \/ s \in Templates
  /\ d \notin spent
  /\ shown' = [shown EXCEPT ![s] = d]
  /\ spent' = spent \cup {d}
  /\ kept' = kept \cup {d}
  /\ UNCHANGED <<open, published>>

Withdraw(s) ==
  /\ s \in Templates
  /\ shown[s] \notin published
  /\ shown' = [shown EXCEPT ![s] = Nothing]
  /\ UNCHANGED <<open, spent, kept, published>>

Publish(s) ==
  /\ s \in Templates
  /\ shown[s] # Nothing
  /\ published' = published \cup {shown[s]}
  /\ UNCHANGED <<open, shown, spent, kept>>

Discard(d) ==
  /\ d \notin published
  /\ \A s \in Slots : shown[s] # d
  /\ kept' = kept \ {d}
  /\ UNCHANGED <<open, shown, spent, published>>

Submit ==
  /\ open
  /\ \A s \in Required : shown[s] \in kept
  /\ open' = FALSE
  /\ UNCHANGED <<shown, spent, kept, published>>

Return ==
  /\ open' = TRUE
  /\ UNCHANGED <<shown, spent, kept, published>>

Next ==
  \/ \E s \in Slots, d \in Documents : Show(s, d)
  \/ \E s \in Slots : Withdraw(s) \/ Publish(s)
  \/ \E d \in Documents : Discard(d)
  \/ Submit
  \/ Return

Spec == Init /\ [][Next]_promised
=============================================================================
