--------------------------- MODULE PaymentPromise ---------------------------
(***************************************************************************)
(* What the payment of one application promises, of either programme,      *)
(* whatever crashes and however often it is retried: a payment is asked    *)
(* for once and only when there was none, money is captured only on the    *)
(* one attempt there is, a payment is recorded only when its money was     *)
(* captured, the application is filed only when a payment is recorded, and *)
(* nothing of this is ever taken back.                                     *)
(***************************************************************************)
CONSTANT Payments

VARIABLES attempts,  \* the payments that were asked for
          captured,  \* those whose money the gateway has captured
          recorded,  \* those that the program has recorded as paid
          filed      \* has the application left the applicant's hands?

promised == <<attempts, captured, recorded, filed>>

Init ==
  /\ attempts \in SUBSET Payments
  /\ captured \in SUBSET attempts
  /\ recorded \in SUBSET captured
  /\ filed \in BOOLEAN
  /\ filed => recorded # {}

Ask ==
  /\ attempts = {}
  /\ \E p \in Payments : attempts' = {p}
  /\ UNCHANGED <<captured, recorded, filed>>

Capture ==
  /\ \E p \in Payments : attempts = {p} /\ captured = {} /\ captured' = {p}
  /\ UNCHANGED <<attempts, recorded, filed>>

Record ==
  /\ recorded = {}
  /\ \E p \in captured : recorded' = {p}
  /\ UNCHANGED <<attempts, captured, filed>>

File ==
  /\ recorded # {}
  /\ ~filed
  /\ filed' = TRUE
  /\ UNCHANGED <<attempts, captured, recorded>>

Next == Ask \/ Capture \/ Record \/ File

Spec == Init /\ [][Next]_promised
=============================================================================
