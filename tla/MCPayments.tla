----------------------------- MODULE MCPayments -----------------------------
(* Both payments, for TLC: which programme the payment belongs to is chosen *)
(* for good, so that what is asked of every step, or assumed of a           *)
(* disjunction of the two programmes' actions, is asked or assumed of each. *)
EXTENDS LegacyPayment, TLC

VARIABLE programme

Fees == INSTANCE FacilitiesPayment WITH Programme <- "facilities"

bothVars == <<programme, vars>>

IsLegacy == programme = "legacy" /\ UNCHANGED programme
IsFacilities == programme = "facilities" /\ UNCHANGED <<programme, intent, notices>>

PaymentsInit ==
  \/ programme = "legacy" /\ Init
  \/ programme = "facilities" /\ Fees!Init /\ intent = "NONE" /\ notices = 0

PaymentsNext == (IsLegacy /\ Next) \/ (IsFacilities /\ Fees!Next)

PaymentsSpec == PaymentsInit /\ [][PaymentsNext]_bothVars

\* The identities are interchangeable.
Symmetry == Permutations(Workers) \cup Permutations(Payments)
              \cup Permutations(Authorities)

-----------------------------------------------------------------------------
\* The database never refuses a step of the facilities payment, which would
\* leave captured money unrecorded: every write is one its triggers and unique
\* indexes allow.
NeverRefused == [][ programme = "facilities" => Fees!LegalStep ]_vars

-----------------------------------------------------------------------------
\* The fairness of LegacyPayment, in either programme: the gateway keeps
\* redelivering to one slot of invocations, which does not fail for ever.
LiveFairness ==
  \A w \in Retriers :
    /\ WF_bothVars((IsLegacy /\ Invocation(w)) \/ (IsFacilities /\ Fees!Invocation(w)))
    /\ \A p \in Payments :
         SF_bothVars((IsLegacy /\ Callback(w, p)) \/ (IsFacilities /\ Fees!Callback(w, p)))
    /\ SF_bothVars((IsLegacy /\ Verify(w)) \/ (IsFacilities /\ Fees!Verify(w)))
    /\ SF_bothVars(\/ IsLegacy /\ RecordCapture(w)
                   \/ IsFacilities /\ Fees!RecordCapture(w))
    /\ SF_bothVars(/\ \/ IsLegacy /\ CompleteSubmission(w)
                      \/ IsFacilities /\ Fees!CompleteSubmission(w)
                   /\ status' # "PENDING_PAYMENT")
    /\ SF_bothVars(IsLegacy /\ ClaimIntent(w))

LiveSpec == PaymentsSpec /\ LiveFairness

\* What is paid does not stay behind: the application is submitted or handed
\* back for repair, and the notice of a legacy submission is taken up.
NothingPends == PaidMovesOn /\ NoticeIsClaimed
=============================================================================
