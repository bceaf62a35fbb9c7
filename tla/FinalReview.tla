----------------------------- MODULE FinalReview -----------------------------
(***************************************************************************)
(* The draft of a legacy application as its page holds it, and the last    *)
(* step of the wizard (components/application/: TaxDeclarationStep.tsx,    *)
(* FinancialStatementsStep.tsx, HumanResourcesStep.tsx, YearSelect.tsx,    *)
(* ApplicationWizard.tsx, FinalPaymentStep.tsx).  The last step decides    *)
(* twice what is missing: by a checklist of its own and by the schema that *)
(* the server applies (lib/validations/application.ts); the draft it sends *)
(* must also pass the laxer schema of drafts.  The checklist asks for any  *)
(* number of employees, both schemas for a safe integer, which is all that *)
(* zod takes for one.  Saves are queued and seen here as accepted or not;  *)
(* their versions and files are LegacyFiles, and what a submission does is *)
(* LegacyPayment.                                                          *)
(***************************************************************************)
EXTENDS Naturals, Sequences

CONSTANTS
  Lists,       \* the lists of a year and a file: tax declarations, financials
  Padding,     \* rows that each list shows at least
  MaxRows,     \* bound: rows of a list
  Singles,     \* the files that stand alone
  MaxSafe,     \* the largest number that the schemas take for an integer
  MaxCount     \* bound: the number of employees that is typed

ASSUME ReviewConstants ==
  /\ MaxRows \in Nat /\ Padding \in [Lists -> 1..MaxRows]
  /\ MaxCount \in Nat /\ MaxSafe \in 1..MaxCount

VARIABLES
  rows,        \* the lists of the draft
  given,       \* the files of Singles it has
  employees,   \* their number, 0 if there is none: the page holds no 0
  acceptedTerms,
  standing,    \* of the payment: none yet, awaited, declined, or verified
  queue,       \* saves that wait or run, and whether all of them are acceptable
  blocked,     \* the page asks to be refreshed
  asking       \* startPayment is awaited

reviewVars ==
  <<rows, given, employees, acceptedTerms, standing, queue, blocked, asking>>

\* The empty choice of a year is not the same as no year.
Row == [year : {"absent", "empty", "chosen"}, file : BOOLEAN]
NoRow == [year |-> "absent", file |-> FALSE]
FullRow == [year |-> "chosen", file |-> TRUE]

ReviewTypeOK ==
  /\ \A l \in Lists : /\ rows[l] \in Seq(Row)
                      /\ Len(rows[l]) <= MaxRows
  /\ given \subseteq Singles /\ employees \in 0..MaxCount
  /\ {acceptedTerms, blocked, asking} \subseteq BOOLEAN
  /\ standing \in {"unpaid", "awaited", "declined", "verified"}
  /\ queue \in {"idle", "valid", "invalid"}

\* A new draft, or one that was complete when it was paid for.
ReviewInit ==
  /\ standing \in {"unpaid", "awaited", "declined", "verified"}
  /\ rows = [l \in Lists |-> IF standing = "unpaid" THEN <<>> ELSE <<FullRow>>]
  /\ given = IF standing = "unpaid" THEN {} ELSE Singles
  /\ employees \in IF standing = "unpaid" THEN {0} ELSE 1..MaxSafe
  /\ acceptedTerms = FALSE /\ queue = "idle" /\ blocked = FALSE /\ asking = FALSE

-----------------------------------------------------------------------------
(* What is complete.                                                        *)

HasYear(row) == row.year = "chosen"
Touched(row) == HasYear(row) \/ row.file
Filled(row) == HasYear(row) /\ row.file

\* z.number().int().positive()
IsCount(n) == n > 0 /\ n <= MaxSafe

\* Mutant: the schema of drafts takes whatever number was typed.
DraftAcceptsAnyCount(lists, count) ==
  \A l \in Lists : \A i \in DOMAIN lists[l] : lists[l][i].year # "empty"

\* applicationDraftSchema: a year and a number may be absent; otherwise the year is
\* four digits, and the number an integer.
DraftAccepts(lists, count) ==
  /\ \A l \in Lists : \A i \in DOMAIN lists[l] : lists[l][i].year # "empty"
  /\ count = 0 \/ IsCount(count)

FilledYearFileRows(list) == {i \in DOMAIN list : Touched(list[i])}

YearFileRowsWithMinimum(list) ==
  LET filled == FilledYearFileRows(list)
  IN filled # {} /\ \A i \in filled : Filled(list[i])

\* A payment was begun and is not verified; only while its outcome is awaited is
\* the draft read-only as well.
CanRetry == standing \in {"awaited", "declined"}
EffectiveTerms == standing # "unpaid" \/ acceptedTerms

\* finalSubmissionSchema.
FinalAccepts ==
  /\ \A l \in Lists : YearFileRowsWithMinimum(rows[l])
  /\ given = Singles /\ IsCount(employees) /\ EffectiveTerms

\* The messages of a list: the rows that are half filled, and the whole list.
YearFileMessages(list) ==
  {i \in DOMAIN list : Touched(list[i]) /\ ~Filled(list[i])}
    \cup (IF \E i \in DOMAIN list : Filled(list[i]) THEN {} ELSE {0})

\* createFinalReviewChecklist asks the number of employees only to be positive.
ErrorItems ==
  {l \in Lists : YearFileMessages(rows[l]) # {}}
    \cup (Singles \ given)
    \cup (IF employees > 0 THEN {} ELSE {"employeeCount"})
    \cup (IF standing = "unpaid" /\ ~EffectiveTerms THEN {"terms"} ELSE {})

-----------------------------------------------------------------------------
(* The steps.  Every edit is saved as it is made.                           *)

Editable == ~blocked /\ standing # "awaited" /\ ~asking

Persists(lists, count) ==
  queue' = IF queue # "invalid" /\ DraftAccepts(lists, count) THEN "valid" ELSE "invalid"

Shown(l) ==
  [i \in 1..(IF Len(rows[l]) > Padding[l] THEN Len(rows[l]) ELSE Padding[l]) |->
     IF i <= Len(rows[l]) THEN rows[l][i] ELSE NoRow]

ChangeList(l, list) ==
  /\ Editable /\ Len(list) <= MaxRows
  /\ rows' = [rows EXCEPT ![l] = list]
  /\ Persists(rows', employees)
  /\ UNCHANGED <<given, employees, acceptedTerms, standing, blocked, asking>>

ChooseYear(l, i, year) ==
  i \in DOMAIN Shown(l) /\ ChangeList(l, [Shown(l) EXCEPT ![i].year = year])

AddYear(l) == ChangeList(l, Append(Shown(l), NoRow))

\* Any run of digits is a number; none, and zeros, are no number at all.
CountEmployees(n) ==
  /\ Editable
  /\ employees' = n
  /\ Persists(rows, n)
  /\ UNCHANGED <<rows, given, acceptedTerms, standing, blocked, asking>>

\* setLegacyFile, when the server has the file: no save is needed.
SingleStored(file) ==
  /\ Editable
  /\ given' = given \cup {file}
  /\ UNCHANGED <<rows, employees, acceptedTerms, standing, queue, blocked, asking>>

\* setLegacyFile of a list: the page then has the row that the file belongs to.
\* Rows before it are made if the list is shorter than the slot says.
FileStored(l, i) ==
  LET length == IF i > Len(rows[l]) THEN i ELSE Len(rows[l])
      list == [j \in 1..length |-> IF j <= Len(rows[l]) THEN rows[l][j] ELSE NoRow]
  IN /\ Editable /\ i \in DOMAIN Shown(l)
     /\ rows' = [rows EXCEPT ![l] = [list EXCEPT ![i].file = TRUE]]
     /\ UNCHANGED <<given, employees, acceptedTerms, standing, queue, blocked, asking>>

\* An upload that failed may leave the page unsure of what the server has.
UploadBlocks ==
  /\ Editable /\ blocked' = TRUE
  /\ UNCHANGED <<rows, given, employees, acceptedTerms, standing, queue, asking>>

\* Going to another step saves the draft as well.
MoveToStep ==
  /\ Editable /\ Persists(rows, employees)
  /\ UNCHANGED <<rows, given, employees, acceptedTerms, standing, blocked, asking>>

AcceptTerms(accepted) ==
  /\ standing = "unpaid" /\ ~asking /\ ~blocked
  /\ acceptedTerms' = accepted
  /\ UNCHANGED <<rows, given, employees, standing, queue, blocked, asking>>

\* A save that the server refuses, or that does not come back, blocks the page.
SaveEnds(ok) ==
  /\ queue # "idle"
  /\ ok => queue = "valid"
  /\ queue' = "idle" /\ blocked' = (blocked \/ ~ok)
  /\ UNCHANGED <<rows, given, employees, acceptedTerms, standing, asking>>

-----------------------------------------------------------------------------
(* The last step.                                                           *)

CanStartPayment ==
  /\ CanRetry \/ (FinalAccepts /\ ErrorItems = {} /\ EffectiveTerms)
  /\ ~asking /\ queue = "idle" /\ ~blocked

StartPayment ==
  /\ CanStartPayment
  /\ asking' = TRUE
  /\ UNCHANGED <<rows, given, employees, acceptedTerms, standing, queue, blocked>>

\* The server declines, or the call fails; otherwise the browser leaves.
PaymentDeclined ==
  /\ asking /\ asking' = FALSE
  /\ UNCHANGED <<rows, given, employees, acceptedTerms, standing, queue, blocked>>

ReviewNext ==
  \/ \E l \in Lists :
       \/ \E i \in 1..MaxRows :
            FileStored(l, i) \/ \E year \in {"empty", "chosen"} : ChooseYear(l, i, year)
       \/ AddYear(l)
  \/ \E n \in 0..MaxCount : CountEmployees(n)
  \/ \E file \in Singles : SingleStored(file)
  \/ \E accepted \in BOOLEAN : AcceptTerms(accepted)
  \/ \E ok \in BOOLEAN : SaveEnds(ok)
  \/ UploadBlocks \/ MoveToStep \/ StartPayment \/ PaymentDeclined

ReviewSpec == ReviewInit /\ [][ReviewNext]_reviewVars

-----------------------------------------------------------------------------
(* Properties                                                               *)

\* Three checks of one draft, written apart, agree where the applicant relies on it.
\* What the schema of a submission takes, the checklist finds complete.  The checklist
\* alone takes too much, a number of employees that is no safe integer; but the schema
\* of drafts refuses its save, so that once the saves have ended on a page that need
\* not be refreshed, whoever is told that nothing is missing can submit.  And what is
\* sent for the first time the server accepts by both schemas
\* (components/application/FinalPaymentStep.tsx:47-69, lib/actions/payment.ts:51-56).
ReviewAgrees ==
  /\ FinalAccepts => ErrorItems = {}
  /\ ErrorItems = {} /\ queue = "idle" /\ ~blocked => FinalAccepts
  /\ asking /\ ~CanRetry => FinalAccepts /\ DraftAccepts(rows, employees)
=============================================================================
