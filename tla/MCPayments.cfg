SPECIFICATION PaymentsSpec
CONSTANTS
  Workers = {w1, w2}
  Payments = {p1, p2}
  Authorities = {a1, a2}
  None = None
  Programme = "legacy"
  MaxGeneration = 4
  Retriers = {}
SYMMETRY Symmetry
INVARIANTS
  OneRequest
  CallsAreTrue
  NoticeOnce
  SubmittedIsPaid
PROPERTIES
  SelectionIsFinal
  NeverRefused
  SubmissionHolds
