SPECIFICATION Spec
CONSTANTS
  u1 = u1
  u2 = u2
  u3 = u3
  t1 = t1
  a = a
  b = b
  q = q
  Uploads = {u1, u2, u3, t1}
  Slots = {a, b, q}
  Templates = {q}
  Required = {a}
  SlotOf <- MCSlotOf
  Size <- MCSize
  Quota = 3
  MaxTries = 1
  Tripwire = 1
  MaxListed = 1
  Faults = {"upload", "delete", "sweep"}
  None = None
CONSTRAINT Interesting
CHECK_DEADLOCK FALSE
INVARIANTS
  OneSuccessor
  OnlyOwnerRuns
  NeededIsKept
  QuotaSuffices
PROPERTIES
  DeletedIsGone
  KeepsPromise
