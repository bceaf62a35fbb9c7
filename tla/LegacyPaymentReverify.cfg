SPECIFICATION FairSpec
CONSTANTS
  Workers = {w1, w2}
  Payments = {p1}
  Authorities = {a1}
  None = None
  Programme = "legacy"
  MaxGeneration = 2
  Retriers = {w1}
PROPERTY
  UnresolvedIsReverified
