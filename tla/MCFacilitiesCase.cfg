SPECIFICATION Spec
CONSTANTS
  Pages = {p1, p2}
  Reviewers = {a1, a2}
  Officers = {x, y}
  Form = form
  MaxCorrections = 1
  MaxProfile = 4
  MaxReview = 6
  MaxDocs <- MCMaxDocs
  People = {ann, bob}
  MaxVersion = 2
  MaxRows = 2
  MaxUploads = 1
SYMMETRY Symmetry
CONSTRAINT Interesting
CHECK_DEADLOCK FALSE
INVARIANTS
  MembersStayApart
  CompleteIsBacked
  OneCorrection
PROPERTIES
  InformedReview
  EvidenceIsFrozen
