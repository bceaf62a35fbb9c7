SPECIFICATION Spec
CONSTANTS
  Pages = {p1, p2}
  Reviewers = {}
  Officers = {x}
  Form = form
  MaxCorrections = 0
  MaxProfile = 4
  MaxReview = 2
  MaxDocs <- MCMaxDocs
  People = {}
  MaxVersion = 0
  MaxRows = 0
  MaxUploads = 0
CHECK_DEADLOCK FALSE
PROPERTIES
  StaleProfileIsNotSaved
