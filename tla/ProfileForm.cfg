SPECIFICATION ProfileSpec
CONSTANTS
  People = {ann, bob, cyd}
  MaxVersion = 4
  MaxRows = 3
  MaxUploads = 1
CHECK_DEADLOCK FALSE
INVARIANT
  PackageIsOfItsMember
