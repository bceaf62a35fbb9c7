SPECIFICATION Spec
CONSTANTS
  Guessers = {g1, g2}
  MaxIntents = 2
  MaxTime = 3
  Hour = 2
  Cooldown = 1
  IntentLife = 1
  CodeLife = 2
  Retention = 1
  RequestLimit = 2
  VerifyLimit = 2
  MaxGuesses = 2
  x1 = x1
  x2 = x2
  x3 = x3
  x4 = x4
  amir = amir
  bita = bita
  Arrivals = {x1, x2, x3, x4}
  SubjectOf <- MCSubjectOf
  Address = ip
  MaxInFlightPerUser = 2
  MaxInFlightGlobal = 3
  MaxPerUserPerHour = 2
  MaxPerIpPerHour = 3
  ScanLimit = 1
  Parents = {j1, j2}
  NoParent = NoParent
  QueueCount = 2
  RowCount <- MCRowCount
  PageSize = 2
  Poison <- MCPoison
  MaxLosses = 1
  Digits = {n1, n2}
  Blank = Blank
  CodeLength = 3
  Countdown = 1
  Tabs = {t1}
  v1 = v1
  Required = {r1}
  Optional = {}
  Details = {v1, v2}
  NoDetails = NoDetails
  MaxUploads = 2
  Lists = {"taxDeclarations"}
  Padding <- MCPadding
  MaxRows = 3
  Singles = {"insuranceList"}
  MaxSafe = 1
  MaxCount = 2
  Files <- MCFiles
  MaxFileBytes = 1
  MaxUnpackedBytes = 3
  MaxRatio = 2
  MaxEntries = 2
  Ignored = {"folder/"}
  MemberHead <- MCMemberHead
  Escaping = {"../scan.pdf"}
  Chunks = 2
  MaxReply = 5
CHECK_DEADLOCK FALSE
INVARIANTS
  TypeOK
  OneSessionPerCode
  BudgetHolds
  GateMatches
  ReportIsTrue
  VerdictIsRight
  VerdictIsHeard
  NoRedirectLoop
  ConfirmsWhatIsSaved
  ReviewAgrees
PROPERTIES
  NewestOpens
  GuessIsDeliberate
  EveryUploadAnswered
  DoomedStops
  RowsAreVisited
