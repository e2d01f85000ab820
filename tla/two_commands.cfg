SPECIFICATION Spec
CONSTANTS
  g1 = g1
  x1 = x1
  s1 = s1
  d1 = d1
  Cmd = {g1, x1, s1, d1}
  Kind <- OneOfEach
  MaxCommands = 2
  AckTimeout = 0
  NavTimeout = 1
  MaxAge = 1
  HistoryMax = 1
  EvictAge = 1
  DedupAgeCap = 2
  ResendSpan = 1
  FlakyLinks = {}
INVARIANTS
  TypeOK
  OpenRecordsTracked
PROPERTIES
  ImplementsLifecycle
CHECK_DEADLOCK FALSE
