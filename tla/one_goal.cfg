SPECIFICATION FairSpec
CONSTANTS
  g1 = g1
  x1 = x1
  s1 = s1
  d1 = d1
  Cmd = {g1}
  Kind <- OneGoal
  MaxCommands = 1
  AckTimeout = 1
  NavTimeout = 2
  MaxAge = 2
  HistoryMax = 1
  EvictAge = 2
  DedupAgeCap = 3
  ResendSpan = 2
  FlakyLinks = {"cc", "rover"}
INVARIANTS
  AtMostOnce
  PanelHonest
PROPERTIES
  ImplementsLifecycle
  PendingResolved
CHECK_DEADLOCK FALSE
