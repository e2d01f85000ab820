CONSTANTS
  Timeout = 1
  Params <- MCParams
  DriveCount = 2
  Sessions <- MCSessions
  LastGain = 2
  Limit = 1
  Worst = 2
  Unit = 256
  MaxIters = 8
SPECIFICATION FairSpec
INVARIANTS
  TypeOK
  ReportedIsHeld
  GainsMeasured
  SearchFinds
PROPERTIES
  NothingBegunAfterAbort
  MotionEnds
CHECK_DEADLOCK FALSE
