SPECIFICATION Spec
CONSTANTS
  ArmingState = {TRUE}
  ExecLag = 1
  Px4Stale = 1
  MergePeriod = 1
  NetDelay = 0
  StaleThreshold = 1
  MaxWire = 1
  Horizon = 8
INVARIANTS TypeOK HealthGateFresh Px4GateFresh
CHECK_DEADLOCK FALSE
