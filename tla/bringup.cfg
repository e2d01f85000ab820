CONSTANTS
  Sessions <- MCSessions
  StageTicks = 3
  SettleTicks = 1
  ResetTicks = 2
  DelayTicks = 3
  RvizTicks = 1
SPECIFICATION FairSpec
INVARIANTS
  TypeOK
  OneOwner
  OdometryWired
  DepthAfterReset
  NavAfterOdometry
  NavWired
  Px4Fed
PROPERTIES
  MapKept
  NavComes
