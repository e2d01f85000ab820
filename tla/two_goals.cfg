SPECIFICATION FairSpec
CONSTANTS
  a = a
  b = b
  e = e
  x = x
  OwnGoal = {a, b}
  ExternalGoal = {e}
  Cancel = {x}
  MaxGoals = 2
  Depth = 1
INVARIANTS
  TypeOK
  HandleIsLive
  NoGhostNavigation
PROPERTIES
  RequestsConcluded
CHECK_DEADLOCK FALSE
