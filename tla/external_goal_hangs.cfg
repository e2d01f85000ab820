SPECIFICATION FairSpec
CONSTANTS
  a = a
  b = b
  e = e
  x = x
  OwnGoal = {a}
  ExternalGoal = {e}
  Cancel = {}
  MaxGoals = 2
  Depth = 2
PROPERTIES
  ExternalEndRendered
CHECK_DEADLOCK FALSE
