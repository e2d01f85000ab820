SPECIFICATION Spec
CONSTANTS
  a = a
  b = b
  e = e
  x = x
  OwnGoal = {a, b}
  ExternalGoal = {}
  Cancel = {x}
  MaxGoals = 2
  Depth = 1
PROPERTIES
  CancelReachesGoal
CHECK_DEADLOCK FALSE
