SPECIFICATION Spec
CONSTANTS
  rate = rate
  trajectory = trajectory
  s1 = s1
  s2 = s2
  Unknown = Unknown
  Mode = {rate, trajectory}
  Spawnable = {rate}
  Slot = {s1, s2}
  Polls = 2
  MaxProcs = 2
  MaxCommands = 2
  MaxRestarts = 1
PROPERTIES
  RefusedOnlyIfRunning
CHECK_DEADLOCK FALSE
