SPECIFICATION FairSpec
CONSTANTS
  rate = rate
  trajectory = trajectory
  s1 = s1
  s2 = s2
  Unknown = Unknown
  Mode = {rate, trajectory}
  Spawnable = {rate}
  Slot = {s1, s2}
  Polls = 2
  MaxProcs = 2
  MaxCommands = 4
  MaxRestarts = 1
INVARIANTS
  SpawnedIsTracked
PROPERTIES
  WaitIsInVain
  KnownInTheEnd
CHECK_DEADLOCK FALSE
