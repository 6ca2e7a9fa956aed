SPECIFICATION ConsumerdSpec
CONSTANTS
  Pools = {"local", "remote"}
  Slots = {w1, w2}
  Tasks = {r1, r2}
  NoTask = NoTask
  Gone = Gone
  LocalOnly = {r2}
  LocalLimit = 1
  RemoteLimits = {1}
  Capacity = 1
  Schedulers = {s1, s2}
  MaxLimits = 1
  MaxRetries = 1
INVARIANTS
  QueueSound
  NeverOverTarget
  
PROPERTIES
  EveryRunReturns
  PauseFollowsStatus
CHECK_DEADLOCK FALSE
