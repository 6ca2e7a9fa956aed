SPECIFICATION Spec
CONSTANTS
  MaxGen = 2
  MaxOutages = 1
  Calls = {c1, c2}
  Jobs = {j1, j2}
  NoRunner = {}
  NoMatch = {j2}
  QueueCap = 1
  MaxChanges = 2
  Providers = {p1}
  Values = {v1, v2}
  NoValue = NoValue
  Abort = Abort
  MaxStreams = 2
  MaxPosts = 2
  MaxCrashes = 1
  Agents = {a1, a2}
  Consumerds = {}
  Schedulers = {g1}
  Monitors = {}
  Caches = {}
  Optimized = {}
  Exported = {x1}
  Readings = {1}
  MaxHandlers = 2
  MaxReadings = 2
INVARIANTS
  ClientsTypeOK
  ConditionMatchesStream
  AnswersFindTheirCalls
  PanicsExplained
PROPERTIES
  ClientsSettle
CHECK_DEADLOCK FALSE
