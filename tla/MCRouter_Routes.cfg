SPECIFICATION FairSpec
CONSTANTS
  c1 = c1
  c2 = c2
  a1 = a1
  a2 = a2
  t1 = t1
  t2 = t2
  x1 = x1
  x2 = x2
  Tcs = {t1}
  Cds = {c1}
  Agents = {a1, a2}
  UuidOf <- MCUuidOf
  TcsOf <- MCOneTc
  NewTcs <- MCNoUpdate
  MayUpdate = {}
  MayEnd = {c1, a1, a2}
  Calls = {x1}
  Caller <- MCCaller
  CallTc <- MCCallTc
  MaxRoutes = 2
INVARIANTS
  RoutesAccounted
  DeliveredOnce
PROPERTIES
  RoutesReclaimed
CHECK_DEADLOCK FALSE
