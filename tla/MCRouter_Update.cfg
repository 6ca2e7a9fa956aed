SPECIFICATION Spec
CONSTANTS
  c1 = c1
  c2 = c2
  a1 = a1
  a2 = a2
  t1 = t1
  t2 = t2
  x1 = x1
  x2 = x2
  Tcs = {t1, t2}
  Cds = {c1, c2}
  Agents = {a1}
  UuidOf <- MCUuidOf
  TcsOf <- MCOneTc
  NewTcs <- MCSwap
  MayUpdate = {c1}
  MayEnd = {c1, a1}
  Calls = {x1}
  Caller <- MCCaller
  CallTc <- MCCallTc
  MaxRoutes = 3
INVARIANTS
  MapHoldsOpenRoutes
  PanicNeedsStrandedCaller
CHECK_DEADLOCK FALSE
