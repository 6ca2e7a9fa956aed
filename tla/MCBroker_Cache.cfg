CONSTANTS
  r1 = r1  r2 = r2  c1 = c1  c2 = c2  a1 = a1  a2 = a2  t1 = t1  t2 = t2  k1 = k1
  Requests = {r1, r2}
  Consumerds = {c1, c2}
  Conns = {a1, a2}
  Toolchains = {t1, t2}
  Keys = {k1}
  Owner <- MCTwoOwners
  TcOf <- MCTcOf
  KeyOf <- MCKeyOf
  UuidOf <- MCUuidOf
  AgentTcs <- MCMixedAgents
  Limit = 1
  CacheConfigured = TRUE
  MayDisconnect = {c1}
  NoReq = NoReq  NoTc = NoTc  NoConn = NoConn  NoAgent = NoAgent  Absent = Absent
SPECIFICATION FairSpec
INVARIANTS
  SuccessIsGenuine
PROPERTIES
  EveryRequestAnswered
CHECK_DEADLOCK FALSE
