CONSTANTS
  r1 = r1  r2 = r2  c1 = c1  c2 = c2  a1 = a1  a2 = a2  t1 = t1  t2 = t2  k1 = k1
  Requests = {r1, r2}
  Consumerds = {c1, c2}
  Conns = {a1, a2}
  Toolchains = {t1}
  Keys = {k1}
  Owner <- MCTwoOwners
  TcOf <- MCNilTc
  KeyOf <- MCKeyOf
  UuidOf <- MCSameUuid
  AgentTcs <- MCAgentTcs
  Limit = 1
  CacheConfigured = FALSE
  MayDisconnect = {a1}
  NoReq = NoReq  NoTc = NoTc  NoConn = NoConn  NoAgent = NoAgent  Absent = Absent
SPECIFICATION FairSpec
PROPERTIES
  ImplementsTaskService
  CleanupEnds
CHECK_DEADLOCK FALSE
