CONSTANTS
  r1 = r1  r2 = r2  c1 = c1  c2 = c2  a1 = a1  a2 = a2  t1 = t1  t2 = t2  k1 = k1
  Requests = {r1, r2}
  Consumerds = {c1}
  Conns = {a1, a2}
  Toolchains = {t1}
  Keys = {k1}
  Owner <- MCOwner
  TcOf <- MCTcOf
  KeyOf <- MCKeyOf
  UuidOf <- MCUuidOf
  AgentTcs <- MCAgentTcs
  Limit = 1
  CacheConfigured = FALSE
  MayDisconnect = {a1}
  NoReq = NoReq  NoTc = NoTc  NoConn = NoConn  NoAgent = NoAgent  Absent = Absent
SPECIFICATION Spec
SYMMETRY RequestSymmetry
INVARIANTS
  TypeOK
  InOnePlace
  NoNonexistentTask
  TokensBalance
  AnswersAgree
CHECK_DEADLOCK FALSE
