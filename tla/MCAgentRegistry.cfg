SPECIFICATION FairSpec
CONSTANTS
  s1 = s1  s2 = s2  u1 = u1  u2 = u2
  Conns = {s1, s2}
  Uuids = {u1, u2}
  NoConn = NoConn
INVARIANTS
  AgentsMatchStreams
  NoAgentsIsReported
PROPERTIES
  EveryStreamServed
  LimitsConverge
CHECK_DEADLOCK FALSE
