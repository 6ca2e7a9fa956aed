SPECIFICATION Spec
CONSTANTS
  NumHashes = 2
  MaxPuts = 2
  Dates = {0, 1}
  MaxTime = 1
  DataSize = 2
  FileSize = 3
  SizeLimit = 3
  MaxRestarts = 1
  MaxEvictions = 1
  Keys = {k1}
  Absent = Absent
  NumRequests = 3
  Dated = {k1}
  MaxErrors = 1
  MaxPrunes = 1
  Procs = {"agent", "scheduler", "monitor", "consumer", "consumerd"}
  MaxRuns = 2
  MaxInFlight = 1
  Tasks = {r1}
  MaxTicks = 2
  MaxNow = 2
INVARIANTS
  ServedIsKeyed
CHECK_DEADLOCK FALSE
