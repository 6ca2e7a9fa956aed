SPECIFICATION Spec
CONSTANTS
  Words = {"-c", "-S", "-o", "a.c", "x.o", "x.so", "-I", "-Idir", "-Wp,-MD,dep", "-fPIC", "-flto", "-o/x.o"}
  MaxWords = 3
  MaxRetries = 1
  Specs <- MCSpecs
  OpImages <- MCOpImages
  None = None
  MaxEdits = 1
  MaxFaults = 1
  MaxVersion = 2
  MaxRuns = 2
  MaxStops = 1
  NumFiles = 2
  Searched = {1}
  FileVersions = {1, 2}
  NumRequests = 2
  MaxChanges = 1
  CommandLines <- MCCommandLines
  ListenAddress <- MCListenAddress
  MaxKills = 1
  MaxStarts = 2
INVARIANTS
  ToolsTypeOK
  
  
  
  
PROPERTIES
  ToolsSettle
CHECK_DEADLOCK FALSE
