SPECIFICATION FairSpec
CONSTANTS
  Models = {m1}
  Clients = {c1, c2}
  Callers = {c1, c2}
  FileSize <- TwoUnits
  MaxMemory = 10
  MaxLoaded = 1
  AutoUnloadIdle = TRUE
  OptimizeIdleMemory = TRUE
  OffloadToCpu = TRUE
  MaxCommands = 0
  MaxActive = 0
  Disconnects = TRUE
  MaxRequests = 3
CHECK_DEADLOCK FALSE
PROPERTIES
  BusyClears
  RequestsEnd
