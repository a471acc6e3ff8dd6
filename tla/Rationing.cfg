SPECIFICATION FairSpec
CONSTANTS
  Models = {m1, m2}
  Callers = {c1}
  FileSize <- FourUnits
  MaxMemory = 6
  MaxLoaded = 1
  AutoUnloadIdle = TRUE
  OptimizeIdleMemory = TRUE
  OffloadToCpu = TRUE
  MaxCommands = 2
  MaxActive = 2
  Users = {u1, u2, u3}
  PoolModels = {p1, p2}
  MaxConnections = 1
  MaxLoads = 2
  MaxReturns = 1
  Identifiers = {i1, i2}
  Calls = {q1}
  Sessions = {s1, s2, s3}
  Nobody = nobody
  Capacity = 2
  CleanupAge = 2
  MaxTime = 4
  MaxRetries = 2
  InitialBackoff = 1
  MaxBackoff = 3
  Handlers = {h1}
  MaxSessions = 2
  MaxPending = 1
  Period = 3
  Shares = {0, 1, 2, 3}
  Speeds = {1, 2}
  MaxRequests = 4
  Vocabulary = 3
  Logits <- FewLogits
  Histories <- TwoHistories
  Settings <- SixSettings
  Whole = 4
  Nesting = 2
  MaxToken = 3
INVARIANTS
  TypesOK
  RestingMeansUnused
  PoolOvershootBounded
  AdmissionBounded
  ExecutionsBounded
  SessionsBounded
  ChoicesSound
PROPERTIES
  EnforcementEnds
  ShutdownStopsMonitor
CHECK_DEADLOCK FALSE
