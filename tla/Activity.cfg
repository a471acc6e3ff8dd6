SPECIFICATION FairActivity
CONSTANTS
  NSteps = 3
  MaxConcurrent = 2
  Requests = {q1, q2}
  Names = {n1, n2}
  Executions = {e1, e2, e3}
  Contents = {x, y}
  Ids = {i1, i2}
  Tasks = {t1}
  Devices = {d1, d2}
  Answers = {x, y}
  Tokens = {1, 2}
  MaxMessages = 2
  MaxRecent = 2
  Limit = 2
  AgentCount = 3
  Scores = {1, 2}
  Top = 6
  MaxHistory = 3
  MaxTyped = 2
  Words = {"quit", "clear", "help", "sidebar", "x"}
  MaxTokens = 1
  MaxSamples = 1
  MaxRestarts = 2
  Timeout = 1
  MaxSilence = 2
  MaxDeployments = 1
CHECK_DEADLOCK FALSE
INVARIANTS
  TypesOK
  DependenciesReportedFirst
  CompletedRanAll
  RecordsAddUp
  OnlineWasHeard
  StoredIsSound
  ShownIsSound
PROPERTIES
  SpawnedOnce
  ImplementsWindow
  WorkflowEnds
