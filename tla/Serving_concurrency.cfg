SPECIFICATION FairSpec
CONSTANTS
  Clients = {c1, c2, c3}
  Workers = {w1, w2}
  Models = {m1}
  Priorities = {1, 3}
  MaxCallers = 2
  Configs <- TwoConfigs
  Callers = {d1, d2}
  MaxCalls = 3
  MaxBatch = 2
  MaxConcurrent = 1
CHECK_DEADLOCK FALSE
INVARIANT ConcurrencyWithinLimit
