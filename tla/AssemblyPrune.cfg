CONSTANTS
  Hosts = {1, 2}
  Sizes = {3}
  ChunkLen = 2
  MaxAge = 0
  PruneCount = 2
  MaxReports = 2
  AgeBound = 1
  Budgets <- LossOnly
SPECIFICATION Spec
INVARIANT ListenerNeverCrashes
CHECK_DEADLOCK FALSE
