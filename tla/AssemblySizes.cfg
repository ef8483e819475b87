CONSTANTS
  Hosts = {1}
  Sizes = {2, 3, 5}
  ChunkLen = 2
  MaxAge = 0
  PruneCount = 2
  MaxReports = 3
  AgeBound = 1
  Budgets <- AnyFaults
SPECIFICATION Spec
INVARIANTS AppliedIntact 
CHECK_DEADLOCK FALSE
