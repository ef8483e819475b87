CONSTANTS
  Hosts = {0, 1}
  Sizes = {3}
  ChunkLen = 2
  MaxAge = 0
  PruneCount = 2
  MaxReports = 2
  AgeBound = 1
  Budgets <- AnyFaults
SPECIFICATION FairSpec
INVARIANTS TypeOK BuffersSorted 
 
CHECK_DEADLOCK FALSE
