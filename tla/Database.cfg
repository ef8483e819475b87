CONSTANTS
  a1 = a1
  a2 = a2
  Agents = {a1, a2}
  Watched = {a1}
  QueueLen = 2
  Scenarios <- Wide
SPECIFICATION Spec
INVARIANTS TypeOK RowsOfThisRun NothingLeftRunning
PROPERTY SnapshotHasTable
CHECK_DEADLOCK FALSE
