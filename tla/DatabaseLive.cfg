CONSTANTS
  a1 = a1
  a2 = a2
  Agents = {a1, a2}
  Watched = {a1}
  QueueLen = 1
  Scenarios <- Narrow
SPECIFICATION FairSpec
PROPERTIES ConnectionRestored RowCatchesUp ShutdownEnds
CHECK_DEADLOCK FALSE
