CONSTANTS
  Agents = {a1}
  NULL = NULL
  QueueLen = 2
  MaxReports = 3
SPECIFICATION Spec
INVARIANT DbThreadNeverCrashes
CHECK_DEADLOCK FALSE
