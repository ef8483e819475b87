CONSTANTS
  Agents = {a1, a2}
  NULL = NULL
  QueueLen = 2
  MaxReports = 4
SPECIFICATION FairSpec
INVARIANTS TypeOK SlotOwnership CacheNotStale
PROPERTIES ImplementsExactlyOnce AcceptedOpExecuted
CHECK_DEADLOCK FALSE
