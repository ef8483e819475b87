CONSTANTS
  a1 = a1
  a2 = a2
  Agents = {a1, a2}
  Defaults <- CodeDefaults
  Files <- AllFiles
  Garbage = {0, 1}
  DevList <- Hosts
  MaxPolls <- Polls
  CommitRate = 1
  Capacity = 1
  MaxTime = 1
  MaxTrouble = 2
SPECIFICATION Spec
INVARIANTS TypeOK  FaultNeedsUnset SurvivesRegular  
CHECK_DEADLOCK FALSE
