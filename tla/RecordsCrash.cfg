CONSTANTS
  a1 = a1
  a2 = a2
  Agents = {a1}
  Defaults <- CodeDefaults
  Files <- OneFile
  Garbage = {0, 1}
  DevList <- Hosts
  MaxPolls <- Polls1
  CommitRate = 1
  Capacity = 1
  MaxTime = 0
  MaxTrouble = 0
SPECIFICATION Spec
INVARIANT MasterSurvives
CHECK_DEADLOCK FALSE
