CONSTANTS
  Cpus = {0, 1, 2}
  Devices <- Names
  Holds <- NamesInNames
  Setups <- Hosts
SPECIFICATION FairSpec
INVARIANTS TypeOK  IdentityKept MountsListed
PROPERTIES OwnCounters  
CHECK_DEADLOCK FALSE
