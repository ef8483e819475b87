CONSTANTS
  c1 = c1
  c2 = c2
  h1 = h1
  h2 = h2
  bad = bad
  Clients = {c1, c2}
  Hosts = {h1, h2}
  NoHost = bad
  Requests <- AllRequests
  BufLen = 4
  Chunk = 6
  Window = 6
  Scenarios <- Mixed
  MaxAborts = 1
SPECIFICATION FairSpec
INVARIANTS TypeOK  EntriesOfTheirHosts 
PROPERTIES  ServerEnds
CHECK_DEADLOCK FALSE
