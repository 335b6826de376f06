SPECIFICATION MCFairSpec
CONSTANTS
  Nodes = {n1}
  Hashes = {h1, h2}
  NoHash = NoHash
  Ticker = ticker
  Cycles = {cycle1}
  Clients = {client1}
  MaxConcurrent = 1
  MaxRevision = 2
  DbFails = FALSE
  Crashes = TRUE
  Stops = TRUE
  Alerted = {}
  Operators = FALSE
INVARIANTS
  QuiescentAtClose
PROPERTIES
  ShutdownCompletes
  PendingServed
  CyclesEnd
  LastConfigRecorded
