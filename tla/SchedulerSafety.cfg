SPECIFICATION Spec
CONSTANTS
  Nodes = {n1}
  Hashes = {h1, h2}
  NoHash = NoHash
  Ticker = ticker
  Cycles = {cycle1}
  Clients = {client1}
  MaxConcurrent = 1
  MaxRevision = 3
  DbFails = TRUE
  Crashes = TRUE
  Stops = FALSE
  Alerted = {}
  Operators = TRUE
SYMMETRY HashSymmetry
INVARIANTS
  TypeOK
  BackupExclusive
  VersionsFollowDevice
