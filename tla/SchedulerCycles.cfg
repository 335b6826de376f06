SPECIFICATION AlertingSpec
SYMMETRY HashSymmetry
CONSTANTS
  Watched = {n1}
  Elsewhere = elsewhere
  Slots = 2
  Followed = {2}
  Nodes = {n1, n2}
  Hashes = {h1, h2}
  NoHash = NoHash
  Ticker = ticker
  Cycles = {cycle1}
  Clients = {}
  MaxConcurrent = 1
  MaxRevision = 2
  DbFails = FALSE
  Crashes = FALSE
  Stops = FALSE
  Alerted = {n1}
  Operators = FALSE
INVARIANTS
  DestinationInformed
  CycleBackupsBounded
  DriftAnnounced
PROPERTIES
  AlertOnTransitionOnly
  ImplementsHistory
