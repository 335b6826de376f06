SPECIFICATION Spec
CONSTANTS
  Nodes = {n1}
  Hashes = {h1, h2}
  NoHash = NoHash
  Ticker = ticker
  Cycles = {}
  Clients = {client1}
  MaxConcurrent = 1
  MaxRevision = 1
  DbFails = FALSE
  Crashes = FALSE
  Stops = FALSE
  Alerted = {n1}
  Operators = FALSE
PROPERTIES
  AlertOnTransitionOnly
