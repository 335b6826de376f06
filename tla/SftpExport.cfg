SPECIFICATION FairSpec
CONSTANTS
  n1 = n1
  a1 = a1
  a2 = a2
  k1 = k1
  k2 = k2
  Nodes = {n1}
  Backups = {1, 2}
  Owner <- MCOwner
  Addrs = {a1, a2}
  Presents <- MCPresents
  NoKey = NoKey
  Ticker = ticker
  Requests = {r1}
  DbFails = TRUE
  Crashes = TRUE
  Admins = TRUE
  Switch = {TRUE}
  Outdating = FALSE
INVARIANTS
  TypeOK
  ExportedWasSent
  OneKeyTrusted
  SuccessIsComplete
PROPERTIES
  EveryVersionExported
