SPECIFICATION FairSpec
CONSTANTS
  e1 = e1
  e2 = e2
  m1 = m1
  m2 = m2
  w1 = w1
  w2 = w2
  Nodes = {n1}
  Routines = {r1, r2}
  Credentials = {c1}
  Keys = {k1, k2}
  None = None
  Editors = {e1, e2}
  Managers = {m1, m2}
  Workers = {w1, w2}
  Casts <- MCCasts
  Whole = 2
  MaxRecords = 3
  DbFails = TRUE
  Restarts = TRUE
CHECK_DEADLOCK FALSE
INVARIANTS
  InventoryTypeOK
  OneKeyTrusted
  
PROPERTIES
  WritesKept
  ChecksHold
  ImplementsTranscript
  SessionsEnd
