SPECIFICATION Spec
CONSTANTS
  Ids = {a, b}
  Requests = {r1, r2}
  Profiles = TRUE
  DbFails = FALSE
INVARIANTS
  AdminRemains
