SPECIFICATION Spec
CONSTANTS
  Ids = {a, b, c}
  Requests = {r1, r2}
  Profiles = TRUE
  DbFails = TRUE
SYMMETRY Symmetry
INVARIANTS
  TypeOK
  CheckedAdminRemains
  SingleFounder
PROPERTIES
  DeletedStaysDeleted
