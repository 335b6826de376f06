SPECIFICATION Spec
CONSTANTS
  Lines = {a, b, c}
  MaxLength = 4
SYMMETRY Symmetry
INVARIANTS
  TypeOK
  RowsRebuild
  SplitRebuilds
  FewestChanges
