CONSTANTS
  Nodes = {a, b, c, d}
  Tids = {1, 2, 3, 4}
  MaxQuantaCount = 2
  NULL = NULL
SPECIFICATION Spec
INVARIANTS
  TypeOK
  OneRing
PROPERTY
  ImplementsTcbQueue
SYMMETRY NodeSymmetry
