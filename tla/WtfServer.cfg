CONSTANTS
  h1 = h1
  h2 = h2
  p1 = p1
  p2 = p2
  Handlers = {h1, h2}
  Projects = {p1, p2}
  Requests <- RequestsForOne
  None = None
  MaxVersion = 2
  MaxPending = 2
SYMMETRY HandlerSymmetry
SPECIFICATION Spec
INVARIANTS
  TypeOK
  ProjectExclusive
  NoPendingOlderThanLatest
PROPERTIES
  PublishedStays
  PendingStays
