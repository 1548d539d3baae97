SPECIFICATION Spec
CONSTANTS
  Clients = {a, b}
  Paths = {p, q}
  Contents = {x, y}
  Absent = Absent
  MaxVersion = 3
  MaxPending = 2
  MaxFiles = 3
SYMMETRY Symmetric
CONSTRAINT Bounded
INVARIANTS TypeOK PendingForLatest OneEntryPerPath AcknowledgedIsWhole LineIsNumber
PROPERTIES PusherInStep CommitIsTheDifference ImplementsVersionedRepository
CHECK_DEADLOCK FALSE
