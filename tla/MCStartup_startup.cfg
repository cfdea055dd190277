\* Three starts of two processes over a database of any age, killed anywhere.
SPECIFICATION Spec
CONSTANTS
  None = None
  Process = {p1, p2}
  Mode = "always"
  Times = 2
  Seeds = 2
  Shipped = {0, 1, 2, 3, 5, 6, 8}
  MaxStarts = 3
INVARIANTS
  TypeOK
  OnePlayer
  StampedIsDone
  ClaimedFileIsGone
  AddressStops
SYMMETRY AnyProcess
\* When the last process has ended, nothing starts another.
CHECK_DEADLOCK FALSE
