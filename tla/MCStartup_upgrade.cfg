\* A start that is killed half way through a migration, and the next one.
SPECIFICATION Spec
CONSTANTS
  None = None
  Process = {p1, p2}
  Mode = "setup"
  Times = 1
  Seeds = 1
  Shipped = {2, 3, 5}
  MaxStarts = 2
INVARIANTS
  SafeOnEveryStart
CHECK_DEADLOCK FALSE
