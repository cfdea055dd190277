\* A claim whose file cannot be removed, or whose handler breaks off before it.
SPECIFICATION Spec
CONSTANTS
  None = None
  Process = {p1, p2}
  Mode = "never"
  Times = 2
  Seeds = 1
  Shipped = {8}
  MaxStarts = 2
INVARIANTS
  DeletedWhenClaimed
CHECK_DEADLOCK FALSE
