\* What is in the queue of a server whose administrator signs in.
SPECIFICATION Spec
CONSTANTS
  None = None
  Process = {p1, p2}
  Mode = "always"
  Times = 2
  Seeds = 1
  Shipped = {8}
  MaxStarts = 2
INVARIANTS
  SilentOnceSignedIn
CHECK_DEADLOCK FALSE
