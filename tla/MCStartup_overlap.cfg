\* A process that is shutting down with a long clip on air, and the next one.
SPECIFICATION Spec
CONSTANTS
  None = None
  Process = {p1, p2}
  Mode = "never"
  Times = 2
  Seeds = 1
  Shipped = {8}
  MaxStarts = 2
INVARIANTS
  OneVoice
CHECK_DEADLOCK FALSE
