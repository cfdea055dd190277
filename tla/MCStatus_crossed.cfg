\* A handler and the player publish at once, and the older snapshot is kept.
SPECIFICATION Spec
CONSTANTS
  None = None
  Unknown = Unknown
  MaxRows = 1
  Person = {teacher}
  Clip = {}
  Handler = {h1}
  Pa = pa
  Browser = {page}
  QueueSize = 1
  MaxFaults = 1
  MaxConnects = 1
INVARIANTS
  ConnectSeesTruth
\* The search ends at the first such state.
CHECK_DEADLOCK FALSE
