\* Stop is confirmed, and the announcement is played afterwards.
SPECIFICATION Spec
CONSTANTS
  None = None
  Unknown = Unknown
  MaxRows = 1
  Person = {office}
  Clip = {}
  Admin = {office}
  Chimed = {}
  ChimedClip = {}
  Damaged = {}
  Kinds = {"announcement"}
  Priorities = {0}
  EndTone = FALSE
  DbMayFail = FALSE
  MaxUnplugs = 1
  MaxRestarts = 0
PROPERTIES
  ToldStoppedStaysOff
\* With every row over and every bound used up, the system waits for ever.
CHECK_DEADLOCK FALSE
