\* A clip that cannot be decoded, and an announcement behind it.
SPECIFICATION FairSpec
CONSTANTS
  None = None
  Unknown = Unknown
  MaxRows = 2
  Person = {office}
  Clip = {bell}
  Admin = {office}
  Chimed = {}
  ChimedClip = {}
  Damaged = {bell}
  Kinds = {"sound", "startup"}
  Priorities = {0}
  EndTone = FALSE
  DbMayFail = FALSE
  MaxUnplugs = 0
  MaxRestarts = 0
PROPERTIES
  BadItemDoesNotWedge
\* With every row over and every bound used up, the system waits for ever.
CHECK_DEADLOCK FALSE
