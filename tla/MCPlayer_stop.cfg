\* Two people, one an administrator, race Stop against the player thread.
SPECIFICATION Spec
CONSTANTS
  None = None
  Unknown = Unknown
  MaxRows = 2
  Person = {office, teacher}
  Clip = {}
  Admin = {office}
  Chimed = {}
  ChimedClip = {}
  Damaged = {}
  Kinds = {"announcement"}
  Priorities = {0}
  EndTone = FALSE
  DbMayFail = FALSE
  MaxUnplugs = 1
  MaxRestarts = 1
INVARIANTS
  TypeOK
  OnlyOwnerOrAdminStops
PROPERTIES
  StopIsAttributed
  NoReplay
  KeepsPromise
\* With every row over and every bound used up, the system waits for ever.
CHECK_DEADLOCK FALSE
