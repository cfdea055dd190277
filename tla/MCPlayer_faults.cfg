\* Every kind of announcement, with clips deleted and damaged, a voice
\* that fails and database writes that raise.
SPECIFICATION Spec
CONSTANTS
  None = None
  Unknown = Unknown
  MaxRows = 2
  Person = {office}
  Clip = {bell, song}
  Admin = {office}
  Chimed = {office}
  ChimedClip = {song}
  Damaged = {bell}
  Kinds = {"announcement", "sound", "test"}
  Priorities = {0}
  EndTone = TRUE
  DbMayFail = TRUE
  MaxUnplugs = 1
  MaxRestarts = 1
INVARIANTS
  Inv
  DoneWasHeard
\* With every row over and every bound used up, the system waits for ever.
CHECK_DEADLOCK FALSE
