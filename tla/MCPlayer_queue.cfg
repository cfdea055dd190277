\* Three announcements of two priorities, an unreachable device, a restart:
\* the order in which they are played, and that each of them ends.
SPECIFICATION FairSpec
CONSTANTS
  None = None
  Unknown = Unknown
  MaxRows = 3
  Person = {}
  Clip = {}
  Admin = {}
  Chimed = {}
  ChimedClip = {}
  Damaged = {}
  Kinds = {"scheduled", "startup"}
  Priorities = {0, 1}
  EndTone = FALSE
  DbMayFail = FALSE
  MaxUnplugs = 2
  MaxRestarts = 1
INVARIANTS
  OnePlaying
  NoOvertaking
PROPERTIES
  EveryAnnouncementEnds
\* With every row over and every bound used up, the system waits for ever.
CHECK_DEADLOCK FALSE
