\* A schedule from a Friday to a Sunday over a clock change, edited and paused
\* by two people while the scheduler works on it, with restarts and errors.
SPECIFICATION FairSpec
CONSTANTS
  None = None
  DayLength = 4
  MaxSearchDays = 8
  Grace = 1
  MaxSchedules = 1
  Person = {head, teacher}
  Admin = {head}
  Plans <- WeekendAndFriday
  Zones <- BothChanges
  ZoneMayFail = TRUE
  FirstInstant = 19
  LastInstant = 25
  MaxEdits = 3
  MaxFaults = 1
INVARIANTS
  TypeOK
  SchoolTimeKept
  AtMostOnce
  OnceInv
PROPERTIES
  OneEachDay
  OverdueCatchesUp
\* When the story is over and every bound used up, nothing happens.
CHECK_DEADLOCK FALSE
