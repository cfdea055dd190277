\* A machine that has no time zones after a restart.
SPECIFICATION FairSpec
CONSTANTS
  None = None
  DayLength = 4
  MaxSearchDays = 8
  Grace = 1
  MaxSchedules = 1
  Person = {head, teacher}
  Admin = {head}
  Plans <- WeekendAndFriday
  Zones <- BothChanges
  ZoneMayFail = TRUE
  FirstInstant = 19
  LastInstant = 25
  MaxEdits = 1
  MaxFaults = 1
PROPERTIES
  UtcIsUsed
\* When the story is over and every bound used up, nothing happens.
CHECK_DEADLOCK FALSE
