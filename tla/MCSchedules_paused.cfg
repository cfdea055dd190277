\* A schedule that is paused while the scheduler holds a copy of its row.
SPECIFICATION FairSpec
CONSTANTS
  None = None
  DayLength = 4
  MaxSearchDays = 8
  Grace = 1
  MaxSchedules = 1
  Person = {head, teacher}
  Admin = {head}
  Plans <- WeekendAndFriday
  Zones <- BothChanges
  ZoneMayFail = FALSE
  FirstInstant = 19
  LastInstant = 25
  MaxEdits = 2
  MaxFaults = 1
PROPERTIES
  PausedStaysPaused
CHECK_DEADLOCK FALSE
