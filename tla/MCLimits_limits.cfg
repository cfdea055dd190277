\* A teacher sends announcements and gets the password wrong, in three threads
\* at once, for four seconds.  An administrator, whom no limit stops, would
\* only add announcements that nobody counts: the theorems are about both.
SPECIFICATION Spec
CONSTANTS
  None = None
  Person = {teacher}
  Admin = {}
  Guessed = {teacher}
  Thread = {t1, t2, t3}
  Limit = 1
  Window = 2
  MaxFailures = 2
  Lockout = 1
  LastTick = 8
  MaxSent = 4
  MaxWrong = 3
INVARIANTS
  TypeOK
  CountIsExact
  RateKept
  WaitIsEnough
SYMMETRY AnyThread
\* When the clock has stopped and every bound is used up, nothing happens.
CHECK_DEADLOCK FALSE
