\* Two people who take each other's place as an administrator away at once.
SPECIFICATION Spec
CONSTANTS
  None = None
  Account = {head, teacher}
  Founder = head
  Thread = {t1, t2}
  Forced = {FALSE}
  Changes <- DownAndUp
  MaxSessions = 1
  MaxPasswords = 1
INVARIANTS
  LastAdminStays
SYMMETRY AnyThread
