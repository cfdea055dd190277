\* Two accounts and two threads: sign-ins, changes to accounts and the command
\* line at the same time, and a handler that ends half way.
SPECIFICATION Spec
CONSTANTS
  None = None
  Account = {head, teacher}
  Founder = head
  Thread = {t1, t2}
  Forced = {FALSE}
  Changes <- DownAndUp
  MaxSessions = 1
  MaxPasswords = 1
INVARIANTS
  TypeOK
  AnAdminRemains
  RevokedStaysOut
SYMMETRY AnyThread
