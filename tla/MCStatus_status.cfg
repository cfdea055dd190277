\* One announcement, speakers that fail once, a handler and the player thread
\* publishing at once, and a page that may be slow.
SPECIFICATION FairSpec
CONSTANTS
  None = None
  Unknown = Unknown
  MaxRows = 1
  Person = {teacher}
  Clip = {}
  Handler = {h1}
  Pa = pa
  Browser = {page}
  QueueSize = 1
  MaxFaults = 1
  MaxConnects = 1
INVARIANTS
  TypeOK
  BrowsersAgree
PROPERTIES
  PageCatchesUp
\* When the row is gone and the page closed, nothing happens.
CHECK_DEADLOCK FALSE
