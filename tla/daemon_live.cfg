SPECIFICATION FairSpec
CONSTANTS
  a = a
  b = b
  Clients = {a, b}
  MaxChunks = 1
  Scrollback = 1
  Returning = {}
  Stragglers = FALSE
  BlockingReads = FALSE
CHECK_DEADLOCK FALSE
PROPERTIES
  ExitEndsSession
  KillEndsSession
