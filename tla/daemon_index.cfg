SPECIFICATION Spec
CONSTANTS
  a = a
  b = b
  Clients = {a, b}
  MaxChunks = 1
  Scrollback = 1
  Returning = {}
  Stragglers = FALSE
  BlockingReads = TRUE
CHECK_DEADLOCK FALSE
INVARIANT EntriesMatchClients
