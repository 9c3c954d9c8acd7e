SPECIFICATION Spec
CONSTANTS
  a = a
  b = b
  Clients = {a, b}
  MaxChunks = 2
  Scrollback = 1
  Returning = {a, b}
  Stragglers = TRUE
  BlockingReads = TRUE
CHECK_DEADLOCK FALSE
INVARIANTS
  TypeOK
  ExitAfterAllOutput
  ClientsSeeTheOutput
PROPERTY GoodClientsKept
SYMMETRY ClientSymmetry
