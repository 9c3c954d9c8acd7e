SPECIFICATION MCSpec
CONSTANTS
  a1 = a1
  b3 = b3
  b1 = b1
  b2 = b2
  Conns = {a1, b1, b2, b3}
  Uid <- MCUid
  Specs <- MCSpecs
  Stalled = {b1, b2}
  MaxConnections = 3
  MaxPerUid = 2
  MaxAbandoned = 1
  Accounts <- MCAccounts
  Home <- MCHome
  Regular = {"alice", "bob", "carol"}
  Tree <- MCTree
  Files <- MCFiles
  Owner <- MCOwner
  Links <- MCLinks
  HomeParents <- MCHomeParents
  StubHomes = {}
  SystemDirs <- MCSystemDirs
  Caller = "alice"
  Asked <- MCAsked
  Primary = "staff"
  Memberships = {"staff", "docker", "lianyaohu"}
  SessionGroup = "lianyaohu"
  Swaps <- MCSwaps
  Abis = {0, 1, 3}
CHECK_DEADLOCK FALSE
INVARIANTS
  TypeOK
  SlotsExact
  AbandonedExact
  GrantsStayHome
  AgentsRunConfined
  SeatbeltAsPolicy
  LandlockAsPolicy
  SeccompExact
PROPERTIES
  EveryRequestAnswered
