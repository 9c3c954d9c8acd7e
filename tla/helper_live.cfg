SPECIFICATION LiveSpec
CONSTANTS
  c1 = c1
  c2 = c2
  c3 = c3
  alice = alice
  bob = bob
  Clients = {c1, c2, c3}
  Uids = {alice, bob}
  UidOf <- TwoUsers
  Variants = {"vpn"}
  StrayClients = {c3}
  CleanupFaults = FALSE
  MayDie = TRUE
  NoRules = NoRules
  Partial = Partial
  NoSession = NoSession
  NoOwner = NoOwner
  ShutdownThread = ShutdownThread
  MaxRequests = 4
PROPERTIES
  ReleaseCompletes
  IdleUserUnblocked
CHECK_DEADLOCK FALSE
INVARIANTS
  NoResidue
  InstallAgentsGuarded
