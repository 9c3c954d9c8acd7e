SPECIFICATION Spec
CONSTANTS
  c1 = c1
  c2 = c2
  c3 = c3
  alice = alice
  bob = bob
  Clients = {c1, c2, c3}
  Uids = {alice}
  UidOf <- SameUser
  Variants = {"vpn", "lan"}
  StrayClients = {}
  CleanupFaults = FALSE
  MayDie = FALSE
  NoRules = NoRules
  Partial = Partial
  NoSession = NoSession
  NoOwner = NoOwner
  ShutdownThread = ShutdownThread
PROPERTY StoppedLeavesNoRules
