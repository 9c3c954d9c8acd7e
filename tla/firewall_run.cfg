SPECIFICATION MCSpec
CONSTANTS
  r1 = r1
  d1 = d1
  d2 = d2
  None = None
  g1 = g1
  g2 = g2
  u1 = u1
  u2 = u2
  nas = nas
  site = site
  nas6 = nas6
  site6 = site6
  V4 <- MCV4
  V6 <- MCV6
  Lans <- MCLans
  Ports = {22, 443}
  Vpn = Vpn
  Other = Other
  ProxyOnly = ProxyOnly
  Guards <- MCGuards
  ChainOf <- MCChains
  RuleSetsOf <- MCRuleSets
  Uids <- MCUids
  ReapAnyTime = FALSE
  MaxFaults = 2
  NoChain = NoChain
  Partial = Partial
  Launches <- MCLaunches
  RunLaunches <- MCRuns
  VariantsOf <- MCVariants
  DefaultNet = "plain"
  PolicyAware = FALSE
  MaxDeaths = 2
  NoRules = NoRules
CHECK_DEADLOCK FALSE
INVARIANTS
  TypeOK
  Confined
  OnlyPolicyRejects
  PfAgrees
  GuardsStand
PROPERTIES
  InstallHeals
  RemovalIsComplete
  ChainsSpec
