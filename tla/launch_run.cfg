SPECIFICATION MCSpec
CONSTANTS
  l1 = l1
  l2 = l2
  d1 = d1
  site = site
  nas = nas
  notes = notes
  nonsense = nonsense
  ssh = ssh
  socks = socks
  ProxyOnly = ProxyOnly
  NoProject = NoProject
  None = None
  Typed <- MCTyped
  Unparsable = {nonsense}
  Presets = {ssh}
  Proxies = {socks}
  Interfaces = {ProxyOnly}
  GlobalDrafts <- MCGlobalDrafts
  ProjectDrafts <- MCProjectDrafts
  MaxRules = 1
  MaxChanges = 2
  Launchers = {l1, l2}
  Dirs = {d1}
  UpFrom <- MCPaths
  Destinations = {site, nas}
  Reachable <- MCReachable
  GlobalFiles <- MCGlobals
  ProjectFiles <- MCProjects
  CommandLine <- MCFlags
  Answers <- MCAnswers
  NoFile = NoFile
  NoDir = NoDir
  MaxEvents = 2
  Builds <- MCBuilds
  NoHelper = NoHelper
  NoRules = NoRules
  Me = Me
CHECK_DEADLOCK FALSE
INVARIANTS SavedIsLaunched WideningsConsented TighteningsApply AgentsUnderTheirPolicy
PROPERTIES EditsLandWhereBegun
