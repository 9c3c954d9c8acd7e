SPECIFICATION ConfigSpec
CONSTANTS
  l1 = l1
  l2 = l2
  d1 = d1
  d2 = d2
  site = site
  nas = nas
  Launchers = {l1}
  Dirs = {d1, d2}
  UpFrom <- MCPaths
  Destinations = {site, nas}
  Reachable <- MCReachable
  GlobalFiles <- MCGlobals
  ProjectFiles <- MCProjects
  CommandLine <- MCFlags
  Answers <- MCAnswers
  NoFile = NoFile
  NoDir = NoDir
  MaxEvents = 2
CHECK_DEADLOCK FALSE
INVARIANT NeverSilentlyWidened
