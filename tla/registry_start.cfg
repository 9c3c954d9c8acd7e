SPECIFICATION Spec
CONSTANTS
  l1 = l1
  l2 = l2
  o1 = o1
  o2 = o2
  x = x
  x2 = x2
  Launches = {l1}
  Observers = {o1}
  Names = {x, x2}
  Candidates <- DefaultNames
  NoFile = NoFile
  Nobody = Nobody
CHECK_DEADLOCK FALSE
PROPERTY NeverMistakenForStale
