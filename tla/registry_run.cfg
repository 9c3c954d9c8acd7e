SPECIFICATION FairSpec
CONSTANTS
  l1 = l1
  l2 = l2
  o1 = o1
  o2 = o2
  x = x
  x2 = x2
  Launches = {l1, l2}
  Observers = {o1, o2}
  Names = {x}
  Candidates <- SameName
  NoFile = NoFile
  Nobody = Nobody
CHECK_DEADLOCK FALSE
INVARIANTS
  TypeOK
  
PROPERTY StaleSocketsGo
