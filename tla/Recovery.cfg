CONSTANTS
  kMaxWriter = 2
  Clients = {c1, c2}
  Keys = {0, 1, 2}
  NoKey = NoKey
  kQueueSize = 2
  Garbage = {5}
  MaxSets = 3
  MaxCrashes = 2
SPECIFICATION FairSpec
INVARIANTS
  TypeOK
  NumbersAreUnique
  RecoveredIsVisible
  ReplayIsComplete
PROPERTIES
  InitEndsIfFits
CHECK_DEADLOCK FALSE
