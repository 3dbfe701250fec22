CONSTANTS
  Clients = {c1, c2}
  NoClient = NoClient
  Keys = {k1, k2}
  NoKey = NoKey
  DelFlags = {FALSE}
  kQueueSize = 2
  kMaxActiveListSize = 2
  MaxSets = 3
  Readers = {r1}
SPECIFICATION SearchSpec
SYMMETRY Symmetry
INVARIANTS
  SearchTypeOK
  HitIsLogged
  PassedOverIsInserted
CHECK_DEADLOCK FALSE
