CONSTANTS
  Clients = {c1, c2}
  NoClient = NoClient
  Keys = {k1, k2}
  NoKey = NoKey
  DelFlags = {FALSE}
  kQueueSize = 2
  kMaxActiveListSize = 2
  MaxSets = 2
SPECIFICATION StringsSpec
INVARIANTS
  ListedAsLogged
CHECK_DEADLOCK FALSE
