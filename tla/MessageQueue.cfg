CONSTANTS
  Clients = {c1, c2, c3}
  NoClient = NoClient
  Keys = {k1}
  NoKey = NoKey
  DelFlags = {FALSE}
  kQueueSize = 2
  kMaxActiveListSize = 1
  MaxSets = 4
SPECIFICATION FairSpec
INVARIANTS
  TypeOK
  RingHoldsLog
  InsertedIsLogPrefix
  ReturnedSetIsLogged
  BoundedSeqInversion
PROPERTIES
  Refinement
  LoggedIsInserted
  LockIsReleased
CHECK_DEADLOCK FALSE
