CONSTANTS
  kMaxWriter = 1
  kMaxFrozenList = 1
  MaxLists = 3
  MaxSpurious = 1
  MaxFailures = 0
  Clients = {c1}
  Readers = {r1}
  k1 = k1
  k2 = k2
  Keys = {k1, k2}
  NoKey = NoKey
  writerID <- OnePartition
  DelFlags = {FALSE}
  kQueueSize = 2
  kMaxActiveListSize = 2
  MaxSets = 4
SPECIFICATION DBSpec
SYMMETRY Symmetry
INVARIANTS
  DBTypeOK
  QuietReadIsExact
CHECK_DEADLOCK FALSE
