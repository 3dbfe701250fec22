CONSTANTS
  MaxByte = 2
  KeySets <- MCKeySets
  ValueSizes = {0, 30}
  block_size = 20
  block_restart_interval = 2
  kFilterBaseLg = 5
SPECIFICATION Spec
INVARIANTS
  TypeOK
  RestartsAreWhole
  IndexSeparates
  TableReadsBack
  CutTableIsRefused
  FilterMatchesItsBlock
CHECK_DEADLOCK FALSE
