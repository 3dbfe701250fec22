CONSTANTS
  kMaxWriter = 2
  kMaxFrozenList = 2
  MaxLists = 3
  MaxSpurious = 1
  MaxFailures = 1
SPECIFICATION FairSpec
INVARIANTS
  TypeOK
  HistoryKept
  OverfillBound
  RefsMatch
PROPERTIES
  CompactionIsAtomic
  FullIsCompacted
CHECK_DEADLOCK FALSE
