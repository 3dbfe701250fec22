CONSTANTS
  kMaxWriter = 2
  kMaxFrozenList = 1
  MaxLists = 2
  MaxSpurious = 0
  MaxFailures = 0
SPECIFICATION FairSpec
PROPERTIES
  WaiterResumes
CHECK_DEADLOCK FALSE
