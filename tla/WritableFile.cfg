CONSTANTS
  kWritableFileBufferSize = 3
  SizeBytes = 2
  MaxAppend = 7
  MaxBytes = 16
SPECIFICATION Spec
INVARIANTS
  FileTypeOK
  FileIsPrefix
  NothingLost
  SyncedIsKept
CHECK_DEADLOCK FALSE
