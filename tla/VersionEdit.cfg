CONSTANTS
  Edits <- MCEdits
  kMaxLevel = 7
  kMaxWriter = 4
  Unset = Unset
  MaxByte = 255
  Recorded <- MCRecorded
  KeyRanges <- MCKeyRanges
  EditLevels = {0, 1}
  MaxEdits = 4
  MaxBuilders = 2
SPECIFICATION BuilderSpec
INVARIANTS
  WholeEditIsReadBack
  LengthsAgree
  CutEditIsNotMisread
  SavedAsEdited
  FilesAreCounted
  SearchListIsComplete
CHECK_DEADLOCK FALSE
