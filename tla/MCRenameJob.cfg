CONSTANTS
  N = 3
  FileId <- MCFileId
  OldName <- MCOldName
  NewName <- MCNewName
  Size <- MCSize
  Cap = 2
  MaxKills = 1
SPECIFICATION Spec
INVARIANTS DiskBound AccountedOnce
PROPERTY BatchEnds
CHECK_DEADLOCK FALSE
