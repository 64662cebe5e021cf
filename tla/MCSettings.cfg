SPECIFICATION Spec
CONSTANTS
  Keys <- MCKeys
  Values <- MCValues
  Empty = ""
  None = "unset"
  Hooked <- MCKeys
  Remote = {"speed"}
  Default <- MCDefault
  ProcessEnv <- FromContainer
  InitialDotenv <- MCDotenv
  Invalid <- MCInvalid
  UserList = "auth"
  People = {1, 2}
  Nobody = 0
  IdList <- MCIdList
  ExplicitOwner = 0
  WriteEnv = TRUE
  Files <- MCFiles
  EditLimit = 1
  HistoryLimit = 1
  MaxHistory = 2
  MaxRestarts = 1
INVARIANTS LiveIsShown SavedWhenConfirmed OwnerKept
PROPERTY UndoRestores
CHECK_DEADLOCK FALSE
