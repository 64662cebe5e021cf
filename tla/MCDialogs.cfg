CONSTANTS
  Places = {"dm", "group"}
  Private = {"dm"}
  Keys = {"plain", "danger"}
  Dangerous = {"danger"}
  Handlers = {1, 2}
  MaxBatch = 2
  MaxJobs = 1
  Scenes <- MCScenes
  MaxUpdates = 4
  MaxAsks = 1
SPECIFICATION DialogsSpec
INVARIANTS RenamesWhatWasSent TakenOnce JobsBounded
PROPERTY DialogsEnd
CHECK_DEADLOCK FALSE
