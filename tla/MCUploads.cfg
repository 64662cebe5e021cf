CONSTANTS
  Kind <- Group
  Gone <- NoFile
  Sizes <- FileSizes
  Limit = 3
  AlbumBytes = 3
  AlbumFiles = 3
  Attempts = 2
  MaxFloods = 1
SPECIFICATION UploadsSpec
INVARIANTS PlanIsBest SentOnceBeforeReported
PROPERTY GroupEnds
CHECK_DEADLOCK FALSE
