CONSTANTS
  j1 = j1
  j2 = j2
  s1 = s1
  Jobs <- MCFirstJob
  Senders <- MCOneSender
  Cancellable <- MCFirstJob
  MirrorJobs <- MCFirstJob
  MaxConcurrentDL = 1
  MaxJobsPerChat = 3
  Cleaner = TRUE
  MaxRestarts = 1
SPECIFICATION FairSpec
CHECK_DEADLOCK FALSE
INVARIANT CancelHonoured
PROPERTIES CleanupKeepsLiveDirs JobsSettle
