CONSTANTS
  j1 = j1
  j2 = j2
  s1 = s1
  Jobs <- MCTwoJobs
  Senders <- MCOneSender
  Cancellable <- MCNoJob
  MirrorJobs <- MCNoJob
  MaxConcurrentDL = 1
  MaxJobsPerChat = 3
  Cleaner = FALSE
  MaxRestarts = 1
SPECIFICATION FairSpec
CHECK_DEADLOCK FALSE
INVARIANT WorkHasGoroutine
PROPERTIES ImplementsService JobsSettle
