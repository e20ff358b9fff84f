SPECIFICATION FairSpec
CONSTANTS
  p1 = p1
  p2 = p2
  Procs = {p1}
  Calls = 2
  Retried <- MCRetried
  Guarded <- MCGuardedFirst
  MaxAttempts = 2
  Deadline = TRUE
  MaxCrashes = 1
  MaxLost = 1
  MaxRequests = 2
  MaxGranted = 2
PROPERTIES
  CancelStopsAttempts
  CancelEnds
  DeadlineCancels
CHECK_DEADLOCK FALSE
