SPECIFICATION FairSpec
CONSTANTS
  p1 = p1
  p2 = p2
  Procs = {p1}
  Calls = 2
  Retried <- MCRetried
  Guarded <- MCGuarded
  MaxAttempts = 2
  Deadline = FALSE
  MaxCrashes = 0
  MaxLost = 1
  MaxRequests = 0
  MaxGranted = 2
PROPERTIES
  Settles
CHECK_DEADLOCK FALSE
