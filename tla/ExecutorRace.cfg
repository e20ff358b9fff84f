SPECIFICATION FairSpec
CONSTANTS
  p1 = p1
  p2 = p2
  Procs = {p1, p2}
  Calls = 2
  Retried <- MCRetried
  Guarded <- MCGuarded
  MaxAttempts = 2
  Deadline = FALSE
  MaxCrashes = 1
  MaxLost = 0
  MaxRequests = 0
  MaxGranted = 2
INVARIANTS
  TypeOK
  RowFollowsOps
  SeenIsRecorded
  OneVerdict
PROPERTIES
  ErrorIsExhaustion
  Settles
  ImplementsRun
CHECK_DEADLOCK FALSE
