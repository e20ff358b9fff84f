SPECIFICATION Spec
CONSTANTS
  v1 = v1
  v2 = v2
  Calls = 3
  Sleeps <- MCSleeps
  Guarded <- MCGuarded
  Vars = {v1, v2}
  MaxLost = 1
  MaxOutages = 0
  MaxCrashes = 0
  MaxRequests = 0
INVARIANT ErrorHasCause
CHECK_DEADLOCK FALSE
