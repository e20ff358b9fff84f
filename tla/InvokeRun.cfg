SPECIFICATION FairSpec
CONSTANTS
  v1 = v1
  v2 = v2
  Calls = 3
  Sleeps <- MCSleeps
  Guarded <- MCGuarded
  Vars = {v1, v2}
  MaxLost = 1
  MaxOutages = 1
  MaxCrashes = 2
  MaxRequests = 2
INVARIANTS
  TypeOK
  SuccessIsEarned
  ErrorHasCauseIfReliable
  OverMeansSaved
  SameVars
PROPERTIES
  SeenNotRerun
  ReplayAgrees
  ImplementsRun
  RunEnds
CHECK_DEADLOCK FALSE
