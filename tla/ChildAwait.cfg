SPECIFICATION FairSpec
CONSTANTS
  c1 = c1
  c2 = c2
  Children = {c1, c2}
  Awaited <- MCAwaitBoth
  Sessions = {s1, s2}
  Exclusive = FALSE
  Settles = FALSE
  MaxCrashes = 1
  MaxLost = 1
INVARIANTS
  TypeOK
  NotStranded
  EnqueuedWasCreated
  CompletedMeansJoined
PROPERTIES
  NeverRestarted
  RunEnds
  ImplementsJoin
CHECK_DEADLOCK FALSE
