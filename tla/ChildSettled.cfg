SPECIFICATION Spec
CONSTANTS
  c1 = c1
  c2 = c2
  Children = {c1, c2}
  Awaited <- MCAwaitBoth
  Sessions = {s1}
  Exclusive = TRUE
  Settles = TRUE
  MaxCrashes = 0
  MaxLost = 0
INVARIANT CompletedMeansJoined
CHECK_DEADLOCK FALSE
