SPECIFICATION Spec
CONSTANTS
  a = a
  b = b
  Ids = {a, b}
  NoId = noid
  MaxCrashes = 2
  Programs <- MCPrograms
  Versions <- MCVersions
INVARIANTS
  EachCallItsOwn
CHECK_DEADLOCK FALSE
