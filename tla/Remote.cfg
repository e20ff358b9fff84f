SPECIFICATION Spec
CONSTANTS
  a1 = a1
  a2 = a2
  a3 = a3
  p1 = p1
  p2 = p2
  w1 = w1
  w2 = w2
  k1 = k1
  f1 = f1
  f2 = f2
  m1 = m1
  m2 = m2
  Actors = {a1, a2, a3}
  Procs = {p1, p2}
  Rows = {w1, w2, k1, f1, f2}
  Fresh = {f1, f2}
  NoRow = none
  Bodies = {m1, m2}
  Nothing = nothing
  Void = void
  Thrown = thrown
  Waiting = waiting
  Null = null
  Jobs <- MCJobs
  MaxCalls = 4
  MaxRetries = 1
  MaxYields = 2
  MaxFaults = 2
  MaxWakes = 1
INVARIANTS
  ReceivedOnce
  SentOnce
  StreamInOrder
  FlagsAgree
  OneResult
CHECK_DEADLOCK FALSE
