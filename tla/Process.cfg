SPECIFICATION Spec
CONSTANTS
  f1 = f1
  f2 = f2
  c1 = c1
  n1 = n1
  n2 = n2
  n3 = n3
  n4 = n4
  Fns = {f1, f2}
  Ctors = {c1}
  Names = {n1, n2, n3, n4}
  NoFn = nofn
  NoCtor = noctor
  NoName = noname
  Blank = blank
  FnName <- MCFnName
  FirstPart <- MCFirstPart
  Jobs <- MCJobs
  Statements <- MCStatements
  Ws = {w1}
  Sender = sender
  MaxStatements = 3
  MaxLaunches = 2
  MaxLost = 1
  MaxCrashes = 1
INVARIANTS
  LauncherRunsAlone
  ExitTells
  RecoveredAsStarted
CHECK_DEADLOCK FALSE
