SPECIFICATION FairSpec
CONSTANTS
  s1 = s1
  s2 = s2
  s3 = s3
  NoSocket = none
  Sockets = {s1, s2, s3}
  MaxLate = 2
INVARIANTS
  TypeOK
  OneLiveSocket
  NoTimerWhileLive
PROPERTIES
  LossIsNoticed
  StopIsFinal
CHECK_DEADLOCK FALSE
