SPECIFICATION VSpec
CONSTANTS
  Pod = {p1, p2}
  Conn = {s1, s2}
  None = None
  QueueSize = 1
  ReplayLimit = 1
  History = 1
  MaxStreams = 1
  MaxEvents = 2
  MaxTimers = 1
  MaxFaults = 1
INVARIANTS
  VTypeOK
  LossIsSignalled
  InOrderIsShown
  CapHolds
PROPERTIES
  ComesBack
CHECK_DEADLOCK FALSE
