SPECIFICATION ASpec
CONSTANTS
  Worker = {w1, w2}
  Analyst = {u1}
  Alert = {a1, a2}
  None = None
  Severity = {1, 2}
  Window = 0
  MaxClock = 1
  MaxEvents = 3
  MaxRequests = 2
SYMMETRY Symmetry
INVARIANTS
  OneLiveAlert
  CountsEveryEvent
  StreamAgrees
PROPERTIES
  ImplementsLifeCycle
CHECK_DEADLOCK FALSE
