SPECIFICATION ConSpec
CONSTANTS
  Alert = {a1, a2}
  Task = {t1, t2}
  None = None
  MaxPlaybooks = 1
  MaxStarts = 3
  MaxTroubles = 1
INVARIANTS
  ConTypeOK
  InForceIsRevertible
  PerformedOnce
  FallbackCap
PROPERTIES
  CapacityReturns
CHECK_DEADLOCK FALSE
