SPECIFICATION NSpec
CONSTANTS
  Pod = {p1, p2}
  Job = {j1, j2}
  Request = {r1}
  None = None
  Batch = 2
  MaxAttempts = 2
  Threshold = 2
  MaxLapses = 1
  MaxFaults = 1
  MaxTroubles = 1
  MaxOps = 1
INVARIANTS
  PostsBounded
  TrippedStaysTripped
  OneNoticePerTrip
PROPERTIES
  ImplementsJobLifeCycle
  JobsSettle
CHECK_DEADLOCK FALSE
