SPECIFICATION NSafe
CONSTANTS
  Pod = {p1, p2}
  Job = {j1}
  Request = {r1}
  None = None
  Batch = 2
  MaxAttempts = 2
  Threshold = 2
  MaxLapses = 1
  MaxFaults = 0
  MaxTroubles = 1
  MaxOps = 0
PROPERTIES
  DeliveredIsFinal
CHECK_DEADLOCK FALSE
