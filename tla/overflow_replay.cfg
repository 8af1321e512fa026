SPECIFICATION VSafe
CONSTANTS
  Pod = {p1}
  Conn = {s1}
  None = None
  QueueSize = 2
  ReplayLimit = 2
  History = 3
  MaxStreams = 1
  MaxEvents = 3
  MaxTimers = 0
  MaxFaults = 0
PROPERTIES
  DisplacedIsReplayed
CHECK_DEADLOCK FALSE
