SPECIFICATION IncSpec
CONSTANTS
  Incident = {i1, i2, i3}
  Alert = {a1}
  Severity = {4, 5}
  Client = {c1, c2}
  Worker = {w1, w2}
  Admin = {c2}
  None = None
  MaxRequests = 3
INVARIANTS
  OnePerThreat
PROPERTIES
  LandsOnActive
  FollowsLifeCycle
  RequestsEnd
CHECK_DEADLOCK FALSE
