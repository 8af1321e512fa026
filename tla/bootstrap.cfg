SPECIFICATION ESpec
CONSTANTS
  Pod = {p1, p2}
  Conn = {c1}
  None = None
  LeaderLease = 2
  BootLease = None
  MaxFaults = 0
  MaxHold = 1
PROPERTIES
  SomeLeaderEmerges
