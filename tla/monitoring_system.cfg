SPECIFICATION SSpec
CONSTANTS
  Pod = {p1, p2}
  Target = {t1}
  None = None
  Token = {k1, k2}
  WorkerLease = 1
  Batch = 1
  MaxFailures = 1
  FailureCap = 1
  Seen = {"quiet"}
  MaxLosses = 1
  Conn = {c1, c2}
  LeaderLease = 2
  BootLease <- ExpiredLease
  MaxFaults = 1
  MaxHold = 1
  MaxAsks = 1
  MaxTroubles = 1
INVARIANTS
  OneDispatcherPerEpoch
  OneLeaderPerEpoch
  RowNamesTheLeader
PROPERTIES
  OrphansAreReclaimed
  ImplementsFencedLeadership
  LeadershipSettles
