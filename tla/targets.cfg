SPECIFICATION MSpec
CONSTANTS
  Pod = {p1}
  Target = {t1, t2}
  None = None
  Token = {k1, k2}
  WorkerLease = 1
  Batch = 1
  MaxFailures = 2
  FailureCap = 2
  Seen = {"quiet", "threat", "unreachable", "ssrf"}
  MaxLosses = 0
  Request = {r1, r2}
  Quota = 1
  Preset <- NoPreset
  MaxOps = 3
SYMMETRY Symmetry
INVARIANTS
  SuspensionHolds
  RegistrationRespectsQuota
PROPERTIES
  StaleWorkerNeverCommits
  NoLostFailureCount
CHECK_DEADLOCK FALSE
