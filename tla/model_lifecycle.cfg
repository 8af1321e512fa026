SPECIFICATION LSpec
CONSTANTS
  Process = {p1, p2}
  Task = {t1, t2}
  Sample = {s1, s2}
  None = None
  Threshold = 2
  MaxAttempts = 3
  MaxModels = 3
  MaxStarts = 3
  MaxFaults = 1
SYMMETRY Symmetry
INVARIANTS
  OnlyUnlinkingBreaksTheLock
  ChampionIsFit
  SamplesAreHeld
  PromotedIsKept
  InStep
CHECK_DEADLOCK FALSE
