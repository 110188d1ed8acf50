SPECIFICATION GraphSpec
CONSTANTS
  NumRecords = 3
  MaxProfile = 4
  Similar <- MCSimilar
  Alike <- MCAlike
  Keyed = {1, 3}
  Batch = {r1, r2}
  MaxJobAttempts = 1
  MaxMishaps = 0
INVARIANT HumanStands
CHECK_DEADLOCK FALSE
