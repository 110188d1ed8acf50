SPECIFICATION WorkersSpec
CONSTANTS
  j1 = j1
  j2 = j2
  k1 = k1
  Jobs = {j1, j2}
  Workers = {w1, w2}
  Parents = {p1}
  Keys = {k1}
  Key <- SharedKey
  MaxAttempts = 2
  MaxFaults = 1
  NoKey = NoKey
  NoJob = NoJob
  NoAttempt = NoAttempt
  Replicas = {ra, rb}
  NumTasks = 2
  MaxDay = 2
  MaxLapses = 3
  NoLeader = NoLeader
INVARIANTS RowIffJob
PROPERTIES EveryJobSettles StopDrains DayIsScheduled
CHECK_DEADLOCK FALSE
