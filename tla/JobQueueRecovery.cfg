SPECIFICATION Spec
CONSTANTS
  j1 = j1
  j2 = j2
  k1 = k1
  Jobs = {j1}
  Workers = {w1, w2}
  Parents = {p1, p2}
  Keys = {k1}
  Key <- OneJobKey
  MaxAttempts = 2
  MaxFaults = 3
  NoKey = NoKey
  NoJob = NoJob
  NoAttempt = NoAttempt
SYMMETRY Symmetry
INVARIANTS NoStrayWriter
PROPERTIES ImplementsLedger
CHECK_DEADLOCK FALSE
