SPECIFICATION Spec
CONSTANTS
  NumRecords = 3
  BatchSize = 2
  NoMap = NoMap
  NoRequest = NoRequest
  m1 = m1
  m2 = m2
  Maps = {m1, m2}
  Good <- Accepts
  Origins = {FALSE}
  Clients = {c1}
  Overtakings = {{"map", "validate"}}
  MaxFaults = 1
PROPERTIES CommittedIsFrozen
CHECK_DEADLOCK FALSE
