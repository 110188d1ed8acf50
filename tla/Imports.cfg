SPECIFICATION ImportsSpec
CONSTANTS
  NumRecords = 3
  BatchSize = 2
  NoMap = NoMap
  NoRequest = NoRequest
  m1 = m1
  m2 = m2
  Maps = {m1, m2}
  Good <- Accepts
  Origins = {FALSE, TRUE}
  Clients = {c1, c2}
  Overtakings = {{}, {"map", "validate", "start"}}
  MaxFaults = 2
  Raw = {"c1", "c2", "c3", "c4", "c5", "c6", "c7", "g1", "g2", "g3", "g4", "v1"}
  Mapped <- MCMapped
  Files <- MCFiles
  RowsPerBatch = 2
  WellFormed = {"e", "f", "p"}
  FromAuthority = TRUE
  Listed = {"e", "p"}
  Forgotten = {"e"}
  MaxFiles = 2
  MaxEdits = 2
  MaxDeaths = 1
INVARIANTS ReimportSettles EachRecordOnce CountersMatch Resumable
PROPERTIES BatchIsItsRows ImportSettles
CHECK_DEADLOCK FALSE
