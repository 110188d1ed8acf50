SPECIFICATION MigrationSpec
CONSTANTS
  Export = {}
  MaxVersion = 2
  Chunks <- MCChunks
  MaxTrouble = 0
  NoExport = NoExport
INVARIANT DownloadIsOneVersion
CHECK_DEADLOCK FALSE
