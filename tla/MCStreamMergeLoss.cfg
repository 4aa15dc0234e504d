CONSTANTS
  ClipMs = 2
  IdleMs = 1
  MaxSafe = 3
  MaxLines = 3
  MaxRecords = 3
  PollMs = 2
  MetaWaitMs = 1
  Other = Other
  Chunks <- MCChunks
SPECIFICATION MSpec
INVARIANT
  ExitZeroMeansAllProcessed
CHECK_DEADLOCK FALSE
