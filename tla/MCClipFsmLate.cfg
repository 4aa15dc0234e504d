CONSTANTS
  ClipMs = 2
  IdleMs = 1
  MaxSafe = 2
  MaxRecords = 3
  Chunks <- MCChunks
SPECIFICATION Spec
INVARIANT
  LateRecordsRejected
CHECK_DEADLOCK FALSE
