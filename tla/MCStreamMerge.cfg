CONSTANTS
  ClipMs = 2
  IdleMs = 1
  MaxSafe = 3
  MaxLines = 3
  MaxRecords = 3
  PollMs = 2
  MetaWaitMs = 1
  Other = Other
  Chunks <- MCChunks
SPECIFICATION FairMSpec
INVARIANTS
  MTypeOK
  NoLostWakeup
  EveryRecordTakenOnce
  CleanExitIsComplete
  ClipBytesOnDisk
PROPERTIES
  DrivesFsm
  SentinelEndsRun
  IdleClipLeaves
  WrittenLinesAreFed
CHECK_DEADLOCK FALSE
