CONSTANTS
  ClipMs = 2
  IdleMs = 1
  MaxSafe = 2
  MaxRecords = 3
  Chunks <- MCChunks
SPECIFICATION Spec
INVARIANTS
  TypeOK
  CutsPartition
  ClipsDescribeRecords
  NoHoleInsideClip
  InsideWindow
  CutsJustified
  SequenceAdvances
  NoOverflow
PROPERTY
  ImplementsSegmentation
CHECK_DEADLOCK FALSE
