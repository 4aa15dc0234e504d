CONSTANTS
  Procs = {p1, p2}
  Keys = {k1, k2}
  Ttls = {0, 1}
  Queries = {{k1, k2}}
  GcAlone = TRUE
  DiskMayFill = FALSE
  None = None
  MaxRuns = 3
  MaxRows = 2
  MaxNow = 1
SPECIFICATION Spec
INVARIANTS
  StoreTypeOK
  NoAckedRowLost
PROPERTIES
  ImplementsIndex
  CompactionDropsDead
CHECK_DEADLOCK FALSE
