CONSTANTS
  Procs = {p1, p2}
  Keys = {k1, k2}
  Ttls = {0, 1}
  Queries = {{k1, k2}}
  GcAlone = TRUE
  DiskMayFill = TRUE
  None = None
  MaxRuns = 3
  MaxRows = 2
  MaxNow = 1
SPECIFICATION Spec
INVARIANT
  NoAckedRowLost
CHECK_DEADLOCK FALSE
