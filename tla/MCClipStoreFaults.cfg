CONSTANTS
  Procs = {p1, p2}
  Keys = {k1}
  Ttls = {0}
  Queries = {{k1}}
  GcAlone = TRUE
  DiskMayFill = TRUE
  None = None
  MaxRuns = 4
  MaxRows = 2
  MaxNow = 0
SPECIFICATION FairSpec
PROPERTIES
  RowsOnlyAdvance
  RunsEnd
CHECK_DEADLOCK FALSE
