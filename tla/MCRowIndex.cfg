CONSTANTS
  Keys = {k1, k2, k3, k4}
  Values = {"", "a", "b", "c"}
  Tombstone = ""
  Deflate <- MCDeflate
  None = None
  HashCodes = {1, 3, 7}
  INITIAL_BUCKETS = 2
SPECIFICATION Spec
INVARIANTS
  IndexTypeOK
  ProbeEnds
  EveryRowFindable
PROPERTY ImplementsRowMap
SYMMETRY Symmetry
CHECK_DEADLOCK FALSE
