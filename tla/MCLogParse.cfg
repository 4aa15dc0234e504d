CONSTANTS
  Precision = 16
  MaxInt = 17
  SizeMax = 34
  FirstCap = 3
  LongSize = 25
  MaxLines = 2
  NoMatch = NoMatch
  Malformed = Malformed
  OptionSets <- MCOptions
  Captures <- MCCaptures
  Objects <- MCObjects
SPECIFICATION Spec
INVARIANTS
  LogTypeOK
  OutputIsOfSelectedLines
  SummaryIsOfSelectedLines
  OutputUnambiguous
  BufferHoldsPieces
CHECK_DEADLOCK FALSE
