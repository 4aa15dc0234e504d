CONSTANTS
  PipeCap = 1
  BufLines = 2
  MaxLines = 1
  MaxSignals = 1
SPECIFICATION FairSpec
PROPERTY SignalEndsRun
CHECK_DEADLOCK FALSE
