CONSTANTS
  PipeCap = 1
  BufLines = 2
  MaxLines = 3
  MaxSignals = 2
SPECIFICATION FairSpec
INVARIANTS
  DispatcherTypeOK
  ExitCodeIsTruthful
  NoChildLeft
  OkMeansDelivered
PROPERTIES
  EndOfInputEndsAll
  BrokenPipelineEnds
  SignalInWaitEndsRun
CHECK_DEADLOCK FALSE
