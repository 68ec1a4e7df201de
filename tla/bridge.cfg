SPECIFICATION FairSpec
CONSTANTS
  i0 = i0
  i1 = i1
  None = None
INVARIANTS
  TypeOK
  OwnQueuesMapped
  
PROPERTIES
  DisconnectReturns
  ExitEnds
  PollingSpec
CHECK_DEADLOCK FALSE
