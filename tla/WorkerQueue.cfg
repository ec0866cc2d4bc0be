CONSTANTS
  N = 2
  QueueSize = 1
  MaxJobs = 6
  Panicking = {3, 4}
  Endless = {1}
  None = None
SPECIFICATION FairSpec
CHECK_DEADLOCK FALSE
INVARIANT
  TypeOK
PROPERTIES
  ImplementsPool
  OthersProgress
  CallsReturn
  CloseEnds
