CONSTANTS
  c1 = c1
  c2 = c2
  c3 = c3
  n1 = n1
  n2 = n2
  Conn = {c1, c2, c3}
  Names = {n1, n2}
  Listener = Listener
  None = None
  Faulty = {c2}
  MaxClients = 2
  BufferFrames = 2
  Script <- Talk
SPECIFICATION FairSpec
INVARIANTS TypeOK WritersBelong MessagesAfterWelcome
PROPERTIES LeavesOnlyWhenDone NextFrameHandled HalfClosedLeave DropEnds
CHECK_DEADLOCK FALSE
