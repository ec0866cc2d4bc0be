CONSTANTS
  Conn = {"c1", "c2", "c3"}
  Names = {"n1", "n2", "n3"}
  Listener = Listener
  None = None
  Faulty = {}
  MaxClients = 2
  BufferFrames = 2
  Script <- Silent
  Tests <- OwnTests
SPECIFICATION TestSpec
PROPERTIES TestsPass
CHECK_DEADLOCK FALSE
