CONSTANTS
  Conn = {"c1", "c2", "c3"}
  Names = {"n1", "n2", "n3"}
  None = None
  Threaded = {"free"}
  Mute = {"c1"}
  Room = 1
  Tests <- OwnTests
SPECIFICATION FairSpec
INVARIANTS TypeOK EntriesBelong
PROPERTIES CutOffByNamesakes NothingHangs TestsPass
CHECK_DEADLOCK FALSE
