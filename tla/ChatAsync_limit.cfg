CONSTANTS
  Conn = {"c1", "c2", "c3"}
  Names = {"n1", "n2", "n3"}
  None = None
  Tests <- LimitTests
SPECIFICATION FairSpec
INVARIANT AtMostMaxClients
CHECK_DEADLOCK FALSE
