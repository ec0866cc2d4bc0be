CONSTANTS
  Conn = {"c1", "c2", "c3"}
  Names = {"n1", "n2", "n3"}
  None = None
  Tests <- OwnTests
SPECIFICATION FairSpec
INVARIANTS TypeOK EntriesBelong
PROPERTIES ServedUntilItLeaves AnsweredInTheEnd TheGoneMakeRoom TestsPass
CHECK_DEADLOCK FALSE
