CONSTANTS
  Conn = {"c1", "c2", "c3"}
  Names = {"n1", "n2", "n3"}
  None = None
  Threaded = {"dm_spam"}
  Mute = {"c1"}
  Room = 1
  Tests <- SpamTest
SPECIFICATION FairSpec
PROPERTY TestsPass
CHECK_DEADLOCK FALSE
