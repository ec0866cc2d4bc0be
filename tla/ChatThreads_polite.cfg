CONSTANTS
  c1 = c1
  c2 = c2
  c3 = c3
  n1 = n1
  n2 = n2
  n3 = n3
  None = None
  Main = Main
  Wake = Wake
  Conns = {c1, c2, c3}
  Names = {n1, n2, n3}
  MaxClients = 2
  MaxRequests = 1
  MayJoin <- DistinctNames
  MayAsk <- OneWayAsks
  Faulty = {}
  Slow = {}
  MayDrop = FALSE
SPECIFICATION FairSpec
CHECK_DEADLOCK TRUE
INVARIANTS
  MapMirrorsHandlers
  RepliesReachRequester
  AcceptsUntilDropped
PROPERTIES
  RequestCompletes
  HandlerEnds
