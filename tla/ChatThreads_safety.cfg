CONSTANTS
  c1 = c1
  c2 = c2
  c3 = c3
  n1 = n1
  n2 = n2
  n3 = n3
  None = None
  Main = Main
  Wake = Wake
  Conns = {c1, c2, c3}
  Names = {n1, n2}
  MaxClients = 2
  MaxRequests = 1
  MayJoin <- ClashingNames
  MayAsk <- MixedAsks
  Faulty = {c1}
  Slow = {c3}
  MayDrop = TRUE
SPECIFICATION Spec
CHECK_DEADLOCK FALSE
INVARIANTS
  TypeOK
  NoInterleaving
  AtMostMaxClients
  WelcomeFirst
  RegisteredAreShut
