CONSTANTS
  fwd = fwd
  flt = flt
  l1 = l1
  l2 = l2
  dist = dist
  gath = gath
  i0 = i0
  a = a
  b = b
  d1 = d1
  d2 = d2
  g1 = g1
  g2 = g2
  o = o
  Nothing = Nothing
  Mixed = Mixed
  Nodes <- ForkNodes
  Chans <- ForkChans
  In <- ForkIn
  Out <- ForkOut
  Handles <- ForkHandles
  InputChan = i0
  OutputChan = o
  QueueSize = 0
  MaxItems = 6
  Keep <- KeepSome
  Panics <- TwoPanics
SPECIFICATION EagerSpec
CHECK_DEADLOCK TRUE
INVARIANTS
  TypeOK
  GatherAligned
PROPERTIES
  ImplementsPipe
  ThreadsEnd
  SendReturns
  ItemsArrive
