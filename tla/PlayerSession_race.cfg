SPECIFICATION Spec
CONSTANTS
  p1 = p1
  p2 = p2
  Peers <- TwoPeers
  NumThreads = 2
  MaxPush = 0
  MayExit = FALSE
INVARIANTS CallbackAsserts
CHECK_DEADLOCK FALSE
