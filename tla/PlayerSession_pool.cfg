SPECIFICATION FairSpec
CONSTANTS
  p1 = p1
  p2 = p2
  Peers <- OnePeer
  NumThreads = 3
  MaxPush = 1
  MayExit = TRUE
INVARIANTS PointersLive MenuShowsSessions
PROPERTY AcceptConnects LostLeavesMenu LostClosesWindow
CHECK_DEADLOCK FALSE
