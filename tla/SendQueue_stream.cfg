SPECIFICATION FairSpec
CONSTANTS
  NumFrames = 2
  NumPack <- TwoFrames
  Timebase = 1
  NumUi = 1
  MaxLate = 0
  MaxFail = 1
INVARIANTS NoneLost RaceNeedsLate
PROPERTIES StreamInOrder StreamSent
CHECK_DEADLOCK FALSE
