SPECIFICATION FairSpec
CONSTANTS
  NumFrames = 3
  FrameSize <- ThreeFrames
  MaxBody = 2
  NumThreads = 3
INVARIANTS OneFramePerNalu CompleteUnlessRaced
PROPERTY DecoderStops
CHECK_DEADLOCK FALSE
