\* Every conforming closed GOP of four pictures, every open GOP, from the start
\* and joined at its CRA picture, and every change of parameter sets; and a GOP
\* with one NAL unit lost, in a window that may close at any moment.
SPECIFICATION Spec
CONSTANTS
  MaxDecPicBuffering = 4
  NumReorderPics = 2
  MaxPocLsb = 8
  Streams <- CodedStreams
  Disturbed <- LossStreams
  SkipFrames <- SkipOne
INVARIANTS NoFailure RefsFound SetsCurrent SetsAlive OutputInOrder BumpingDone BufferBound FinishedShown
INVARIANTS QueueExact
PROPERTIES Terminates
