\* A reference picture that is not there: lost on the way, or from before the
\* CRA picture at which the decoder joined.
SPECIFICATION Spec
CONSTANTS
  MaxDecPicBuffering = 4
  NumReorderPics = 2
  MaxPocLsb = 8
  Streams <- NoStreams
  Disturbed <- LostStreams
  SkipFrames <- SkipOne
PROPERTIES LostReplaced
