SPECIFICATION Spec
CONSTANTS
  QpBdOffset = 12
  SliceQp = 62
  Layouts <- AllLayouts
  CodedCtus <- Coded
  HeaderBytes <- Headers
  DataLengths <- Lengths
INVARIANTS CtusReadBack QpReadBackInBrick
PROPERTY PictureDecoded
CHECK_DEADLOCK FALSE
