SPECIFICATION Spec
CONSTANTS
  QpBdOffset = 12
  SliceQp = 62
  Layouts <- TileLayouts
  CodedCtus <- CodedQps
  HeaderBytes <- ShortHeaders
  DataLengths <- NoData
INVARIANT QpReadBack
CHECK_DEADLOCK FALSE
