CONSTANTS
  Ctxs = {c1}
  InitModels <- Models2
  BinStrings <- Strings
  MaxCalls = 4
SPECIFICATION Spec
INVARIANTS CarryFits StopBitFound
PROPERTY LosslessChannel
CHECK_DEADLOCK FALSE
