\* Every payload of up to four bytes, written, split, read back and extracted.
SPECIFICATION Spec
CONSTANTS
  MaxPayload = 4
  Streams <- ThreeUnits
INVARIANTS NoEmulation SplitExact ReadBack
CHECK_DEADLOCK FALSE
