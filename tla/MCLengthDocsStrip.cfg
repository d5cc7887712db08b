SPECIFICATION Spec
CONSTANTS
  ByteBase = 256
  UsizeMax = 2147483647
  Builders <- StripBuilders
  Streams <- StripInputs
  MaxLens = {}
  PayloadLists = {}
INVARIANT
  StrippedExamplesHold
CHECK_DEADLOCK FALSE
