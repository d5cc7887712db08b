SPECIFICATION Spec
CONSTANTS
  ByteBase = 256
  UsizeMax = 2147483647
  Builders <- KeepBuilders
  Streams <- KeepInputs
  MaxLens = {}
  PayloadLists = {}
INVARIANT
  KeptExamplesHold
CHECK_DEADLOCK FALSE
