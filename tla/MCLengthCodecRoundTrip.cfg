SPECIFICATION Spec
CONSTANTS
  ByteBase = 4
  UsizeMax = 100
  Builders <- MCBothWays
  Streams <- MCEncodings
  MaxLens = {}
  PayloadLists <- MCPayloadLists
INVARIANT
  RoundTrip
CHECK_DEADLOCK FALSE
