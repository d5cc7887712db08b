SPECIFICATION FairSpec
CONSTANTS
  ByteBase = 3
  UsizeMax = 4
  Builders <- MCBuilders
  Streams <- MCStreams
  MaxLens = {1, 5}
  PayloadLists = {}
INVARIANTS
  TypeOK
  SameAsReadAtOnce
  FramesCutByTheirHeads
  RememberedLengthIsTheHeads
PROPERTY
  DrainsItsInput
CHECK_DEADLOCK FALSE
