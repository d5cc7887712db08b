SPECIFICATION Spec
CONSTANTS
  MaxFrameLength = 1024
  MaxCapacity = 1024
  ClientFrames <- MCFrames
  Units = {1, 2}
  MaxRequests = 3
  MaxReplies = 2
  SockCap = 2
  HighWater = 2
INVARIANTS
  TypeOK
  UpstreamInOrder
  DownstreamInOrder
  NothingLostDownstream
  NothingLostUpstream
  RememberedWhenForwarded
  LittleIsHeld
PROPERTY
  ImplementsRelay
CHECK_DEADLOCK FALSE
