SPECIFICATION FairSpec
CONSTANTS
  MaxFrameLength = 1024
  MaxCapacity = 1024
  ClientFrames <- MCFewFrames
  Units = {1}
  MaxRequests = 3
  MaxReplies = 5
  SockCap = 2
  HighWater = 1
INVARIANT
  LittleIsHeld
PROPERTIES
  BackendGoneEndsIt
  ClientGoneEndsIt
  RequestsGetThrough
  RepliesGetThrough
CHECK_DEADLOCK FALSE
