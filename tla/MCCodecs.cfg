SPECIFICATION Spec
CONSTANTS
  MaxFrameLength = 1024
  MaxCapacity = 1024
  Scalars <- MCScalars
  Contents <- MCContents
  MaxElements = 2
  MaxOps = 2
  OpRows <- MCOpRows
  OpNulls <- MCOpNulls
  Xids <- MCXids
  Errors <- MCErrors
  OtherFrames <- MCOtherFrames
  OtherReplies <- MCOtherReplies
  Following <- MCFollowing
INVARIANTS
  TypeOK
  LengthPrefixIsBodyLength
  ForwardedAsSent
  RequestOutcome
  ReplyForwardedAsSent
  ReplyOutcome
  SizeIsWidth
  ReadsBackToItsEnd
CHECK_DEADLOCK FALSE
