SPECIFICATION FairPipeSpec
CONSTANTS
  ByteBase = 4
  UsizeMax = 100
  Builders <- MCPipeBuilders
  Streams <- MCPipeStreams
  MaxLens = {}
  PayloadLists = {}
  Refused <- MCRefused
INVARIANTS
  PassedUnaltered
  SentWhole
  BackendReadsTheFrames
PROPERTY
  PipeEnds
CHECK_DEADLOCK FALSE
