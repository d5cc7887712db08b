SPECIFICATION FairSpec
CONSTANTS
  MaxFrameLength = 1024
  MaxCapacity = 1024
  Asks <- MCAsks
  Body <- MCBody
  EventBody <- MCEventBody
  Errors <- MCErrors
  MaxAsks = 3
  MaxEvents = 1
INVARIANTS
  OutstandingIsRemembered
  AnswersReadAsAsked
PROPERTY
  EveryoneIsAnswered
CHECK_DEADLOCK FALSE
