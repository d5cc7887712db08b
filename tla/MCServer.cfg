SPECIFICATION FairSpec
CONSTANTS
  c1 = c1
  c2 = c2
  c3 = c3
  Clients = {c1, c2, c3}
  Limits = {4, 6}
  Grants = {TRUE, FALSE}
  MaxVisits = 3
INVARIANTS
  TypeOK
  SocketsAreTheTasks
  EnoughDescriptors
PROPERTIES
  EveryoneIsAccepted
  OthersUndisturbed
CHECK_DEADLOCK FALSE
