SPECIFICATION Spec
CONSTANTS
  Configs <- MCConfigs
  Endpoints <- MCEndpoints
  Phones <- MCPhones
  OctetBits = 2
  MaxRestarts = 1
  MaxInFlight = 2
INVARIANTS
  TypeOK
  NeverTurnedAway
  OnlyClientsLearn
  RepliesAreHonest
PROPERTY FindsTheServer
CHECK_DEADLOCK FALSE
