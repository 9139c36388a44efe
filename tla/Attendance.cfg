SPECIFICATION FairSpec
CONSTANTS
  k1 = k1
  k2 = k2
  y = y
  People <- MCPeople
  Keyholders <- MCKeyholders
  MaxCalls = 2
  FlushBatch = 1
  MaxVisits <- MCMaxVisits
INVARIANTS
  TypeOK
  NeverUnattended
PROPERTIES
  ImplementsRegister
  UnconfirmedCloseSparesTheSeen
  EveryVisitEnds
