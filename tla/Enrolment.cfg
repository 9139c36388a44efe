SPECIFICATION FairSpec
CONSTANTS
  p = p
  q = q
  People <- MCPeople
  Stints <- MCStints
  Caps <- MCCaps
  FirstCap = 1
  GraceIsSet = TRUE
  MaxCalls = 2
  MaxEdits = 1
CHECK_DEADLOCK FALSE
INVARIANTS
  HoldOnDiagram
  SeatsAddUp
  NotOverfull
PROPERTIES
  DenialEnds
  PaymentCounts
