SPECIFICATION Spec
CONSTANTS
  Setups <- MCSetups
  Count = 3
  MaxTtl = 3
  MinPayload = 1
  MaxPayload = 5
  MaxOwed = 2
INVARIANTS
  VerdictHonest
  DriversLetGo
  MtuBracketed
PROPERTIES
  TestsEnd
