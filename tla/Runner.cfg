SPECIFICATION Spec
CONSTANTS
  Configs <- MC_Configs
  MaxTime = 6
  MaxInFlight = 1
INVARIANTS
  Inv
  ReadinessHonest
  OrderlyEnd
  EndsForAReason
PROPERTIES
  Exits
  ImplementsLifecycle
CHECK_DEADLOCK FALSE
