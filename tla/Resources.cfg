SPECIFICATION Spec
CONSTANTS
  Texts <- MC_Texts
  Kilo = 9
  Kibi = 10
  Cases <- MC_Cases
INVARIANTS
  SourceHonest
  EstimateConsistent
  InOrder
  StillRuns
  Unwarned
  EnginesFit
CHECK_DEADLOCK FALSE
