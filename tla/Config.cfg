SPECIFICATION Spec
CONSTANTS
  DurationOf <- MC_DurationOf
  FractionOf <- MC_FractionOf
  CountOf <- MC_CountOf
  CurveOf <- MC_CurveOf
  Segments <- MC_Segments
  Quantities <- MC_Quantities
  Sources <- MC_Sources
  Lists <- MC_Lists
INVARIANTS
  Layered
  StrongestRuns
  Playable
  CompactMeansYAML
CHECK_DEADLOCK FALSE
