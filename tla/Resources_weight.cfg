SPECIFICATION Spec
CONSTANTS
  Texts <- MC_Texts
  Kilo = 9
  Kibi = 10
  Cases <- MC_Cases
INVARIANTS
  DefaultWeightIsNoRequest
CHECK_DEADLOCK FALSE
