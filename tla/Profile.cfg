SPECIFICATION Spec
CONSTANTS
  Specs <- MC_Specs
  Loops <- MC_Both
  HoldLasts <- MC_Both
  Unit = 12
  MaxGap = 5
  Width = 6
  Height = 3
  SubSamples = 3
  OpenWindow = 8
  NiceSteps <- MC_NiceSteps
  Windows <- MC_Windows
  MaxElapsed = 16
INVARIANTS
  Inv
  WithinPeak
  ChartFaithful
PROPERTIES
  PhasesInOrder
  EndIsFinal
CHECK_DEADLOCK FALSE
