SPECIFICATION Spec
CONSTANTS
  Specs <- MC_OpenSpecs
  Loops <- MC_No
  HoldLasts <- MC_Yes
  Unit = 12
  MaxGap = 5
  Width = 6
  Height = 3
  SubSamples = 3
  OpenWindow = 8
  NiceSteps <- MC_NiceSteps
  Windows <- MC_Windows
  MaxElapsed = 16
INVARIANTS
  OpenEndedKeepsTime
CHECK_DEADLOCK FALSE
