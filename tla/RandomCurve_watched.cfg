SPECIFICATION Spec
CONSTANTS
  Length = 2
  MaxPeriods = 3
  MaxGap = 2
  MaxPlans = 1
  MaxDraws = 6
PROPERTIES
  ReproducibleWhenWatched
CHECK_DEADLOCK FALSE
