SPECIFICATION Spec
CONSTANTS
  Core = 4
  One = 4
  PoolSize = 2
  Feedback = TRUE
  GainInverse = 2
  Noise = 0
  Stagger = TRUE
  Measurable = TRUE
  Targets <- MC_RestTargets
  Usages <- MC_Usages
  MaxSets = 2
INVARIANTS
  Inv
  OneLateBurn
PROPERTIES
  DutySettles
  RestsAtZero
  Returns
CHECK_DEADLOCK FALSE
