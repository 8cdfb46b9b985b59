SPECIFICATION Spec
CONSTANTS
  Core = 1000
  One = 1024
  PoolSize <- MC_SuggestedPool
  Feedback = TRUE
  GainInverse = 2
  Noise = 20
  Targets <- MC_Targets
  Limits <- MC_Limits
  Backgrounds <- MC_Backgrounds
  MaxEvents = 3
PROPERTIES
  Converges
  GivesUpWithinScale
  SuggestedPoolReaches
