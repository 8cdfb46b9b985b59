SPECIFICATION Spec
CONSTANTS
  ChunkSize = 4
  MaxStepBytes = 0
  ReleaseThreshold = 8
  ReleaseInterval = 2
  Compensate = TRUE
  RSSReadable = TRUE
  Footprint = 3
  Targets <- MC_OscillatingTargets
  MaxSets = 4
  MaxTouches = 1
INVARIANTS
  OscillationNeverForces
CHECK_DEADLOCK FALSE
