SPECIFICATION Spec
CONSTANTS
  ChunkSize = 4
  MaxStepBytes = 8
  ReleaseThreshold = 8
  ReleaseInterval = 1
  Compensate = TRUE
  RSSReadable = TRUE
  Footprint = 3
  Targets <- MC_RampTargets
  MaxSets = 3
  MaxTouches = 1
INVARIANTS
  AllocationBounded
  IInv
PROPERTIES
  ForcedReleaseEarned
  CountsPublished
  TargetReached
  GenuineDropReturned
  EventuallyDrained
  ImplementsHolding
CHECK_DEADLOCK FALSE
