SPECIFICATION Spec
CONSTANTS
  p1 = p1
  p2 = p2
  Producers <- TwoProducers
  PruneSafety = 1
  BufMax = 3
  PageMax = 2
  DrainMax = 2
  Faults <- NoFaults
  ReplayModes <- NoReplay
  MaxBatches = 2
  MaxFaults = 0
  MaxCrashes = 0
PROPERTY ImplementsOrderedBus
