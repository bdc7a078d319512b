SPECIFICATION FairSpec
CONSTANTS
  p1 = p1
  p2 = p2
  Producers <- OneProducer
  PruneSafety = 1
  BufMax = 1
  PageMax = 2
  DrainMax = 2
  Faults <- RecoverableFaults
  ReplayModes <- NoReplay
  MaxBatches = 3
  MaxFaults = 1
  MaxCrashes = 1
PROPERTY EventuallyCommitted EventuallyInDh
