SPECIFICATION Spec
CONSTANTS
  p1 = p1
  p2 = p2
  Producers <- OneProducer
  PruneSafety = 1
  BufMax = 1
  PageMax = 2
  DrainMax = 2
  Faults <- SinkFaults
  ReplayModes <- AnyReplay
  MaxBatches = 3
  MaxFaults = 2
  MaxCrashes = 1
INVARIANT   DuplicatesNeedFaults DhHandlesNew NewestKept
PROPERTY ImplementsOrderedBus StoreSpec FreshBatch
