SPECIFICATION FairSpec
CONSTANTS
  Providers <- BothProducers
  BatchSize = 2
  MaxVolume = 2
  MaxUpdates = 3
  MaxFaults = 1
INVARIANT TypeOK RowsKept StoredOnceInOrder  VolumeConserved StatusHonest
PROPERTY StopEndsWorker
