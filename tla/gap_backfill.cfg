SPECIFICATION Spec
CONSTANTS
  w1 = w1
  w2 = w2
  Workers <- TwoWorkers
  MaxId = 4
  Ts <- TiedTimes
  MaxIdsPerTask = 2
  PageSize = 1
  FetchLimit = 2
  MaxLive = 2
  MaxOther = 1
  MaxFaults = 1
  MaxStops = 1
  MaxCrashes = 1
SYMMETRY WorkerSymmetry
INVARIANT TypeOK  TasksDisjoint
CHECK_DEADLOCK FALSE
