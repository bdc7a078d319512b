SPECIFICATION Spec
CONSTANTS
  Rows <- MixedRows
  MaxRows = 2
  PageRows = 2
  Since = 12
  NBatches = 1
  MaxReplays = 0
  MaxFaults = 0
INVARIANT CanonicalScanOnce
CHECK_DEADLOCK FALSE
