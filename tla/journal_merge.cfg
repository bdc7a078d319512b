SPECIFICATION Spec
CONSTANTS
  Rows <- MixedRows
  MaxRows = 2
  PageRows = 2
  Since = 12
  NBatches = 2
  MaxReplays = 1
  MaxFaults = 1
INVARIANTS TypeOK TablesAgree ReplayConverges HotScanExact
PROPERTY FinalStays
CHECK_DEADLOCK FALSE
