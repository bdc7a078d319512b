SPECIFICATION Spec
CONSTANTS
  Tables <- BothTables
  Overlap = 2
  BatchSize = 3
  MaxMinute = 4
  MaxTrades = 5
CHECK_DEADLOCK FALSE
INVARIANT TypeOK BarsSettle  
