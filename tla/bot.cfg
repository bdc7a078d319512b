SPECIFICATION FairSpec
CONSTANTS
  Slots <- TwoSlots
  QMax = 1
  MaxRows = 2
  MaxEvents = 1
INVARIANT TypeOK  NoOrphan
PROPERTY StopEndsBot EndsWhenStopped
