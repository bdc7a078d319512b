SPECIFICATION Spec
CONSTANTS
  Slots <- TwoSlots
  QMax = 1
  MaxRows = 2
  MaxEvents = 1
PROPERTY PauseHolds
