SPECIFICATION Spec
CONSTANTS
  MaxStarts = 1
  MaxRead = 0
  MaxTyped = 0
  MaxPauses = 1
  MaxLost = 1
INVARIANT OffAirWhenLeft
CHECK_DEADLOCK FALSE
