SPECIFICATION Spec
CONSTANTS
  MaxStarts = 2
  MaxRead = 0
  MaxTyped = 0
  MaxPauses = 1
  MaxLost = 1
INVARIANT TypeOK RoomListed
PROPERTY LossStops
CHECK_DEADLOCK FALSE
