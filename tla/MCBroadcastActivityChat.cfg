SPECIFICATION Spec
CONSTANTS
  MaxStarts = 1
  MaxRead = 2
  MaxTyped = 2
  MaxPauses = 1
  MaxLost = 2
INVARIANT ChatInOrder RoomListed
PROPERTY LossStops
CHECK_DEADLOCK FALSE
