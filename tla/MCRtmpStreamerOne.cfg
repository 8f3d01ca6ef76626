CONSTANTS
    Timestamps = {1, 2, 3}
    MaxFrames = 4
    MaxSessions = 1
SPECIFICATION Spec
INVARIANTS WireInTimeOrder CountCoversQueue
PROPERTIES   StopClosesConnection ImplementsMerge
CHECK_DEADLOCK FALSE
