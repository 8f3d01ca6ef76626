CONSTANTS
    MaxStarts = 1
    MaxChanges = 0
    MaxPauses = 0
    MaxQueued = 1
SPECIFICATION VideoSpec
PROPERTIES StopCloses
CHECK_DEADLOCK FALSE
