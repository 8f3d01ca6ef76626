CONSTANTS
    Timestamps = {1, 2}
    MaxFrames = 2
    MaxSessions = 2
SPECIFICATION Spec
INVARIANTS OnlyThisBroadcast
CHECK_DEADLOCK FALSE
