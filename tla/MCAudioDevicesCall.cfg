CONSTANTS MaxAttempts = 2 MaxEvents = 4
SPECIFICATION Spec
INVARIANTS HeardWhereSaid AttemptsKnown
PROPERTY HeadsetFollowed
CHECK_DEADLOCK FALSE
