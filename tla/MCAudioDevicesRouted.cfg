CONSTANTS MaxAttempts = 2 MaxEvents = 4
SPECIFICATION Spec
INVARIANTS Routed
CHECK_DEADLOCK FALSE
