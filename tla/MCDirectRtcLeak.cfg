CONSTANT Ice = {}
CONSTANT MaxChanges <- NoChange
SPECIFICATION Spec
INVARIANT Disconnected
CHECK_DEADLOCK FALSE
