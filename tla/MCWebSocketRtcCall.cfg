CONSTANTS MaxIce = 1 MaxTexts = 2
SPECIFICATION Spec
INVARIANTS TypeOK Delivered NoFalseAlarm LittleLeftBehind
PROPERTY CallEnds
CHECK_DEADLOCK FALSE
