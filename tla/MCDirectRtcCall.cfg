CONSTANT Ice = {"candidate"}
CONSTANT MaxChanges <- OneOffered
SPECIFICATION Spec
INVARIANTS TypeOK InOrder NoFalseAlarm
PROPERTY HangUpHeard
CHECK_DEADLOCK FALSE
