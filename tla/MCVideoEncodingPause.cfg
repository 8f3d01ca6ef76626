CONSTANTS
    MaxStarts = 1
    MaxChanges = 0
    MaxPauses = 1
    MaxQueued = 1
SPECIFICATION VideoSpec
INVARIANTS NoEncoderLost
PROPERTIES NothingAfterStop RecordedStopCloses
CHECK_DEADLOCK FALSE
