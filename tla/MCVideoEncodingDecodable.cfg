CONSTANTS
    MaxStarts = 1
    MaxChanges = 1
    MaxPauses = 0
    MaxQueued = 1
SPECIFICATION VideoSpec
INVARIANTS PicturesDecodable
CHECK_DEADLOCK FALSE
