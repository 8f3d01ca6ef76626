CONSTANTS MaxFrames = 4  MaxTime = 6  ConfigSize = 1  MinGap = 2
CONSTANT Sizes <- TwoSizes
SPECIFICATION Spec
INVARIANT BytesKept
CHECK_DEADLOCK FALSE
