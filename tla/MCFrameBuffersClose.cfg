CONSTANTS MaxFrames = 4  MaxTime = 6  ConfigSize = 1  MinGap = 1
CONSTANT Sizes <- TwoSizes
SPECIFICATION Spec
INVARIANT BytesKept
CHECK_DEADLOCK FALSE
