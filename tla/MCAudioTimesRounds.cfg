CONSTANTS MaxFrames = 4  MaxTime = 10  ConfigSize = 1  MinGap = 2  Half = 8  Scale = 2
CONSTANT Sizes <- TwoSizes
SPECIFICATION TimedSpec
INVARIANTS BytesKept TimesRecovered
CHECK_DEADLOCK FALSE
