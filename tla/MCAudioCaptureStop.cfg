CONSTANTS MaxBroadcasts = 2 MaxStops = 2 Slots = 2 InputBuffers = 1
CONSTANT MaxSamples <- FirstWraps
SPECIFICATION CaptureSpec
INVARIANTS CaptureTyped EndIsLast SampleIntact
PROPERTIES StopFrees
CHECK_DEADLOCK FALSE
