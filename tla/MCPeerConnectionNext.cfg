SPECIFICATION Spec
CONSTANTS
  Calls <- TwoCalls
  MaxCandidates = 0
  MaxKept = 0
  MaxEvents = 1
  MaxFailures = 0
  LimitsBitrate = FALSE
INVARIANTS DisconnectDisposes
CHECK_DEADLOCK FALSE
