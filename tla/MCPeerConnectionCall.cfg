SPECIFICATION Spec
CONSTANTS
  Calls <- OneCall
  MaxCandidates = 2
  MaxKept = 1
  MaxEvents = 2
  MaxFailures = 1
  LimitsBitrate = TRUE
INVARIANTS TypeOK CandidatesKept SentOnce CaptureFollowsScreen ErrorsHeard
INVARIANTS DisconnectDisposes
CHECK_DEADLOCK FALSE
