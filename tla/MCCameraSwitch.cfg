SPECIFICATION Spec
CONSTANTS
  Proxies <- MCProxies
  MaxTries = 1
  MaxMoves = 3
  MaxSurface = 1
INVARIANTS TypeOK NoLostWakeup NoCameraLost
PROPERTIES OpenGetsCamera
CHECK_DEADLOCK FALSE
