SPECIFICATION Spec
CONSTANTS
  Proxies <- MCProxies
  MaxTries = 1
  MaxMoves = 2
  MaxSurface = 1
PROPERTY PauseReleases
CHECK_DEADLOCK FALSE
