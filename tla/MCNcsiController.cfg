SPECIFICATION ControllerSpec
CONSTANTS
  PortNum = 2
  MaxModes = 1
  Modes <- MCModes
  Speeds <- MCSpeeds
  Requests <- MCRequests
  Watched <- MCWatched
  Links <- MCLinks
INVARIANTS
  KnownIsReported
  RepeatIsHarmless
PROPERTIES
  CurrentTransmits
CHECK_DEADLOCK FALSE
