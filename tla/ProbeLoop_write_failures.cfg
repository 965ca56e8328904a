SPECIFICATION Spec
CONSTANTS
  Tick <- MCHalfSecond
  MinRTO <- MCMinRTO
  MaxRTO <- MCMaxRTO
  ClockGranularity <- MCClockGranularity
  Adaptive = FALSE
  BaseInterval = 1
  BaseTimeout = 4
  ReconnectInterval = 9
  RetryPause = 1
  LinkUpMissThreshold = 3
  maxConsecutiveWriteFails = 2
  RespChCap = 1
  MaxRTT = 4
  AgeCap = 5
  MaxProbes = 2
  MaxPanics = 0
  MaxDups = 0
INVARIANT WriteFailuresShow
