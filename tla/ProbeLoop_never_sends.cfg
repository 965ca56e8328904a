SPECIFICATION HealthySpec
CONSTANTS
  Tick <- MCHalfSecond
  MinRTO <- MCMinRTO
  MaxRTO <- MCMaxRTO
  ClockGranularity <- MCClockGranularity
  Adaptive = FALSE
  BaseInterval = 3
  BaseTimeout = 2
  ReconnectInterval = 3
  RetryPause = 1
  LinkUpMissThreshold = 3
  maxConsecutiveWriteFails = 2
  RespChCap = 1
  MaxRTT = 3
  AgeCap = 3
  MaxProbes = 2
  MaxPanics = 0
  MaxDups = 0
PROPERTY ProbesGetSent
