SPECIFICATION Spec
CONSTANTS
  Tick <- MCSecond
  MinRTO <- MCMinRTO
  MaxRTO <- MCMaxRTO
  ClockGranularity <- MCClockGranularity
  Adaptive = TRUE
  BaseInterval = 1
  BaseTimeout = 1
  ReconnectInterval = 4
  RetryPause = 1
  LinkUpMissThreshold = 2
  maxConsecutiveWriteFails = 2
  RespChCap = 1
  MaxRTT = 2
  AgeCap = 5
  MaxProbes = 4
  MaxPanics = 1
  MaxDups = 0
INVARIANTS
  RunsAgree
  TimeoutCoversTheLink
  RTOBounded
PROPERTY DoublesOncePerSweep
