SPECIFICATION EndlessSpec
CONSTANTS
  Tick <- MCHalfSecond
  MinRTO <- MCMinRTO
  MaxRTO <- MCMaxRTO
  ClockGranularity <- MCClockGranularity
  Adaptive = FALSE
  BaseInterval = 1
  BaseTimeout = 1
  ReconnectInterval = 4
  RetryPause = 1
  LinkUpMissThreshold = 2
  maxConsecutiveWriteFails = 2
  RespChCap = 1
  MaxRTT = 2
  AgeCap = 2
  MaxProbes = 3
  MaxPanics = 1
  MaxDups = 0
PROPERTIES
  DeadLinkShows
  CancelStops
  AddressRefreshed
