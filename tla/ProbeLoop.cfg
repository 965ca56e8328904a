SPECIFICATION Spec
CONSTANTS
  Tick <- MCHalfSecond
  MinRTO <- MCMinRTO
  MaxRTO <- MCMaxRTO
  ClockGranularity <- MCClockGranularity
  Adaptive = FALSE
  BaseInterval = 1
  BaseTimeout = 2
  ReconnectInterval = 5
  RetryPause = 1
  LinkUpMissThreshold = 2
  maxConsecutiveWriteFails = 2
  RespChCap = 1
  MaxRTT = 3
  AgeCap = 3
  MaxProbes = 3
  MaxPanics = 1
  MaxDups = 1
INVARIANTS
  TypeOK
  Accounts
  Balance
  LinkUpIsEarned
  JitterNeverSpansALoss
PROPERTIES
  KeepsTheLedger
