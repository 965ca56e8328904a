SPECIFICATION Spec
CONSTANTS
  MinRTO <- MCMinRTO
  MaxRTO <- MCMaxRTO
  ClockGranularity <- MCClockGranularity
  BaseTimeout <- MCBaseTimeout
  Samples <- MCSamples
  MaxUpdates = 4
  MaxTimeouts = 12
INVARIANTS
  TypeOK
  BackoffSaturates
PROPERTIES
  SampleCovered
  BackoffNeverLowers
\* A behaviour ends when both bounds are reached.
CHECK_DEADLOCK FALSE
