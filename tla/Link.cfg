SPECIFICATION Spec
CONSTANTS
  c1 = c1
  t1 = t1
  t2 = t2
  Clients <- MCClients
  allowed <- MCClients
  Targets <- MCTargets
  ipOf <- MCIpOf
  Secret = TRUE
  MaxPktsPerIP = 2
  MaxPktsGlobal = 2
  WindowLen = 1
  MaxReceived = 5
  Interval = 2
  MaxDelay = 1
  MaxProbes = 2
  MaxDups = 1
SYMMETRY MCSymmetry
INVARIANTS
  TypeOK
  EchoedWasCounted
  MismatchIsTheWire
CHECK_DEADLOCK FALSE
