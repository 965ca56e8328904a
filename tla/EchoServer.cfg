SPECIFICATION LiveSpec
CONSTANTS
  a = a
  b = b
  x = x
  Clients <- MCClients
  allowed <- MCAllowed
  Secret = TRUE
  MaxPktsPerIP = 2
  MaxPktsGlobal = 3
  WindowLen = 2
  MaxReceived = 7
INVARIANTS
  TypeOK
  GlobalIsTheSum
  SlidingBound
PROPERTIES
  NotStarved
  CancelFreesTheSocket
