SPECIFICATION LiveSpec
CONSTANTS
  s1 = s1
  s2 = s2
  Slots <- MCSlots
  RespChCap = 2
  maxDeadlineFails = 3
INVARIANTS
  TypeOK
  EndedSessionsAreReleased
PROPERTIES
  ReadersLeave
  DeafnessHeals
  CancelEndsAll
