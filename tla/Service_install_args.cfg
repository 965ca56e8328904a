SPECIFICATION Spec
CONSTANTS
  CommandLines <- MCCommandLines
  MaxTargetsCount = 2
  MaxNameLen = 2
  MaxHostLen = 4
  MaxLabelLen = 2
  MaxAllow = 2
INVARIANT
  RegisteredServiceStarts
