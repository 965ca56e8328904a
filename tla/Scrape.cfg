SPECIFICATION Spec
CONSTANTS
  MaxProbes = 3
  MaxTorn = 2
INVARIANTS
  TypeOK
  ScrapeGap
  RestartsBalance
