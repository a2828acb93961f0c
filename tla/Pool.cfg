SPECIFICATION FairSpec
CONSTANTS
  a = a
  b = b
  c = c
  d = d
  Callers <- FourCallers
  N = 3
  Permits = 2
INVARIANT TypeOK
INVARIANT InflightCountsLeases
PROPERTY PickIsLeastBusy
PROPERTY EveryoneIsServed
