SPECIFICATION Spec
CONSTANTS
  c1 = c1  c2 = c2  c3 = c3
  NoCard = NoCard
  Card = {c1}
  MaxCrashes = 0
  MaxMishaps = 0
  MaxBus = 2
  MaxLag = 1
PROPERTIES CoreAllowSends
CHECK_DEADLOCK FALSE
