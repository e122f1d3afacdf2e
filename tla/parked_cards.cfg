SPECIFICATION Spec
CONSTANTS
  c1 = c1  c2 = c2  c3 = c3
  NoCard = NoCard
  Card = {c1, c2}
  MaxCrashes = 1
  MaxMishaps = 1
  MaxBus = 2
  MaxLag = 1
INVARIANTS SendNeedsItsAllow SentTwiceOnlyIfUndone
PROPERTIES LeavesByAnswer
SYMMETRY Alike
CHECK_DEADLOCK FALSE
