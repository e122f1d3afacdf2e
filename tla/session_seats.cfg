CONSTANTS
  Core = {c1, c2}
  Glass = {g1, g2}
  None = none
  MaxToken = 4
SPECIFICATION Spec
INVARIANT HelloMatches SeatHasToken
PROPERTY NoRotationUnderASeat
SYMMETRY Symmetry
