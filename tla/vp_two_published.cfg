SPECIFICATION Spec
CONSTANTS
  p1 = p1
  p2 = p2
  p3 = p3
  Plans = {p1, p2, p3}
  NoPlan = NoPlan
  a1 = a1
  a2 = a2
  Alerts = {a1, a2}
  NoAlert = NoAlert
  rep = rep
  Scopes = {rep}
  Periods <- MCPeriods
  Days <- MCDays
  NoSlot = NoSlot
  w1 = w1
  w2 = w2
  Workers = {w1, w2}
  MaxVersion = 1
SYMMETRY MCSymmetry
CHECK_DEADLOCK FALSE
INVARIANTS
  OnePublished
