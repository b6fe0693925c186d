SPECIFICATION FieldSpec
CONSTANTS
  a1 = a1
  Assignments = {a1}
  f1 = f1
  f2 = f2
  Pharmacies = {f1, f2}
  v1 = v1
  Visitors = {v1}
  Keys = {}
  q1 = q1
  q2 = q2
  FieldRequests = {q1, q2}
  NoVisitor = NoVisitor
  NoKey = NoKey
  NoStop = NoStop
SYMMETRY MCSymmetry
CHECK_DEADLOCK FALSE
PROPERTIES
  LastStopCompletes
