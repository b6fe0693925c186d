SPECIFICATION BusSpec
CONSTANTS
  p1 = p1
  p2 = p2
  Procs = {p1, p2}
  b1 = b1
  Browsers = {b1}
  MaxEvents = 2
  MaxFaults = 0
  RecentMax = 3
  Epoch = 10
  NoProc = NoProc
  NoId = 0
SYMMETRY MCSymmetry
INVARIANTS
  MissedReplayed
