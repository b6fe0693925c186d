SPECIFICATION MCSpec
CONSTANTS
  p1 = p1
  p2 = p2
  Plans = {p1, p2}
  NoPlan = NoPlan
  a1 = a1
  a2 = a2
  Alerts = {a1, a2}
  NoAlert = NoAlert
  rep = rep
  Scopes = {rep}
  NoSlot = NoSlot
  w1 = w1
  w2 = w2
  Requests = {w1, w2}
  MaxVersion = 2
  Jobs = {1, 2}
  NoJob = NoJob
  Hostings = {TRUE}
  Chunks = 2
  Kinds = {"mixed"}
  Ticks = {w1, w2}
  MaxCrashes = 2
  Procs = {p1, p2}
  b1 = b1
  Browsers = {b1}
  MaxEvents = 1
  MaxFaults = 2
  RecentMax = 1
  Epoch = 10
  NoProc = NoProc
  NoId = 0
  r1 = r1
  Runs = {r1}
  LastJob = 2
  Ttl = 2
  MaxSource = 2
  MaxFailures = 1
  Never = 99
CHECK_DEADLOCK FALSE
PROPERTIES
  RequestsEnd
  JobsEnd
  SourceReaches
  DeliveredWhileOpen
