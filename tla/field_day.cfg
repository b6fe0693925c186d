SPECIFICATION MCSpec
CONSTANTS
  w1 = w1
  w2 = w2
  Workers = {w1, w2}
  Jobs = {1}
  NoJob = NoJob
  Hostings = {TRUE, FALSE}
  Chunks = 3
  Kinds = {"clean", "mixed", "invalid", "skipped", "silent", "throws"}
  MaxCrashes = 1
  q1 = q1
  q2 = q2
  Requests = {q1, q2}
  DayReps = {1, 2}
  Stops = {1, 2, 3}
  Urgent = 4
  Located = {1, 2, 4}
  Homed = {1, 2}
  DayKinds = {"start", "deviate", "reassign", "resequence", "breakdown", "urgent", "manual"}
  NoRep = 0
  FieldRequests = {q1, q2}
  SoftN = 1
  Cap = 9
  Service = 2
  Travel = 1
  Pad = 1
  Near = 1
  a1 = a1
  a2 = a2
  Assignments = {a1, a2}
  f1 = f1
  f2 = f2
  Pharmacies = {f1, f2}
  v1 = v1
  v2 = v2
  Visitors = {v1, v2}
  k1 = k1
  Keys = {k1}
  NoVisitor = NoVisitor
  NoKey = NoKey
  NoStop = NoStop
  p1 = p1
  p2 = p2
  Procs = {p1, p2}
  b1 = b1
  Browsers = {b1}
  MaxEvents = 2
  MaxFaults = 1
  RecentMax = 1
  Epoch = 10
  NoProc = NoProc
  NoId = 0
  Items = {1, 2, 3}
  Places = {1, 2}
  Known = {1}
  Flags = {"wrong_category"}
  Reviews = {q1, q2}
  NoItem = NoItem
  u1 = u1
  Users = {u1}
  Issues = {q1, q2}
  Uses = {w1, w2}
  MaxLinks = 2
SYMMETRY MCSymmetry
CHECK_DEADLOCK FALSE
INVARIANTS
  NothingSkipped
  OneTick
  CountedOnce
  OneVisitADay
  StopsResolvedByVisits
  VisitsVerified
  DuplicatesBounded
  BufferSeen
  ReviewsAgree
  LinksHonoured
PROPERTIES
  EndedIsFinal
  LocksRespected
  BrokenRepFreed
