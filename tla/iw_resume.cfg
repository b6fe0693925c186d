SPECIFICATION Spec
CONSTANTS
  w1 = w1
  w2 = w2
  Workers = {w1, w2}
  Jobs = {1}
  NoJob = NoJob
  Hostings = {TRUE}
  Chunks = 2
  Kinds = {"clean"}
  MaxCrashes = 0
CHECK_DEADLOCK FALSE
INVARIANTS
  NextTickResumes
