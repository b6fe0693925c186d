SPECIFICATION Spec
CONSTANTS
  r1 = r1
  Runs = {r1}
  LastJob = 2
  Columns <- MCColumns
  Inserts <- MCInserts
  Writers <- MCWriters
  Carried <- MCCarried
  Ttl = 2
  MaxSource = 1
  MaxFaults = 1
  Never = 99
CHECK_DEADLOCK FALSE
INVARIANTS
  OverriddenAtRest
