SPECIFICATION MCSpec
CONSTANTS
  Calls = {}
  Costs = {2}
  MaxCost = 3
  Budget = 4
  MaxDay = 1
  OptCalls = {}
  Vehicles = {1}
  Sizes = {2}
  MaxRetries = 0
  Tiers <- MCTiers
  MaxVolume = 2
  MaxMonth = 1
  Cell <- MCCell
  Queries <- MCQueries
  Requests = {}
  Buckets = {0}
  NoRoute = {}
  MaxElements = 2
  Ttl = 1
  MaxTime = 0
  Nothing = Nothing
  Reps = {1, 2}
  PlanDays = {1, 2}
  Stops = {1, 2, 3, 4, 5}
  NoPoint = 99
  Service = 1
  GapThreshold = 2
  MaxIterations = 3
  MaxSwaps = 2
  AssignmentInputs <- MCAssignmentInputs
  DayInputs <- MCDayInputs
  Sites = {1, 2, 3, 4}
  Inf = 999
  SolverInputs <- MCSolverInputs
  MaxPasses <- MCPasses
  SwapPasses = 3
  SwapsPerPass = 4
  Gap = Gap
  Answers = {0, 12}
  NoBreak = NoBreak
CHECK_DEADLOCK FALSE
INVARIANTS
  StopsKept
