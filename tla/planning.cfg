SPECIFICATION MCSpec
CONSTANTS
  c1 = c1
  c2 = c2
  c3 = c3
  Calls = {c1, c2, c3}
  Costs = {2, 3}
  MaxCost = 3
  Budget = 4
  MaxDay = 3
  o1 = o1
  o2 = o2
  OptCalls = {o1, o2}
  Vehicles = {1, 2}
  Sizes = {2, 3}
  MaxRetries = 1
  Tiers <- MCTiers
  MaxVolume = 6
  MaxMonth = 2
  Cell <- MCCell
  Queries <- MCQueries
  Requests = {1, 2}
  Buckets = {0}
  NoRoute <- MCNoRoute
  MaxElements = 2
  Ttl = 1
  MaxTime = 2
  Nothing = Nothing
  Reps = {1, 2}
  PlanDays = {1, 2}
  Stops = {1, 2, 3, 4, 5}
  NoPoint = 99
  Service = 1
  GapThreshold = 2
  MaxIterations = 3
  MaxSwaps = 2
  AssignmentInputs <- MCAssignmentInputs
  DayInputs <- MCDayInputs
  Sites = {1, 2, 3, 4}
  Inf = 999
  SolverInputs <- MCSolverInputs
  MaxPasses <- MCPasses
  SwapPasses = 3
  SwapsPerPass = 4
  Gap = Gap
  Answers = {0, 12}
  NoBreak = NoBreak
SYMMETRY MCSymmetry
CHECK_DEADLOCK FALSE
INVARIANTS
  OverrunBounded
  SpendAccounted
  MonthPriced
  AnswersMatch
  OffersAnswers
  DayFits
  PlannedOnce
  ShortOnlyIfFull
  EveryStopOnce
  NoDearerThanNearest
  NoReversalHelps
  SwapsPayOff
  LunchKept
  BordersApart
