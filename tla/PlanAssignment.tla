--------------------------- MODULE PlanAssignment ---------------------------
(***************************************************************************)
(* planGenerator: which stops a rep gets on which day.  assignByGreedy     *)
(* fills the days one class at a time, nearest stop first, under the caps  *)
(* of the rep; balanceByVarianceSwap then moves stops from the rep with    *)
(* the longest day to the one with the shortest.                           *)
(*                                                                         *)
(* Points lie on a line and minutes are rounded distances, as in the code. *)
(* Which rep a stop belongs to (the k-means of utils/kmeans) is an input:  *)
(* any partition of the stops.  The km cap is proportional to the travel   *)
(* cap and is modelled by it.                                              *)
(***************************************************************************)
EXTENDS Integers, Sequences, FiniteSetsExt, Functions

CONSTANTS
  Reps,        \* 1..n, in the order of scopeUsers
  PlanDays,    \* 1..m
  Stops,       \* clients and prospects on offer
  AssignmentInputs, \* requests: homes, roles, targets, caps and flags per rep;
               \* position, class, owner and caution zone per stop
  NoPoint,     \* a rep without a home or depot
  Service,     \* service_minutes_per_stop
  GapThreshold,    \* BALANCE_GAP_THRESHOLD_MIN
  MaxIterations,   \* BALANCE_MAX_ITERATIONS
  MaxSwaps         \* BALANCE_MAX_SWAPS_PER_ITER

(* Reps and days are numbered; points lie on the line, and what a request  *)
(* holds is total.                                                         *)
ASSUME AssignSizes ==
  /\ IsFiniteSet(Reps) /\ Reps # {} /\ Reps = 1..Cardinality(Reps)
  /\ IsFiniteSet(PlanDays) /\ PlanDays = 1..Cardinality(PlanDays)
  /\ Service \in Nat /\ GapThreshold \in Nat

VARIABLES
  in,       \* the request and the flags, fixed
  cell,     \* the rep, day and class being filled
  tried,    \* candidates this cell has looked at
  placed,   \* how many it has accepted
  days,      \* assignments: the stops of each rep and day, in order of acceptance
  used,     \* dayBudgetUsed
  travel,   \* dayTravelUsed
  short,    \* the shortfalls
  bal,      \* the balance step
  \* history
  chosen    \* stops the greedy step has accepted

assignVars == <<in, cell, tried, placed, days, used, travel, short, bal, chosen>>

Roles == {"director", "gerente", "supervisor", "representante"}
ClientClasses == [director |-> {"A"}, gerente |-> {"A", "B"},
                  supervisor |-> {"A", "B"}, representante |-> {"B", "C"}]
Prospecting == {"supervisor", "representante"}

\* The classes of a day in the order in which they are filled.
Ladder == <<<<"client", "A">>, <<"client", "B">>, <<"client", "C">>,
            <<"prospect", "A">>, <<"prospect", "B">>, <<"prospect", "C">>,
            <<"prospect", "D">>>>

ASSUME AssignRequests == \A x \in AssignmentInputs :
  /\ x.home \in [Reps -> Int \cup {NoPoint}] /\ x.depot \in [Reps -> Int \cup {NoPoint}]
  /\ x.at \in [Stops -> Int \ {NoPoint}]
  /\ x.cap \in [Reps -> Nat] /\ x.travelCap \in [Reps -> Nat]
  /\ \A r \in Reps : \A g \in Range(Ladder) : x.target[r][g] \in Nat

Cells == 1..(Cardinality(PlanDays) * Cardinality(Reps) * Len(Ladder))
Done == Cardinality(Cells) + 1

\* for day of days, for u of scopeUsers, for pareto of the ladder
DayOf(n) == (n - 1) \div (Cardinality(Reps) * Len(Ladder)) + 1
RepOf(n) == (((n - 1) \div Len(Ladder)) % Cardinality(Reps)) + 1
RungOf(n) == Ladder[((n - 1) % Len(Ladder)) + 1]

Dist(a, b) == IF a > b THEN a - b ELSE b - a

\* estimateMinutes: Math.round, half a minute per unit of distance.
Minutes(a, b) == (Dist(a, b) + 1) \div 2

Home(r) == in.home[r]
Open(r) == in.open \/ (in.homeless /\ Home(r) = NoPoint)
At(c) == in.at[c]

\* The target of a cell, for the classes its rep may visit.
Demand(n) ==
  LET r == RepOf(n) rung == RungOf(n)
      allowed == IF rung[1] = "client" THEN rung[2] \in ClientClasses[in.role[r]]
                 ELSE in.role[r] \in Prospecting
  IN  IF allowed THEN in.target[r][rung] ELSE 0

CellAfter(n) == Min({m \in Cells : m > n /\ Demand(m) > 0} \cup {Done})

\* usedClients and usedProspects
Taken == UNION {Range(days[k]) : k \in Reps \X PlanDays}

Bucket(r, rungs) == {c \in Stops : in.owner[c] = r /\ in.rung[c] \in rungs}

\* Clients of class C may give way to prospects when none were asked for.
Backfilling(n) ==
  /\ RungOf(n) = <<"client", "C">>
  /\ in.role[RepOf(n)] \in Prospecting
  /\ \A i \in 4..7 : in.target[RepOf(n)][Ladder[i]] = 0

\* Mutant: stops of the days before are offered again.
PoolOfAll(n) == Bucket(RepOf(n), {RungOf(n)}) \ tried

Pool(n) ==
  LET own == (Bucket(RepOf(n), {RungOf(n)}) \ Taken) \ tried
  IN  IF own # {} \/ ~Backfilling(n) THEN own
      ELSE (Bucket(RepOf(n), {Ladder[i] : i \in 4..7}) \ Taken) \ tried

\* Distance to home, half as much again in a caution zone.
Score(r, c) ==
  LET anchor == IF Home(r) = NoPoint THEN in.depot[r] ELSE Home(r)
  IN  IF anchor = NoPoint THEN 0
      ELSE Dist(At(c), anchor) * (IF c \in in.caution THEN 3 ELSE 2)

Nearest(r, S) == {c \in S : \A o \in S : Score(r, c) <= Score(r, o)}

AssignInit ==
  /\ in \in AssignmentInputs
  /\ cell = CellAfter(0)
  /\ tried = {}
  /\ placed = 0
  /\ days = [k \in Reps \X PlanDays |-> <<>>]
  /\ used = [k \in Reps \X PlanDays |-> 0]
  /\ travel = [k \in Reps \X PlanDays |-> 0]
  /\ short = [n \in Cells |-> 0]
  /\ bal = [pc |-> "day", day |-> 1]
  /\ chosen = {}

-----------------------------------------------------------------------------
(* assignByGreedy                                                          *)

Prev(r, d) ==
  IF days[<<r, d>>] # <<>> THEN At(days[<<r, d>>][Len(days[<<r, d>>])])
  ELSE IF Home(r) # NoPoint THEN Home(r) ELSE in.depot[r]

\* tryFit: the leg from the previous point always counts, border leg or not
\* (the home it is compared with is a new object at every call).
LegTo(r, d, c) == IF Prev(r, d) = NoPoint THEN 0 ELSE Minutes(Prev(r, d), At(c))
LegBack(r, c) == IF Home(r) = NoPoint \/ Open(r) THEN 0 ELSE Minutes(At(c), Home(r))

\* Mutant: the return leg is not reserved.
FitsOneWay(r, d, c) == used[<<r, d>>] + LegTo(r, d, c) + Service <= in.cap[r]

Fits(r, d, c) ==
  /\ used[<<r, d>>] + LegTo(r, d, c) + Service + LegBack(r, c) <= in.cap[r]
  /\ travel[<<r, d>>] + LegTo(r, d, c) + LegBack(r, c) <= in.travelCap[r]

\* fitOrUnassign for the nearest candidate that is left.
Try(c) ==
  LET r == RepOf(cell) d == DayOf(cell)
  IN  /\ cell # Done
      /\ placed < Demand(cell)
      /\ c \in Nearest(r, Pool(cell))
      /\ tried' = tried \cup {c}
      /\ IF Fits(r, d, c)
         THEN /\ placed' = placed + 1
              /\ days' = [days EXCEPT ![<<r, d>>] = Append(@, c)]
              /\ used' = [used EXCEPT ![<<r, d>>] = @ + LegTo(r, d, c) + Service]
              /\ travel' = [travel EXCEPT ![<<r, d>>] = @ + LegTo(r, d, c)]
              /\ chosen' = chosen \cup {c}
         ELSE UNCHANGED <<placed, days, used, travel, chosen>>
      /\ UNCHANGED <<in, cell, short, bal>>

\* Mutant: the first refusal ends the cell.
ExhaustedAtOnce == Pool(cell) = {} \/ tried # {}

Exhausted == Pool(cell) = {}

\* The target is met or the pool exhausted: the shortfall is reported.
CloseCell ==
  /\ cell # Done
  /\ placed = Demand(cell) \/ Exhausted
  /\ short' = [short EXCEPT ![cell] = Demand(cell) - placed]
  /\ cell' = CellAfter(cell)
  /\ tried' = {}
  /\ placed' = 0
  /\ UNCHANGED <<in, days, used, travel, bal, chosen>>

-----------------------------------------------------------------------------
(* balanceByVarianceSwap                                                   *)

Hop(r, s, i) ==
  IF i > 1 THEN Minutes(At(s[i - 1]), At(s[i]))
  ELSE IF Home(r) = NoPoint \/ Open(r) THEN 0 ELSE Minutes(Home(r), At(s[1]))

\* estimateDayMinutes
Estimate(r, s) ==
  IF s = <<>> \/ (Home(r) = NoPoint /\ ~Open(r)) THEN 0
  ELSE SumFunctionOnSet([i \in DOMAIN s |-> Hop(r, s, i) + Service], DOMAIN s) + LegBack(r, s[Len(s)])

\* A stop is in a bucket once at most.
Without(s, c) ==
  LET at == CHOOSE i \in DOMAIN s : s[i] = c
  IN  IF c \in Range(s) THEN SubSeq(s, 1, at - 1) \o SubSeq(s, at + 1, Len(s)) ELSE s

Balancing == cell = Done /\ in.balance /\ bal.day \in PlanDays

NextDay == [pc |-> "day", day |-> bal.day + 1]

GapOf(minutes) == Max(Range(minutes)) - Min(Range(minutes))

OpenDay ==
  LET minutes == [r \in Reps |-> Estimate(r, days[<<r, bal.day>>])]
  IN  /\ Balancing /\ bal.pc = "day"
      /\ bal' = IF GapOf(minutes) <= GapThreshold THEN NextDay
                ELSE [pc |-> "pick", day |-> bal.day, minutes |-> minutes, iter |-> 0]
      /\ UNCHANGED <<in, cell, tried, placed, days, used, travel, short, chosen>>

\* The longest and the shortest day as minutesByRep has them.
Pick(long, short_) ==
  /\ Balancing /\ bal.pc = "pick"
  /\ bal.iter < MaxIterations
  /\ bal.minutes[long] = Max(Range(bal.minutes))
  /\ bal.minutes[short_] = Min(Range(bal.minutes))
  /\ bal' = IF GapOf(bal.minutes) <= GapThreshold \/ Home(short_) = NoPoint THEN NextDay
            ELSE [pc |-> "move", day |-> bal.day, minutes |-> bal.minutes,
                  iter |-> bal.iter + 1, gap |-> GapOf(bal.minutes),
                  long |-> long, short |-> short_, swaps |-> 0,
                  queue |-> Range(days[<<long, bal.day>>])]
  /\ UNCHANGED <<in, cell, tried, placed, days, used, travel, short, chosen>>

\* The stop leaves the bucket of the long rep; longStops is that same array, so
\* the second splice, at indexOf = -1, removes its last stop too.
Removed(s, c) ==
  LET rest == Without(s, c)
  IN  IF rest = <<>> THEN rest ELSE SubSeq(rest, 1, Len(rest) - 1)

\* Mutant: the cap of the rep who gets the stop is not asked.
AcceptableUncapped(newLong, newShort) ==
  newLong <= in.cap[bal.long] /\ Dist(newLong, newShort) < bal.gap

Acceptable(newLong, newShort) ==
  /\ newShort <= in.cap[bal.short]
  /\ newLong <= in.cap[bal.long]
  /\ Dist(newLong, newShort) < bal.gap

\* One stop of the long day is tried in the short one, the nearest to the home
\* of the short rep first.
Move(c) ==
  LET l == bal.long  s == bal.short
      toLong == Estimate(l, Without(days[<<l, bal.day>>], c))
      toShort == Estimate(s, Append(days[<<s, bal.day>>], c))
  IN  /\ Balancing /\ bal.pc = "move" /\ bal.swaps < MaxSwaps
      /\ c \in bal.queue
      /\ \A o \in bal.queue : Dist(Home(s), At(c)) <= Dist(Home(s), At(o))
      /\ IF Acceptable(toLong, toShort)
         THEN /\ days' = [days EXCEPT ![<<l, bal.day>>] = Removed(@, c),
                                    ![<<s, bal.day>>] = Append(@, c)]
              /\ bal' = [bal EXCEPT !.queue = @ \ {c}, !.swaps = @ + 1,
                                    !.minutes[l] = toLong, !.minutes[s] = toShort]
         ELSE /\ bal' = [bal EXCEPT !.queue = @ \ {c}]
              /\ UNCHANGED days
      /\ UNCHANGED <<in, cell, tried, placed, used, travel, short, chosen>>

EndIteration ==
  /\ Balancing
  /\ \/ bal.pc = "move" /\ (bal.queue = {} \/ bal.swaps = MaxSwaps)
     \/ bal.pc = "pick" /\ bal.iter = MaxIterations
  /\ bal' = IF bal.pc = "pick" \/ bal.swaps = 0 THEN NextDay
            ELSE [pc |-> "pick", day |-> bal.day, minutes |-> bal.minutes, iter |-> bal.iter]
  /\ UNCHANGED <<in, cell, tried, placed, days, used, travel, short, chosen>>

AssignNext ==
  \/ \E c \in Stops : Try(c) \/ Move(c)
  \/ CloseCell \/ OpenDay \/ EndIteration
  \/ \E r, o \in Reps : Pick(r, o)

AssignSpec == AssignInit /\ [][AssignNext]_assignVars

-----------------------------------------------------------------------------
(* Properties.                                                             *)

Rungs == Range(Ladder)

Balance ==
  [pc : {"day"}, day : Nat]
    \cup [pc : {"pick"}, day : Nat, minutes : [Reps -> Nat], iter : Nat]
    \cup [pc : {"move"}, day : Nat, minutes : [Reps -> Nat], iter : Nat, gap : Nat,
          long : Reps, short : Reps, swaps : Nat, queue : SUBSET Stops]

AssignTypeOK ==
  /\ cell \in Cells \cup {Done}
  /\ tried \subseteq Stops
  /\ placed \in Nat /\ (cell # Done => placed <= Demand(cell))
  /\ days \in [Reps \X PlanDays -> Seq(Stops)]
  /\ used \in [Reps \X PlanDays -> Nat]
  /\ travel \in [Reps \X PlanDays -> Nat] /\ \A k \in Reps \X PlanDays : travel[k] <= used[k]
  /\ short \in [Cells -> Nat]
  /\ bal \in Balance
  /\ Taken \subseteq chosen /\ chosen \subseteq Stops

\* However stops are interleaved by class, backfilled and moved by the balance
\* step, a day never takes longer than its rep's cap as estimateDayMinutes adds
\* it up, the way back included; tryFit adds it up one stop at a time.
DayFits ==
  \A r \in Reps, d \in PlanDays : Estimate(r, days[<<r, d>>]) <= in.cap[r]

\* No stop is planned twice, on one day or on two, for one rep or for two.
PlannedOnce ==
  \A k, o \in Reps \X PlanDays : \A i \in DOMAIN days[k], j \in DOMAIN days[o] :
    days[k][i] = days[o][j] => k = o /\ i = j

\* A shortfall is never premature: a stop of the class that is in nobody's plan
\* could not be added to the end of that day as the greedy step left it (a
\* minute per stop is what the rounding of the legs can hide).
ShortOnlyIfFull ==
  cell = Done /\ bal = [pc |-> "day", day |-> 1] =>
    \A n \in Cells : short[n] > 0 =>
      LET r == RepOf(n) d == DayOf(n)
          slack == Len(days[<<r, d>>])
      IN  \A c \in Bucket(r, {RungOf(n)}) \ Taken :
            \/ used[<<r, d>>] + LegTo(r, d, c) + Service + LegBack(r, c) + slack > in.cap[r]
            \/ travel[<<r, d>>] + LegTo(r, d, c) + LegBack(r, c) + slack > in.travelCap[r]

\* "single-stop transfers" (planGenerator 941): the balance step moves stops
\* between days, and what the greedy step has planned stays planned.
StopsKept == cell = Done => Taken = chosen
=============================================================================
