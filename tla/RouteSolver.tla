---------------------------- MODULE RouteSolver ----------------------------
(***************************************************************************)
(* utils/multiStart.solve and the pass that follows it: the order in which *)
(* a rep visits the stops of a day.  Several starting routes are improved  *)
(* by 2-opt, or-opt and 3-opt until a deadline passes, which the kernels   *)
(* test once per row of moves; utils/softWindowSwap then trades a little   *)
(* driving for arrivals inside opening hours.                              *)
(*                                                                         *)
(* A route starts at the depot, 0.  A step is one row of a kernel.  The    *)
(* tier follows from the strategy and the number of stops (N_OROPT_        *)
(* THRESHOLD, N_THREEOPT_THRESHOLD) and is an input here, so that few      *)
(* stops reach every kernel.                                               *)
(***************************************************************************)
EXTENDS Integers, SequencesExt, FiniteSetsExt, Functions

CONSTANTS
  Sites,        \* 1..n, the stops
  SolverInputs, \* requests: cost matrix, Pareto rank, tier, windows, flags
  Inf,          \* an arc that the matrix does not have
  MaxPasses,    \* maxIterations of each kernel
  SwapPasses,   \* maxIterations of the soft-window pass
  SwapsPerPass  \* maxSwapsPerIter

(* There is a stop (solve returns at once without one), every arc has a    *)
(* cost, and windows are pairs of times.                                   *)
ASSUME SolverSizes ==
  /\ IsFiniteSet(Sites) /\ Sites # {} /\ Sites = 1..Cardinality(Sites)
  /\ Inf \in Nat /\ SwapPasses \in Nat \ {0} /\ SwapsPerPass \in Nat
  /\ \A k \in {"2opt", "oropt", "3opt"} : MaxPasses[k] \in Nat \ {0}

SolverRequest ==
  [cost : [1..(Cardinality(Sites) + 1) -> [1..(Cardinality(Sites) + 1) -> Nat]],
   rank : [Sites -> Nat], tier : {"legacy", "small", "medium", "large"},
   soft : BOOLEAN, window : [Sites -> Int \X Int], service : Nat]

ASSUME SolverRequests == SolverInputs \subseteq SolverRequest

VARIABLES
  job,       \* the request, fixed
  pc,        \* "seed", "improve", "soft", "done"
  expired,   \* the deadline has passed
  seed,      \* seeds tried
  route,     \* the route being improved
  kern,      \* the kernels left, and the row, pass and success of the first
  bestRoute, \* the best of the seeds improved so far, <<>> if none
  swap       \* the soft-window pass: position, swaps of this pass, passes

routeVars == <<job, pc, expired, seed, route, kern, bestRoute, swap>>

Depot == 0

Cost(a, b) == job.cost[a + 1][b + 1]

\* totalCost
RouteCost(r) ==
  LET legs == 1..(Len(r) - 1)
  IN  IF \E k \in legs : Cost(r[k], r[k + 1]) = Inf THEN Inf
      ELSE SumFunctionOnSet([k \in legs |-> Cost(r[k], r[k + 1])], legs)

-----------------------------------------------------------------------------
(* Starting routes (buildInitial).                                         *)

\* The nearest stop (sense 1) or the farthest (-1), the first of equals.
NextStop(at, T, sense, order) ==
  CHOOSE x \in T : \A y \in T :
    \/ sense * Cost(at, x) < sense * Cost(at, y)
    \/ Cost(at, x) = Cost(at, y) /\ order[x] <= order[y]

\* From where we are to the next stop, until none is left.
Chain(from, S, sense, order) ==
  LET chain[p \in (Sites \cup {Depot}) \X SUBSET Sites] ==
        IF p[2] = {} THEN <<>>
        ELSE LET x == NextStop(p[1], p[2], sense, order)
             IN  <<x>> \o chain[<<x, p[2] \ {x}>>]
  IN  chain[<<from, S>>]

AsGiven == [x \in Sites |-> x]

\* orderStopsFromDepot
NearestFirst(from, S, order) == Chain(from, S, 1, order)
FarthestFirst(from, S) == Chain(from, S, -1, AsGiven)

\* Low Pareto ranks first among equals.
ByPareto == [x \in Sites |-> job.rank[x] * (Cardinality(Sites) + 1) + x]

\* The routes a seed may start from; the random one is any permutation.
SeedRoutes(n) ==
  CASE n = 0 -> {NearestFirst(Depot, Sites, AsGiven)}
    [] n = 1 -> LET far == FarthestFirst(Depot, Sites)[1]
                IN  {<<far>> \o NearestFirst(far, Sites \ {far}, AsGiven)}
    [] n = 2 -> {NearestFirst(Depot, Sites, ByPareto)}
    [] n = 3 -> SetToSeqs(Sites)
    [] n = 4 -> {FarthestFirst(Depot, Sites)}

Seeds == [legacy |-> 1, small |-> 1, medium |-> 3, large |-> 5]

Kernels == [legacy |-> <<"2opt">>, small |-> <<"2opt">>, medium |-> <<"oropt", "2opt">>,
            large |-> <<"oropt", "2opt", "3opt">>]

-----------------------------------------------------------------------------
(* Moves of the kernels.  Positions count from 1; the depot is at 1.       *)

Size == Cardinality(Sites) + 1

Reversed(r, i, j) == SubSeq(r, 1, i - 1) \o Reverse(SubSeq(r, i, j)) \o SubSeq(r, j + 1, Len(r))

\* Mutant: one stop too few is taken out.
MovedOffByOne(r, i, m, j) ==
  LET seg == SubSeq(r, i, i + m - 1)
      rest == SubSeq(r, 1, i - 1) \o SubSeq(r, i + m - 1, Len(r))
      at == IF j < i THEN j ELSE j - m
  IN  SubSeq(rest, 1, at) \o seg \o SubSeq(rest, at + 1, Len(rest))

\* The segment of length m at i is taken out and put behind the stop at j.
Moved(r, i, m, j) ==
  LET seg == SubSeq(r, i, i + m - 1)
      rest == SubSeq(r, 1, i - 1) \o SubSeq(r, i + m, Len(r))
      at == IF j < i THEN j ELSE j - m
  IN  SubSeq(rest, 1, at) \o seg \o SubSeq(rest, at + 1, Len(rest))

\* reconnect: the seven other ways to join the pieces A B C D.
Reconnected(r, i, j, k) ==
  LET A == SubSeq(r, 1, i)  B == SubSeq(r, i + 1, j)
      C == SubSeq(r, j + 1, k)  D == SubSeq(r, k + 1, Len(r))
  IN  <<A \o Reverse(B) \o C \o D, A \o B \o Reverse(C) \o D,
        A \o Reverse(B) \o Reverse(C) \o D, A \o C \o B \o D,
        A \o C \o Reverse(B) \o D, A \o Reverse(C) \o B \o D,
        A \o Reverse(C) \o Reverse(B) \o D>>

\* Mutant: the last row is left out.
RowsShort(kernel) == [i \in 1..(Size - 3) |-> [seg |-> 0, i |-> i + 1]]

\* The rows of a pass, in order; the deadline is tested before each.
Rows(kernel) ==
  LET upto(n, m) == [i \in 1..n |-> [seg |-> m, i |-> i + 1]]
  IN  CASE kernel = "2opt" -> upto(Size - 2, 0)
        [] kernel = "oropt" -> upto(Size - 2, 1) \o upto(Size - 3, 2) \o upto(Size - 4, 3)
        [] kernel = "3opt" -> [i \in 1..(Size - 3) |-> [seg |-> 0, i |-> i]]

\* The moves of a row, in order: where the segment ends, or goes; or where the
\* second and the third piece end.
Moves(kernel, row) ==
  LET i == row.i
      last == i + row.seg - 1
  IN  CASE kernel = "2opt" -> [n \in 1..(Size - i) |-> <<i + n>>]
        [] kernel = "oropt" ->
             [j \in 1..(i - 2) |-> <<j>>] \o [n \in 1..(Size - last) |-> <<last + n>>]
        [] kernel = "3opt" ->
             FoldLeft(LAMBDA all, n : all \o [m \in 1..(Size - i - n - 1) |-> <<i + n, i + n + m>>],
                      <<>>, [n \in 1..(Size - i - 2) |-> n])

Candidates(kernel, row, mv, r) ==
  CASE kernel = "2opt" -> <<Reversed(r, row.i, mv[1])>>
    [] kernel = "oropt" -> <<Moved(r, row.i, row.seg, mv[1])>>
    [] kernel = "3opt" -> Reconnected(r, row.i, mv[1], mv[2])

\* The cheapest candidate, the first of equals, if it is cheaper than the route.
Better(r, cands) ==
  LET best == CHOOSE n \in DOMAIN cands : \A m \in DOMAIN cands :
                \/ RouteCost(cands[n]) < RouteCost(cands[m])
                \/ RouteCost(cands[n]) = RouteCost(cands[m]) /\ n <= m
  IN  IF RouteCost(cands[best]) < RouteCost(r) THEN cands[best] ELSE r

AfterRow(kernel, row, r) ==
  FoldLeft(LAMBDA acc, mv : Better(acc, Candidates(kernel, row, mv, acc)),
           r, Moves(kernel, row))

-----------------------------------------------------------------------------
(* solve                                                                   *)

\* gaveUp is history: a 2-opt of this request used up its passes and found
\* cheaper reversals in the last one.
Starting(kernels, gave) ==
  [todo |-> kernels, row |-> 1, pass |-> 1, improved |-> FALSE, gaveUp |-> gave]

Idle == Starting(<<>>, FALSE)

SolverInit ==
  /\ job \in SolverInputs
  /\ pc = "seed"
  /\ expired = FALSE
  /\ seed = 0
  /\ route = <<>>
  /\ kern = Idle
  /\ bestRoute = <<>>
  /\ swap = [i |-> 1, n |-> 0, pass |-> 1]

\* The clock passes the deadline; the legacy strategy is given none.
Deadline ==
  /\ pc \in {"seed", "improve"}
  /\ job.tier # "legacy" /\ ~expired
  /\ expired' = TRUE
  /\ UNCHANGED <<job, pc, seed, route, kern, bestRoute, swap>>

StartSeed ==
  /\ pc = "seed" /\ ~expired
  /\ seed < Seeds[job.tier]
  /\ \E r \in SeedRoutes(seed) : route' = <<Depot>> \o r
  /\ kern' = Starting(Kernels[job.tier], kern.gaveUp)
  /\ pc' = "improve"
  /\ UNCHANGED <<job, expired, seed, bestRoute, swap>>

\* One row of moves of the current kernel; 2-opt and or-opt want three stops,
\* 3-opt four.
Usable(kernel) == Size >= (IF kernel = "3opt" THEN 5 ELSE 4)

ImproveRow ==
  /\ pc = "improve" /\ ~expired
  /\ kern.todo # <<>>
  /\ LET kernel == Head(kern.todo)
         rows == IF Usable(kernel) THEN Rows(kernel) ELSE <<>>
     IN  IF kern.row \in DOMAIN rows
         THEN /\ route' = AfterRow(kernel, rows[kern.row], route)
              /\ kern' = [kern EXCEPT !.row = @ + 1, !.improved = @ \/ route' # route]
         ELSE /\ kern' = IF kern.improved /\ kern.pass < MaxPasses[kernel]
                         THEN [kern EXCEPT !.row = 1, !.pass = @ + 1, !.improved = FALSE]
                         ELSE Starting(Tail(kern.todo),
                                       kern.gaveUp \/ (kernel = "2opt" /\ kern.improved))
              /\ UNCHANGED route
  /\ UNCHANGED <<job, pc, expired, seed, bestRoute, swap>>

\* Mutant: the last seed wins.
KeepsLast(old, new) == new

\* if (c < bestCost)
Keeps(old, new) ==
  IF RouteCost(new) < (IF old = <<>> THEN Inf ELSE RouteCost(old)) THEN new ELSE old

\* The kernels are through, or the deadline has passed: the route so far counts.
EndSeed ==
  /\ pc = "improve"
  /\ kern.todo = <<>> \/ expired
  /\ bestRoute' = Keeps(bestRoute, route)
  /\ seed' = seed + 1
  /\ pc' = "seed"
  /\ UNCHANGED <<job, expired, route, kern, swap>>

\* No seed gave a route of finite cost: nearest neighbour and 2-opt, whatever
\* the time (job.tier becomes the legacy one, and improves without a deadline).
Fallback ==
  /\ pc = "seed"
  /\ expired \/ seed = Seeds[job.tier]
  /\ bestRoute = <<>>
  /\ job.tier # "legacy"
  /\ job' = [job EXCEPT !.tier = "legacy"]
  /\ expired' = FALSE
  /\ seed' = 0
  /\ kern' = Idle
  /\ UNCHANGED <<pc, route, bestRoute, swap>>

Settled ==
  /\ pc = "seed"
  /\ expired \/ seed = Seeds[job.tier]
  /\ bestRoute # <<>> \/ job.tier = "legacy"
  /\ route' = IF bestRoute = <<>> THEN route ELSE bestRoute
  /\ pc' = IF job.soft THEN "soft" ELSE "done"
  /\ bestRoute' = route'
  /\ UNCHANGED <<job, expired, seed, kern, swap>>

-----------------------------------------------------------------------------
(* improveForSoftWindows.  bestRoute keeps the order that came in.         *)

\* evaluateRoute: an arc without a duration takes no time.
Leg(a, b) == IF Cost(a, b) = Inf THEN 0 ELSE Cost(a, b)
Drive(r) ==
  LET legs == 1..(Len(r) - 1)
  IN  SumFunctionOnSet([k \in legs |-> Leg(r[k], r[k + 1])], legs)
Arrival(r, n) ==
  LET legs == 1..(n - 1)
  IN  SumFunctionOnSet([k \in legs |-> Leg(r[k], r[k + 1]) + (IF k = 1 THEN 0 ELSE job.service)],
                       legs)
SlipAt(x, t) ==
  LET w == job.window[x] IN IF t < w[1] THEN w[1] - t ELSE IF t > w[2] THEN t - w[2] ELSE 0
Slip(r) == SumFunctionOnSet([n \in 2..Len(r) |-> SlipAt(r[n], Arrival(r, n))], 2..Len(r))

Swapped(r, i) == [r EXCEPT ![i + 1] = r[i + 2], ![i + 2] = r[i + 1]]

\* Mutant: 5% of the route as it stands, again and again.
WorthItCompound(r, cand) == Slip(cand) + 1 <= Slip(r) /\ 20 * Drive(cand) <= 21 * Drive(r)

\* Less slip than now, and 5% more driving than the route that came in at most.
WorthIt(r, cand) == Slip(cand) + 1 <= Slip(r) /\ 20 * Drive(cand) <= 21 * Drive(bestRoute)

SwapStep ==
  /\ pc = "soft"
  /\ IF swap.i < Size - 1 /\ swap.n < SwapsPerPass
     THEN /\ IF WorthIt(route, Swapped(route, swap.i))
             THEN /\ route' = Swapped(route, swap.i)
                  /\ swap' = [swap EXCEPT !.i = @ + 1, !.n = @ + 1]
             ELSE /\ swap' = [swap EXCEPT !.i = @ + 1]
                  /\ UNCHANGED route
          /\ UNCHANGED pc
     ELSE /\ IF swap.n > 0 /\ swap.pass < SwapPasses
             THEN swap' = [swap EXCEPT !.i = 1, !.n = 0, !.pass = @ + 1] /\ UNCHANGED pc
             ELSE pc' = "done" /\ UNCHANGED swap
          /\ UNCHANGED route
  /\ UNCHANGED <<job, expired, seed, kern, bestRoute>>

SolverNext ==
  Deadline \/ StartSeed \/ ImproveRow \/ EndSeed \/ Fallback \/ Settled \/ SwapStep

SolverSpec == SolverInit /\ [][SolverNext]_routeVars

-----------------------------------------------------------------------------
(* Properties.                                                             *)

IsRoute(r) ==
  Len(r) = Size /\ r[1] = Depot /\ {r[n] : n \in 2..Size} = Sites

SolverTypeOK ==
  /\ job \in SolverRequest
  /\ pc \in {"seed", "improve", "soft", "done"}
  /\ expired \in BOOLEAN
  /\ seed \in 0..Seeds[job.tier]
  /\ route \in Seq(Sites \cup {Depot}) /\ bestRoute \in Seq(Sites \cup {Depot})
  /\ kern \in [todo : Seq({"2opt", "oropt", "3opt"}), row : Nat \ {0}, pass : Nat \ {0},
               improved : BOOLEAN, gaveUp : BOOLEAN]
  /\ kern.todo # <<>> => kern.pass <= MaxPasses[Head(kern.todo)]
  /\ swap \in [i : 1..Size, n : 0..SwapsPerPass, pass : 1..SwapPasses]

\* Whatever is cut out, reversed and joined again, and whenever the deadline
\* falls, the day keeps every stop, once, behind the depot.
EveryStopOnce ==
  /\ route # <<>> => IsRoute(route)
  /\ bestRoute # <<>> => IsRoute(bestRoute)
  /\ pc \in {"soft", "done"} => IsRoute(bestRoute)

\* The solver never hands over a route that is dearer than nearest neighbour
\* (which the first seed starts from), with arcs missing and at any deadline.
NoDearerThanNearest ==
  pc \in {"soft", "done"} =>
    RouteCost(bestRoute) <= RouteCost(<<Depot>> \o NearestFirst(Depot, Sites, AsGiven))

\* Given its time and its passes, the solver of three to 15 stops ends with a
\* route in which no reversal of a segment is cheaper, with costs that depend on
\* the direction, arcs missing and several seeds.
NoReversalAt(r, i) == \A j \in (i + 1)..Size : RouteCost(Reversed(r, i, j)) >= RouteCost(r)

Tight(r) == \A i \in 2..Size : NoReversalAt(r, i)

Trusted == job.tier # "large" /\ ~expired /\ Usable("2opt") /\ ~kern.gaveUp

NoReversalHelps == pc \in {"soft", "done"} /\ Trusted => Tight(bestRoute)

\* softWindowSwap: "capping drive growth at 5%" holds of all swaps together, and
\* an order is only changed for arrivals nearer to the opening hours.
SwapsPayOff ==
  pc = "done" /\ route # bestRoute =>
    Slip(route) < Slip(bestRoute) /\ 20 * Drive(route) <= 21 * Drive(bestRoute)
=============================================================================
