----------------------------- MODULE MCPlanning -----------------------------
(***************************************************************************)
(* What a plan is built with: the budget of the Routes API calls, the      *)
(* matrix and its cache, the ledger of the optimization service, the       *)
(* assignment of stops to reps and days, the solver that orders a route    *)
(* and the timetable of a day. Each works on what the one before has       *)
(* returned and none sees another at work, so that a behaviour is one of a *)
(* single part, chosen at the start, for every input listed here.          *)
(***************************************************************************)
EXTENDS RoutesBudget, OptimizationSpend, MatrixCache, PlanAssignment, RouteSolver, DayTimetable,
        TLC

VARIABLE part

-----------------------------------------------------------------------------
(* Price tables of the two SKUs, at the prices of their first bands.       *)

MCTiers == [single |-> <<[upTo |-> 2, price |-> 0], [upTo |-> 4, price |-> 100],
                         [upTo |-> 99, price |-> 40]>>,
            fleet  |-> <<[upTo |-> 1, price |-> 0], [upTo |-> 4, price |-> 300],
                         [upTo |-> 99, price |-> 140]>>]

-----------------------------------------------------------------------------
(* Inputs of MatrixCache: two points share a geohash cell; from one cell   *)
(* there is no way to the other.                                           *)

MCCell == [a |-> "A", b |-> "B", c |-> "A"]

MCNoRoute == {<<"A", "B">>}

MCQueries == {[from |-> <<"a", "b", "c">>, to |-> <<"a", "b", "c">>, polylines |-> TRUE],
              [from |-> <<"c">>, to |-> <<"b">>, polylines |-> FALSE]}

-----------------------------------------------------------------------------
(* Inputs of PlanAssignment.                                               *)

Classes == {"client", "prospect"} \X {"A", "B", "C", "D"}

A == <<"client", "A">>
C == <<"client", "C">>
P == <<"prospect", "A">>

Want(a, m, b, n) == [[[g \in Classes |-> 0] EXCEPT ![a] = m] EXCEPT ![b] = n]

\* Homes of the two reps and the centroids of the ones without; homeless reps are
\* clustered when the flag is on, or when nobody has a home.
Homes ==
  { [home |-> <<2, 6>>, depot |-> <<NoPoint, NoPoint>>, homeless |-> FALSE],
    [home |-> <<0, 3>>, depot |-> <<NoPoint, NoPoint>>, homeless |-> FALSE],
    [home |-> <<NoPoint, 6>>, depot |-> <<3, NoPoint>>, homeless |-> TRUE],
    [home |-> <<4, NoPoint>>, depot |-> <<NoPoint, 1>>, homeless |-> TRUE],
    [home |-> <<NoPoint, NoPoint>>, depot |-> <<NoPoint, NoPoint>>, homeless |-> FALSE] }

MCAssignmentInputs ==
  { [home |-> h.home, depot |-> h.depot, homeless |-> h.homeless,
     role |-> <<"supervisor", "representante">>,
     at |-> at, rung |-> <<A, A, C, P, C>>, owner |-> ow, caution |-> ca,
     target |-> t, cap |-> cp, travelCap |-> tc, open |-> op, balance |-> ba] :
       h \in Homes,
       at \in {<<1, 2, 3, 4, 6>>, <<4, 0, 5, 6, 2>>, <<1, 1, 6, 0, 3>>, <<7, 5, 2, 2, 0>>},
       ow \in {<<1, 1, 1, 1, 2>>, <<1, 1, 2, 2, 2>>, <<1, 2, 2, 1, 2>>},
       ca \in {{}, {2, 3}},
       t \in {<<Want(A, 2, P, 1), Want(C, 2, P, 0)>>, <<Want(A, 1, P, 0), Want(C, 1, P, 1)>>},
       cp \in {<<9, 5>>, <<5, 7>>}, tc \in {<<9, 9>>, <<4, 2>>},
       op \in BOOLEAN, ba \in BOOLEAN }

-----------------------------------------------------------------------------
(* Inputs of RouteSolver.                                                  *)

MCPasses == [k \in {"2opt", "oropt", "3opt"} |->
               CASE k = "2opt" -> 30 [] k = "oropt" -> 2 [] k = "3opt" -> 1]

\* Matrices without symmetry, some with arcs missing.
Matrix(p, q, m, far, hole) ==
  [a \in 1..(Cardinality(Sites) + 1) |-> [b \in 1..(Cardinality(Sites) + 1) |->
     IF hole # <<0, 0>> /\ (a = hole[1] \/ b = hole[2]) THEN Inf
     ELSE ((a * p + b * q + a * b) % m) + far]]

MCSolverInputs ==
  { [cost |-> Matrix(x[1], x[2], x[3], x[4], h), rank |-> <<2, 1, 3, 1>>, tier |-> t,
     soft |-> w[1], window |-> w[2], service |-> 1] :
       x \in {<<3, 5, 7, 1>>, <<2, 7, 11, 1>>, <<5, 3, 13, 1>>, <<7, 4, 19, 1>>,
              <<3, 4, 5, 20>>, <<1, 3, 4, 20>>, <<4, 1, 7, 30>>},
       h \in {<<0, 0>>, <<3, 4>>, <<1, 0>>},
       t \in {"legacy", "small", "medium", "large"},
       w \in {<<FALSE, [n \in Sites |-> <<0, 99>>]>>,
              <<TRUE, [n \in Sites |-> <<6 * n, 6 * n + 2>>]>>,
              <<TRUE, [n \in Sites |-> <<20 - 4 * n, 40 - 8 * n>>]>>,
              <<TRUE, [n \in Sites |-> <<0, 130 - 25 * n>>]>>} }

-----------------------------------------------------------------------------
(* Inputs of DayTimetable.                                                 *)

Ring(f) == [a \in 1..4 |-> [b \in 1..4 |-> IF a = b THEN 0 ELSE f + 3 * ((a + 2 * b) % 4)]]
Holed == [Ring(8) EXCEPT ![1][2] = Gap, ![2][3] = Gap, ![3][1] = 0]

MCDayInputs ==
  { [n |-> n, unplaced |-> u, home |-> c[1], homeless |-> c[2], centroid |-> c[3],
     matrix |-> m, far |-> Ring(5), open |-> op, persist |-> pe, optimizer |-> oz,
     lunch |-> l, service |-> 10] :
       n \in 0..3, u \in 0..1,
       c \in {<<TRUE, FALSE, FALSE>>, <<FALSE, FALSE, FALSE>>, <<FALSE, TRUE, TRUE>>},
       m \in {Gap, Ring(8), Holed}, op \in BOOLEAN, pe \in BOOLEAN, oz \in BOOLEAN,
       l \in {NoBreak} \cup
             {[earliest |-> e, latest |-> e + 15, minutes |-> 30, hard |-> h] :
                e \in {5, 25, 40, 90}, h \in BOOLEAN} }

-----------------------------------------------------------------------------
(* Parts that do not run; budget, ledger and matrix stay as they begin, and *)
(* the days of the assignment are empty.                                   *)
Nil == <<>>
NoAssignment ==
  /\ in = [cap |-> [r \in Reps |-> 0]]
  /\ days = [k \in Reps \X PlanDays |-> <<>>]
  /\ cell = 0 /\ tried = Nil /\ placed = Nil
  /\ used = Nil /\ travel = Nil /\ short = Nil /\ bal = Nil /\ chosen = Nil
NoSolver ==
  /\ job = Nil /\ pc = "idle" /\ expired = Nil /\ seed = Nil
  /\ route = Nil /\ kern = Nil /\ bestRoute = Nil /\ swap = Nil
NoTimetable ==
  /\ todo = Nil /\ phase = "idle" /\ ordered = Nil /\ lunch = Nil /\ taken = Nil
  /\ clock = Nil /\ here = Nil /\ rows = Nil /\ drive = Nil /\ driveAll = Nil

MCInit ==
  /\ Init /\ OptInit /\ CacheInit
  /\ \/ part = "budget"    /\ NoAssignment /\ NoSolver /\ NoTimetable
     \/ part = "ledger"    /\ NoAssignment /\ NoSolver /\ NoTimetable
     \/ part = "matrix"    /\ NoAssignment /\ NoSolver /\ NoTimetable
     \/ part = "assign"    /\ AssignInit /\ NoSolver /\ NoTimetable
     \/ part = "solve"     /\ SolverInit /\ NoAssignment /\ NoTimetable
     \/ part = "timetable" /\ TableInit /\ NoAssignment /\ NoSolver

MCNext ==
  \/ /\ part = "budget"
     /\ Next
     /\ UNCHANGED <<part, optVars, cacheVars, assignVars, routeVars, tableVars>>
  \/ /\ part = "ledger"
     /\ OptNext
     /\ UNCHANGED <<part, vars, cacheVars, assignVars, routeVars, tableVars>>
  \/ /\ part = "matrix"
     /\ CacheNext
     /\ UNCHANGED <<part, vars, optVars, assignVars, routeVars, tableVars>>
  \/ /\ part = "assign"
     /\ AssignNext
     /\ UNCHANGED <<part, vars, optVars, cacheVars, routeVars, tableVars>>
  \/ /\ part = "solve"
     /\ SolverNext
     /\ UNCHANGED <<part, vars, optVars, cacheVars, assignVars, tableVars>>
  \/ /\ part = "timetable"
     /\ TableNext
     /\ UNCHANGED <<part, vars, optVars, cacheVars, assignVars, routeVars>>

MCSpec == MCInit /\ [][MCNext]_<<part, vars, optVars, cacheVars, assignVars, routeVars, tableVars>>

(* Calls of the two services are interchangeable.                          *)
MCSymmetry == Permutations(Calls) \cup Permutations(OptCalls)

=============================================================================
