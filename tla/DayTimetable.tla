---------------------------- MODULE DayTimetable ----------------------------
(***************************************************************************)
(* sequenceAndMaterialize for one rep and one day: the stops, in the order *)
(* the solver or the optimization service gives them, become rows with     *)
(* arrival times.  The lunch break is placed by a simulated walk before    *)
(* the real one; border legs (home to first stop, last stop to home) are   *)
(* not working time on an open route.                                      *)
(*                                                                         *)
(* Node 0 is the depot, 1..n are the stops with coordinates.  Times are    *)
(* minutes; far holds the haversine estimate of every arc.                 *)
(***************************************************************************)
EXTENDS Integers, Sequences, FiniteSetsExt, Functions

CONSTANTS
  DayInputs,  \* days to sequence: see TableInit
  Gap,        \* an arc the matrix lacks, a matrix that could not be had
  Answers,    \* minutes computeRoute may answer; 0 is no route
  NoBreak     \* the rep has no lunch rule

(* A day to sequence has minutes on every arc of its matrix that is not    *)
(* missing, and a lunch rule says when the break may be and how long it is.*)
ASSUME DayRequests == \A x \in DayInputs :
  /\ x.n \in Nat /\ x.unplaced \in Nat /\ x.service \in Nat
  /\ \A f \in {"home", "homeless", "centroid", "open", "persist", "optimizer"} : x[f] \in BOOLEAN
  /\ \A a, b \in 1..(x.n + 1) :
       x.far[a][b] \in Nat /\ (x.matrix # Gap => x.matrix[a][b] \in Nat \cup {Gap})
  /\ x.lunch # NoBreak =>
       x.lunch.earliest \in Nat /\ x.lunch.minutes \in Nat /\ x.lunch.hard \in BOOLEAN

ASSUME TravelTimes == Answers \subseteq Nat /\ Gap \notin Int

VARIABLES
  todo,       \* the day: its stops, home, matrix and flags, fixed
  phase,      \* "sequence", "break", "walk", "return", "done", "crashed"
  ordered,    \* the stops in visiting order
  lunch,      \* where the break goes and how it stands to its window
  taken,      \* how often the break was taken
  clock,      \* cursor
  here,       \* the node we are at; Gap when a homeless rep has not started
  rows,       \* the assignment rows
  drive,      \* total_drive_minutes
  driveAll    \* total_drive_minutes_with_borders

tableVars == <<todo, phase, ordered, lunch, taken, clock, here, rows, drive, driveAll>>

N == todo.n
HasDepot == todo.home \/ (todo.homeless /\ todo.centroid)
OpenRoute == todo.open \/ (todo.homeless /\ ~todo.home)

\* A matrix is asked for when there are a depot and two stops.
HasMatrix == HasDepot /\ N >= 2 /\ todo.matrix # Gap
Entry(a, b) == IF HasMatrix THEN todo.matrix[a + 1][b + 1] ELSE Gap
Far(a, b) == todo.far[a + 1][b + 1]

TableInit ==
  /\ todo \in DayInputs
  /\ phase = "sequence"
  /\ ordered = <<>>
  /\ lunch = [before |-> 0, status |-> "none"]
  /\ taken = 0
  /\ clock = 0
  /\ here = IF todo.home THEN 0 ELSE Gap
  /\ rows = <<>>
  /\ drive = 0
  /\ driveAll = 0

\* The depot of the solver is built from home, also when it is the centroid.
Sequence(order) ==
  /\ phase = "sequence"
  /\ IF HasMatrix /\ ~todo.home
     THEN phase' = "crashed" /\ UNCHANGED ordered
     ELSE /\ phase' = "break"
          /\ ordered' = order
          /\ IF todo.optimizer /\ HasMatrix
             THEN order # <<>>
             ELSE Len(order) = N
  /\ UNCHANGED <<todo, lunch, taken, clock, here, rows, drive, driveAll>>

Orders == UNION {{s \in [1..k -> 1..N] : \A i, j \in 1..k : i < j => s[i] < s[j]} : k \in 0..N}

-----------------------------------------------------------------------------
(* The lunch break.                                                        *)

\* Mutant: the time spent at the stops is left out of the simulation.
SimLegOnly(i) ==
  LET from == IF i = 1 THEN 0 ELSE ordered[i - 1]
  IN  (IF Entry(from, ordered[i]) # Gap THEN Entry(from, ordered[i]) ELSE Far(0, ordered[i]))

\* Time from the arrival at one stop to the next one; without an entry the
\* estimate starts at home, wherever the rep is.
SimLeg(i) ==
  LET from == IF i = 1 THEN 0 ELSE ordered[i - 1]
  IN  (IF Entry(from, ordered[i]) # Gap THEN Entry(from, ordered[i]) ELSE Far(0, ordered[i]))
        + (IF i = 1 THEN 0 ELSE todo.service)

SimArrival(i) == SumFunctionOnSet([k \in 1..i |-> SimLeg(k)], 1..i)

\* The stops that are reached after the earliest time of the break.
ReachedAfter == {i \in DOMAIN ordered : SimArrival(i) >= todo.lunch.earliest}

PlanBreak ==
  /\ phase = "break"
  /\ IF todo.lunch = NoBreak THEN phase' = "walk" /\ UNCHANGED lunch
     ELSE IF ~todo.home /\ ordered # <<>> /\ Entry(0, ordered[1]) = Gap
     THEN phase' = "crashed" /\ UNCHANGED lunch
     ELSE /\ lunch' =
               IF ReachedAfter # {}
               THEN [before |-> Min(ReachedAfter),
                     status |-> IF SimArrival(Min(ReachedAfter)) <= todo.lunch.latest
                                THEN "on_time" ELSE "late"]
               ELSE IF todo.lunch.hard THEN [before |-> Len(ordered) + 1, status |-> "late"]
               ELSE [before |-> 0, status |-> "skipped"]
          /\ phase' = "walk"
  /\ UNCHANGED <<todo, ordered, taken, clock, here, rows, drive, driveAll>>

\* The break is taken before stop i.
BreakHere(i) == lunch.before = i /\ lunch.status \in {"on_time", "late"}

BreakAt(i) == IF BreakHere(i) THEN todo.lunch.minutes ELSE 0

-----------------------------------------------------------------------------
(* The walk.                                                               *)

\* The matrix first, in persist mode the route of the arc, half as long again
\* through a caution zone; with neither, the estimate.
Travel(s, answer, caution) ==
  LET known == IF answer > 0 THEN answer
               ELSE IF here = Gap \/ Entry(here, s) = Gap THEN 0 ELSE Entry(here, s)
      slow == IF caution THEN (3 * known) \div 2 ELSE known
  IN  IF slow # 0 THEN slow ELSE IF here = Gap THEN 0 ELSE Far(here, s)

Visit(answer, caution) ==
  LET i == Len(rows) + 1
      s == ordered[i]
      minutes == Travel(s, answer, caution)
      border == OpenRoute /\ i = 1
      arrival == clock + BreakAt(i) + (IF border THEN 0 ELSE minutes)
  IN  /\ phase = "walk"
      /\ i \in DOMAIN ordered
      /\ answer > 0 => todo.persist /\ here # Gap
      /\ caution => answer > 0
      /\ rows' = Append(rows, [stop |-> s, order |-> i, arrival |-> arrival, travel |-> minutes])
      /\ taken' = taken + (IF BreakHere(i) THEN 1 ELSE 0)
      /\ clock' = arrival + todo.service
      /\ drive' = drive + (IF border THEN 0 ELSE minutes)
      /\ driveAll' = driveAll + minutes
      /\ here' = s
      /\ UNCHANGED <<todo, phase, ordered, lunch>>

EndOfDayBreak ==
  LET i == Len(ordered) + 1
  IN  /\ phase = "walk"
      /\ Len(rows) = Len(ordered)
      /\ clock' = clock + BreakAt(i)
      /\ taken' = taken + (IF BreakHere(i) THEN 1 ELSE 0)
      /\ phase' = "return"
      /\ UNCHANGED <<todo, ordered, lunch, here, rows, drive, driveAll>>

LastLeg ==
  IF ~todo.home \/ here \in {0, Gap} THEN 0
  ELSE IF Entry(here, 0) \notin {Gap, 0} THEN Entry(here, 0) ELSE Far(here, 0)

\* Mutant: the way home counts on an open route too.
WorkingLastLegAlways == LastLeg

WorkingLastLeg == IF OpenRoute THEN 0 ELSE LastLeg

\* The way home, and the stops without coordinates at the end of the list.
Return ==
  /\ phase = "return"
  /\ drive' = drive + WorkingLastLeg
  /\ driveAll' = driveAll + LastLeg
  /\ rows' = rows \o [k \in 1..todo.unplaced |->
                        [stop |-> N + k, order |-> Len(rows) + k, arrival |-> Gap, travel |-> 0]]
  /\ phase' = "done"
  /\ UNCHANGED <<todo, ordered, lunch, taken, clock, here>>

TableNext ==
  \/ \E order \in Orders : Sequence(order)
  \/ \E answer \in Answers, caution \in BOOLEAN : Visit(answer, caution)
  \/ PlanBreak \/ EndOfDayBreak \/ Return

TableSpec == TableInit /\ [][TableNext]_tableVars

-----------------------------------------------------------------------------
(* Properties.                                                             *)

TableTypeOK ==
  /\ phase \in {"sequence", "break", "walk", "return", "done", "crashed"}
  /\ ordered \in Orders
  /\ lunch.before \in 0..(N + 1)
  /\ lunch.status \in {"none", "on_time", "late", "skipped"}
  /\ taken \in 0..1
  /\ clock \in Nat /\ drive \in 0..driveAll /\ driveAll \in Nat
  /\ here \in 0..N \cup {Gap}

\* The break is placed on a simulated walk and taken on the real one: a rule that
\* is required gives one break, wherever the day ends, and none is lost or taken
\* twice between the stops and the end of the day.
LunchOnce ==
  phase = "done" /\ todo.lunch # NoBreak =>
    /\ todo.lunch.hard => taken = 1
    /\ taken = 1 <=> lunch.status # "skipped"

\* "insert the break before the first stop whose arrival would fall within (or
\* after) the soft window" (planGenerator 1239): in preview, with a full matrix and
\* border legs that count, no stop before the break is reached after its earliest
\* time, and the one behind it would have been.
LunchAsPlanned ==
  LET full == HasMatrix /\ \A a, b \in 0..N : a # b => Entry(a, b) \notin {Gap, 0}
  IN  phase = "done" /\ todo.lunch # NoBreak /\ full /\ ~todo.persist /\ ~OpenRoute =>
        \A i \in DOMAIN ordered :
          /\ taken = 0 \/ i < lunch.before => rows[i].arrival < todo.lunch.earliest
          /\ i = lunch.before => rows[i].arrival - todo.lunch.minutes >= todo.lunch.earliest

LunchKept == LunchOnce /\ LunchAsPlanned

\* total_drive_minutes and its version with borders differ by the border legs and
\* nothing else, whatever mixture of matrix, routes and estimates they come from.
BordersApart ==
  phase = "done" =>
    driveAll - drive = IF ~OpenRoute THEN 0
                       ELSE LastLeg + (IF ordered = <<>> THEN 0 ELSE rows[1].travel)
=============================================================================
