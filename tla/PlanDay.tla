------------------------------- MODULE PlanDay -------------------------------
(***************************************************************************)
(* One day of a published plan: its rows of visit_plan_assignments and the *)
(* requests that write them while the reps are on the road.                *)
(*                                                                         *)
(*   start, deviate   startAssignment, deviateAssignment: a read, then an  *)
(*                    UPDATE by id                                         *)
(*   reassign         reassignStop: reads, then a transaction that moves   *)
(*                    the row and resequences the day of both reps         *)
(*   resequence       resequenceUser: the day of one rep is ordered anew   *)
(*   reopt            reoptimizeDay and intradayReoptimizer.reoptimize:    *)
(*                    one transaction under FOR UPDATE locks of the plan   *)
(*                    and of every row of the day                          *)
(*   archive          a replan or an archive takes the plan out of force   *)
(*   reschedule       the publish of an overlapping plan reschedules rows  *)
(*                                                                         *)
(* Postgres runs READ COMMITTED: a transaction reads the committed rows    *)
(* and its own writes; an UPDATE or FOR UPDATE waits for the row lock and  *)
(* then applies to the row as it is by then; of a cycle of waits one is    *)
(* aborted. Minutes are counted in units; which order the route solver     *)
(* finds, and which of two reps is nearer, is left open.                   *)
(***************************************************************************)
EXTENDS Integers, Sequences, FiniteSets, Functions

CONSTANTS
  DayReps,      \* visitor_user_id
  Stops,     \* rows the plan generator wrote for the day
  Urgent,    \* the row an urgent_insert adds
  Located,   \* the rows whose pharmacy has coordinates
  Homed,     \* the reps with home_lat and home_lng
  Requests,  \* requests in flight, each served once
  DayKinds,     \* what they may ask for
  NoRep,
  SoftN,     \* SOFT_LOCK_NEXT_N
  Cap,       \* daily_minutes_cap
  Service,   \* service_minutes_per_stop
  Travel,    \* expected_travel_minutes of a sequenced row
  Pad,       \* the 20 minutes the reoptimizer adds for the way to a stop
  Near       \* minutes of headroom that the nearest home makes up for, at most

(* Rows and reps have ids, of which NoRep is none; the generator wrote the *)
(* day for somebody.                                                       *)
ASSUME DayIds ==
  /\ Stops # {} /\ Stops \subseteq Nat /\ IsFiniteSet(Stops) /\ Urgent \in Nat \ Stops
  /\ DayReps \subseteq Nat /\ NoRep \in Nat \ DayReps

Rows == Stops \cup {Urgent}
AtEnd == 9999   \* route_order of a row that waits to be sequenced

VARIABLES
  row,     \* the committed rows of the day
  inForce, \* the plan is published and not archived
  req      \* the requests

dayVars == <<row, inForce, req>>

(* A row exists once it has a visitor. *)
NoRow == [who |-> NoRep, order |-> 0, status |-> "planned", started |-> FALSE]

Row == [who: DayReps \cup {NoRep}, order: Nat, status: {"planned", "skipped", "deviated", "rescheduled"}, started: BOOLEAN]

(* A request: its step; the row, the rep and the trigger it is about; the  *)
(* visitor it read; and, of its open transaction, what it has written, the *)
(* rows and the plan it has locked, the reps it still has to resequence,   *)
(* the rows it is numbering and the rows loadDay gave it.                  *)
Req == [pc: {"ready", "read", "moved", "numbering", "locking", "placing", "done", "failed"},
        kind: DayKinds \cup {"none"}, stop: Rows, rep: DayReps \cup {NoRep}, old: DayReps \cup {NoRep},
        writes: [Rows -> [who: DayReps \cup {NoRep}, order: Nat]], held: SUBSET Rows, plan: BOOLEAN,
        reps: Seq(DayReps \cup {NoRep}), todo: [Rows -> Nat], day: [Rows -> Row]]

Ended(pc) == [pc |-> pc, kind |-> "none", stop |-> Urgent, rep |-> NoRep, old |-> NoRep,
               writes |-> [s \in Rows |-> [who |-> NoRep, order |-> 0]], held |-> {}, plan |-> FALSE,
               reps |-> <<>>, todo |-> [s \in Rows |-> 0], day |-> [s \in Rows |-> NoRow]]

DayInit ==
  /\ \E who \in [Stops -> DayReps], pos \in [Stops -> 1..Cardinality(Stops)] :
       /\ \A s, t \in Stops : s # t /\ who[s] = who[t] => pos[s] # pos[t]
       /\ \A s \in Stops : pos[s] <= Cardinality({t \in Stops : who[t] = who[s]})
       /\ row = [s \in Rows |-> IF s \in Stops
                  THEN [who |-> who[s], order |-> pos[s], status |-> "planned", started |-> FALSE]
                  ELSE NoRow]
  /\ inForce = TRUE
  /\ req = [q \in Requests |-> Ended("ready")]

-----------------------------------------------------------------------------
(* Locks and the view a transaction has of the rows. *)

Exists(rows) == {s \in Rows : rows[s].who # NoRep}

UnlockedAnyway(q, s) == TRUE   \* mutant: loadDay without FOR UPDATE

Unlocked(q, s) == \A p \in Requests \ {q} : s \notin req[p].held

PlanFree(q) == \A p \in Requests \ {q} : ~req[p].plan

View(q) == [s \in Rows |->
  IF s \in Exists(req[q].writes)
    THEN [row[s] EXCEPT !.who = req[q].writes[s].who, !.order = req[q].writes[s].order]
    ELSE row[s]]

OfRep(rows, r) == {s \in Exists(rows) : rows[s].who = r}

(* The rows to number, and which is next. *)
ToNumber(q) == {s \in Rows : req[q].todo[s] # 0}

NextRow(q) == {s \in ToNumber(q) : \A t \in ToNumber(q) : req[q].todo[s] <= req[q].todo[t]}

(* The rows a request waits for. *)
Wants(q) ==
  CASE req[q].pc = "locking"   -> Exists(row) \ req[q].held
    [] req[q].pc = "numbering" -> NextRow(q)
    [] OTHER                   -> {}

(* A transaction aborted to break a cycle of two. *)
DeadlockVictim(q) ==
  /\ \E p \in Requests \ {q} :
       /\ Wants(q) \cap req[p].held # {}
       /\ Wants(p) \cap req[q].held # {}
  /\ req' = [req EXCEPT ![q] = Ended("failed")]
  /\ UNCHANGED <<row, inForce>>

-----------------------------------------------------------------------------
(* startAssignment and deviateAssignment: the row is read and its visitor  *)
(* tested, then it is updated by id, after any lock on it is gone.         *)

Ask(q, kind, s, r) ==
  /\ req[q].pc = "ready" /\ kind \in DayKinds
  /\ req' = [req EXCEPT ![q] = [@ EXCEPT !.pc = "read", !.kind = kind, !.stop = s, !.rep = r,
                                         !.old = row[s].who]]
  /\ UNCHANGED <<row, inForce>>

StartRead(q, s) == s \in Exists(row) /\ ~row[s].started /\ Ask(q, "start", s, row[s].who)

DeviateRead(q, s) == s \in Exists(row) /\ Ask(q, "deviate", s, row[s].who)

StartWrite(q) ==
  /\ req[q].pc = "read" /\ req[q].kind = "start"
  /\ Unlocked(q, req[q].stop)
  /\ row' = [row EXCEPT ![req[q].stop].started = TRUE]
  /\ req' = [req EXCEPT ![q] = Ended("done")]
  /\ UNCHANGED inForce

DeviateWrite(q) ==
  /\ req[q].pc = "read" /\ req[q].kind = "deviate"
  /\ Unlocked(q, req[q].stop)
  /\ row' = [row EXCEPT ![req[q].stop].status = "skipped"]
  /\ req' = [req EXCEPT ![q] = Ended("done")]
  /\ UNCHANGED inForce

-----------------------------------------------------------------------------
(* reassignStop: plan, row and cap are read before the transaction; the    *)
(* cap is tested only under PLAN_ENABLE_CAP_VALIDATION and not when the    *)
(* manager forces it, so here it may pass whatever the minutes are.        *)

ReassignStopRead(q, s, r) ==
  /\ inForce /\ s \in Exists(row) /\ row[s].who # r
  /\ Ask(q, "reassign", s, r)

ReassignMove(q) ==
  LET s == req[q].stop IN
  /\ req[q].pc = "read" /\ req[q].kind = "reassign"
  /\ Unlocked(q, s)
  /\ req' = [req EXCEPT ![q] = [@ EXCEPT
       !.pc = "moved", !.held = {s}, !.writes[s] = [who |-> req[q].rep, order |-> AtEnd],
       !.reps = <<req[q].old, req[q].rep>>]]
  /\ UNCHANGED <<row, inForce>>

(* The solver's order of a set of rows, numbered from 1. *)
Numberings(S) ==
  {[s \in Rows |-> IF s \in S THEN pos[s] ELSE 0] : pos \in Injection(S, 1..Cardinality(S))}

(* resequenceUserDay reads the rows of one rep, whatever their status and  *)
(* without locking them: first of the old visitor, then of the new one.    *)
ResequenceRead(q) ==
  /\ req[q].pc = "moved" /\ req[q].reps # <<>>
  /\ \E order \in Numberings(OfRep(View(q), Head(req[q].reps)) \cap Located) :
       req' = [req EXCEPT ![q] = [@ EXCEPT !.pc = "numbering", !.todo = order, !.reps = Tail(req[q].reps)]]
  /\ UNCHANGED <<row, inForce>>

ResequenceRow(q) ==
  /\ req[q].pc = "numbering"
  /\ \E s \in NextRow(q) :
       /\ Unlocked(q, s)
       /\ req' = [req EXCEPT ![q] = [@ EXCEPT
            !.held = req[q].held \cup {s}, !.todo[s] = 0,
            !.writes[s] = [who |-> View(q)[s].who, order |-> req[q].todo[s]]]]
  /\ UNCHANGED <<row, inForce>>

ResequenceEnd(q) ==
  /\ req[q].pc = "numbering" /\ ToNumber(q) = {}
  /\ req' = [req EXCEPT ![q].pc = "moved"]
  /\ UNCHANGED <<row, inForce>>

(* resequenceUser does only that, for one rep: the plan and the rep's days *)
(* are read before the transaction, and nothing is tested again in it.     *)
ResequenceAsk(q, r) == inForce /\ OfRep(row, r) # {} /\ Ask(q, "resequence", Urgent, r)

ResequenceOnly(q) ==
  /\ req[q].pc = "read" /\ req[q].kind = "resequence"
  /\ req' = [req EXCEPT ![q] = [@ EXCEPT !.pc = "moved", !.reps = <<req[q].rep>>]]
  /\ UNCHANGED <<row, inForce>>

ReassignCommit(q) ==
  /\ req[q].pc = "moved" /\ req[q].reps = <<>>
  /\ row' = View(q)
  /\ req' = [req EXCEPT ![q] = Ended("done")]
  /\ UNCHANGED inForce

-----------------------------------------------------------------------------
(* reoptimizeDay. Three triggers: a rep breaks down, a stop is urgent (for *)
(* a preferred rep or for any), and manual, which cap_exceed equals.       *)

ReoptAsk(q, kind, r) ==
  /\ inForce
  /\ CASE kind = "breakdown" -> r \in DayReps
       [] kind = "urgent"    -> Urgent \notin Exists(row) /\ \A p \in Requests : req[p].kind # "urgent"
       [] kind = "manual"    -> r = NoRep
       [] OTHER              -> FALSE
  /\ Ask(q, kind, Urgent, r)

Reopts == {"breakdown", "urgent", "manual"}

(* The plan row is locked FOR UPDATE and tested again: a plan that was     *)
(* archived meanwhile is refused.                                          *)
ReoptLockPlan(q) ==
  /\ req[q].pc = "read" /\ req[q].kind \in Reopts
  /\ PlanFree(q)
  /\ req' = [req EXCEPT ![q] = IF inForce THEN [@ EXCEPT !.pc = "locking", !.plan = TRUE]
                                          ELSE Ended("failed")]
  /\ UNCHANGED <<row, inForce>>

(* loadDay locks the rows of the day one after another. *)
ReoptLockRow(q) ==
  /\ req[q].pc = "locking"
  /\ \E s \in Exists(row) \ req[q].held :
       Unlocked(q, s) /\ req' = [req EXCEPT ![q].held = @ \cup {s}]
  /\ UNCHANGED <<row, inForce>>

ReoptLoad(q) ==
  /\ req[q].pc = "locking" /\ req[q].held = Exists(row)
  /\ req' = [req EXCEPT ![q] = [@ EXCEPT !.pc = "placing", !.day = row]]
  /\ UNCHANGED <<row, inForce>>

Earlier(day, s, t) == day[s].order < day[t].order \/ (day[s].order = day[t].order /\ s < t)

(* classifyLocks *)
Hard(day, s) == day[s].started

Open(day, s) == ~Hard(day, s) /\ day[s].status = "planned"

Soft(day, s) ==
  /\ Open(day, s)
  /\ Cardinality({t \in OfRep(day, day[s].who) : Open(day, t) /\ Earlier(day, t, s)}) < SoftN

Day(q) == req[q].day

Broken(q) == IF req[q].kind = "breakdown" THEN req[q].rep ELSE NoRep

KeptByAnyRep(q, s) == Hard(Day(q), s) \/ Soft(Day(q), s)   \* mutant: a broken rep keeps its next stops

Kept(q, s) == Hard(Day(q), s) \/ (Soft(Day(q), s) /\ Day(q)[s].who # Broken(q))

Released(q) == {s \in Exists(Day(q)) : ~Kept(q, s)}

(* The stops to place: the released ones with coordinates, rep by rep in   *)
(* route order, then the urgent one.                                       *)
Adds(q) == IF req[q].kind = "urgent" THEN {Urgent} ELSE {}

Pool(q) == (Released(q) \cap Located) \cup Adds(q)

PlacedBefore(q, s, t) ==
  \/ t \in Adds(q) /\ s # t
  \/ /\ {s, t} \cap Adds(q) = {}
     /\ \/ Day(q)[s].who < Day(q)[t].who
        \/ Day(q)[s].who = Day(q)[t].who /\ Earlier(Day(q), s, t)

ActiveReps(q) ==
  ({Day(q)[s].who : s \in Exists(Day(q))} \cup {req[q].rep}) \ {Broken(q), NoRep}

LockedMinutes(q, r) == Cardinality({s \in OfRep(Day(q), r) : Kept(q, s)}) * (Travel + Service)

(* projectedAdditions: the minutes of the stops placed before s. *)
Added(q, at, s, r) ==
  Cardinality({t \in Pool(q) : at[t] = r /\ PlacedBefore(q, t, s)}) * (Service + Pad)

(* pickBestRep: of the reps with a home and room left, the one with the    *)
(* most headroom; being nearer makes up for less than Near.                *)
Headroom(q, at, s, r) == Cap - Added(q, at, s, r) - LockedMinutes(q, r) - Service

Best(q, at, s) ==
  LET fit == {r \in ActiveReps(q) \cap Homed : Headroom(q, at, s, r) >= Service} IN
  {r \in fit : \A o \in fit : Headroom(q, at, s, o) <= Headroom(q, at, s, r) + Near}

(* The preferred rep of the urgent stop, while it has room for it. *)
Preferred(q, at, s) ==
  {r \in ActiveReps(q) : s \in Adds(q) /\ r = req[q].rep /\ Headroom(q, at, s, r) >= 0}

(* The greedy reassignment: every way to place the stops of the pool.      *)
PlacesFor(q, at, s) ==
  CASE Preferred(q, at, s) # {} -> Preferred(q, at, s)
    [] Preferred(q, at, s) = {} /\ Best(q, at, s) # {} -> Best(q, at, s)
    [] OTHER -> {NoRep}

Placements(q) ==
  {at \in [Pool(q) -> DayReps \cup {NoRep}] : \A s \in Pool(q) : at[s] \in PlacesFor(q, at, s)}

(* The urgent row is inserted for its preferred rep, or else for the first *)
(* visitor of the day until it is placed.                                  *)
FirstVisitor(q) == CHOOSE r \in {Day(q)[s].who : s \in Exists(Day(q))} :
                  \A s \in Exists(Day(q)) : r <= Day(q)[s].who

Inserted(q) ==
  IF req[q].kind = "urgent"
    THEN [Day(q) EXCEPT ![Urgent] = [@ EXCEPT !.order = AtEnd,
            !.who = IF req[q].rep = NoRep THEN FirstVisitor(q) ELSE req[q].rep]]
    ELSE Day(q)

(* The rows after the moves: a stop no rep can take is marked deviated.    *)
Moved(q, at) == [s \in Rows |->
  LET r == Inserted(q)[s] IN
  CASE s \notin DOMAIN at -> r
    [] s \in DOMAIN at /\ at[s] = NoRep  -> [r EXCEPT !.status = "deviated"]
    [] s \in DOMAIN at /\ at[s] = r.who  -> r
    [] OTHER -> [r EXCEPT !.who = at[s], !.order = AtEnd]]

(* Step 8: the reps that a stop came to or went from, and those with       *)
(* released stops, the broken one excepted, are numbered afresh.           *)
Touched(q, at) ==
  LET moved == {s \in DOMAIN at : at[s] # Inserted(q)[s].who} IN
  ({Inserted(q)[s].who : s \in moved}
     \cup {Moved(q, at)[s].who : s \in moved \cup Released(q)}) \ {Broken(q)}

Sequenced(rows, r) == {s \in OfRep(rows, r) : rows[s].status # "deviated"} \cap Located

Orders(rows, reps) ==
  {f \in [reps -> UNION {Numberings(Sequenced(rows, r)) : r \in reps}] :
     \A r \in reps : f[r] \in Numberings(Sequenced(rows, r))}

Renumber(rows, order) == [s \in Rows |->
  IF rows[s].who \in DOMAIN order /\ s \in Sequenced(rows, rows[s].who)
    THEN [rows[s] EXCEPT !.order = order[rows[s].who][s]]
    ELSE rows[s]]

(* The UPDATEs set visitor, order and status of the rows they change.      *)
Updated(q, rows) == [s \in Rows |->
  IF rows[s] = Day(q)[s] THEN row[s] ELSE [rows[s] EXCEPT !.started = row[s].started]]

ReoptWrite(q) ==
  /\ req[q].pc = "placing"
  /\ \E at \in Placements(q) :
       \E order \in Orders(Moved(q, at), Touched(q, at)) :
         row' = Updated(q, Renumber(Moved(q, at), order))
  /\ req' = [req EXCEPT ![q] = Ended("done")]
  /\ UNCHANGED inForce

(* A replan or an archive takes the plan out of force, under its row lock. *)
Archive ==
  /\ inForce
  /\ \A q \in Requests : ~req[q].plan
  /\ inForce' = FALSE
  /\ UNCHANGED <<row, req>>

(* The publish of another plan for these reps whose window holds this day  *)
(* reschedules the planned rows; the lock kind it spares is never 'hard'.  *)
Reschedule ==
  /\ inForce
  /\ \E s \in Exists(row) : row[s].status = "planned"
  /\ \A q \in Requests, s \in Exists(row) : row[s].status = "planned" => s \notin req[q].held
  /\ row' = [s \in Rows |-> IF s \in Exists(row) /\ row[s].status = "planned"
                              THEN [row[s] EXCEPT !.status = "rescheduled"] ELSE row[s]]
  /\ UNCHANGED <<inForce, req>>

-----------------------------------------------------------------------------
DayNext ==
  \/ \E q \in Requests :
       \/ \E s \in Rows : StartRead(q, s) \/ DeviateRead(q, s) \/ \E r \in DayReps : ReassignStopRead(q, s, r)
       \/ \E r \in DayReps : ResequenceAsk(q, r)
       \/ \E k \in Reopts, r \in DayReps \cup {NoRep} : ReoptAsk(q, k, r)
       \/ StartWrite(q) \/ DeviateWrite(q)
       \/ ResequenceOnly(q) \/ ReassignMove(q) \/ ResequenceRead(q) \/ ResequenceRow(q) \/ ResequenceEnd(q) \/ ReassignCommit(q)
       \/ ReoptLockPlan(q) \/ ReoptLockRow(q) \/ ReoptLoad(q) \/ ReoptWrite(q)
       \/ DeadlockVictim(q)
  \/ Archive
  \/ Reschedule

DaySpec == DayInit /\ [][DayNext]_dayVars

-----------------------------------------------------------------------------
(* Type invariant; no two transactions hold one lock. *)
DayTypeOK ==
  /\ row \in [Rows -> Row]
  /\ inForce \in BOOLEAN
  /\ req \in [Requests -> Req]
  /\ \A q \in Requests : \A p \in Requests \ {q} :
       req[p].held \cap req[q].held = {} /\ ~(req[p].plan /\ req[q].plan)

ReoptCommits(q) == req[q].pc = "placing" /\ req'[q].pc = "done"

LocksKept(q) ==
  /\ inForce
  /\ \A s \in Exists(row) :
       Hard(row, s) \/ (Soft(row, s) /\ row[s].who # Broken(q))
         => row'[s].who = row[s].who /\ row'[s].status = row[s].status
            /\ row'[s].started = row[s].started

(* A reoptimization that commits does so while its plan is in force, and   *)
(* leaves alone what the reps are at: no started stop changes its visitor  *)
(* or is marked deviated, and the next SoftN planned stops of a rep that   *)
(* works stay with that rep, whoever starts or deviates meanwhile          *)
(* (intradayReoptimizer.js:5-7, 52-56, 259).                               *)
LocksRespected == [][\A q \in Requests : ReoptCommits(q) => LocksKept(q)]_dayVars

Freed(q) ==
  Broken(q) # NoRep =>
    \A s \in OfRep(row', Broken(q)) \cap Located :
      row'[s].started \/ row'[s].status = "deviated"

(* After a breakdown no stop that can still be visited is left with the    *)
(* rep that broke down, unless it has no coordinates to place it by        *)
(* (intradayReoptimizer.js:291).                                           *)
BrokenRepFreed == [][\A q \in Requests : ReoptCommits(q) => Freed(q)]_dayVars
=============================================================================
