---------------------------- MODULE PlanDayProofs ----------------------------
(***************************************************************************)
(* The day of a plan: a reoptimization respects what the reps are at and   *)
(* leaves a broken rep nothing that can still be visited, for any rows,    *)
(* reps and requests.                                                      *)
(***************************************************************************)
EXTENDS PlanDay, FiniteInduction, TLAPS

(* What a transaction has locked, has written or is to write are rows of   *)
(* the day, written only under their lock.                                 *)
OnRows ==
  /\ Stops \subseteq Exists(row)
  /\ \A q \in Requests :
       /\ Exists(req[q].writes) \subseteq req[q].held
       /\ req[q].held \subseteq Exists(row)
       /\ ToNumber(q) \subseteq Exists(row)
       /\ req[q].kind \in {"start", "deviate", "reassign"} => req[q].stop \in Exists(row)
       /\ req[q].kind \in {"reassign", "breakdown"} => req[q].rep \in DayReps
       /\ req[q].pc \in {"ready", "read"} => req[q].held = {}

(* A reoptimization that has loaded the day has every row of it locked,    *)
(* and the rows are still what it loaded; its plan is in force.            *)
Loaded ==
  \A q \in Requests :
    /\ req[q].pc \in {"locking", "placing"} => req[q].plan
    /\ req[q].plan => inForce
    /\ req[q].pc = "placing" => req[q].held = Exists(row) /\ req[q].day = row

(* There is one urgent stop, and one request to add it. *)
UrgentOnce ==
  \A q \in Requests : req[q].kind = "urgent" =>
    Urgent \notin Exists(row) /\ \A p \in Requests \ {q} : req[p].kind # "urgent"

DayInv == DayTypeOK /\ OnRows /\ Loaded /\ UrgentOnce

LEMMA EndedFits ==
  ASSUME NEW pc \in {"ready", "done", "failed"}
  PROVE  /\ Ended(pc) \in Req /\ Ended(pc).held = {} /\ Ended(pc).plan = FALSE /\ Ended(pc).pc = pc
         /\ Ended(pc).kind = "none" /\ Exists(Ended(pc).writes) = {}
         /\ \A s \in Rows : Ended(pc).todo[s] = 0
<1>1. NoRow \in Row /\ Urgent \in Rows /\ <<>> \in Seq(DayReps \cup {NoRep})
  BY DEF NoRow, Row, Rows
<1>2. [s \in Rows |-> NoRow] \in [Rows -> Row]
  BY <1>1
<1>3. QED BY <1>1, <1>2 DEF Ended, Req, Exists

LEMMA DayInvInit == DayInit => DayInv
<1> SUFFICES ASSUME DayInit PROVE DayInv
  OBVIOUS
<1>1. \A q \in Requests : req[q] = Ended("ready")
  BY DEF DayInit
<1>2. inForce = TRUE /\ req \in [Requests -> Req]
  BY EndedFits DEF DayInit
<1>3. row \in [Rows -> Row] /\ Stops \subseteq Exists(row)
  <2>1. PICK who \in [Stops -> DayReps], pos \in [Stops -> 1..Cardinality(Stops)] :
          row = [s \in Rows |-> IF s \in Stops
                  THEN [who |-> who[s], order |-> pos[s], status |-> "planned", started |-> FALSE]
                  ELSE NoRow]
    BY DEF DayInit
  <2>2. Cardinality(Stops) \in Nat
    BY DayIds, FS_CardinalityType
  <2>3. \A s \in Stops : who[s] \in DayReps /\ who[s] # NoRep /\ pos[s] \in Nat
    BY <2>2, DayIds
  <2>4. \A s \in Rows : row[s] \in Row
    BY <2>1, <2>3 DEF NoRow, Row
  <2>5. QED BY <2>1, <2>3, <2>4 DEF Exists, Rows
<1>4. DayTypeOK
  BY <1>1, <1>2, <1>3, EndedFits DEF DayTypeOK
<1>5. OnRows /\ Loaded /\ UrgentOnce
  BY <1>1, <1>3, EndedFits DEF OnRows, Loaded, UrgentOnce, ToNumber
<1>6. QED BY <1>4, <1>5 DEF DayInv

-----------------------------------------------------------------------------
(* Steps of one request that write no row. *)
Fits(q, x) ==
  /\ x \in Req
  /\ Exists(x.writes) \subseteq x.held
  /\ x.held \subseteq Exists(row)
  /\ \A s \in Rows : x.todo[s] # 0 => s \in Exists(row)
  /\ x.kind \in {"start", "deviate", "reassign"} => x.stop \in Exists(row)
  /\ x.kind \in {"reassign", "breakdown"} => x.rep \in DayReps
  /\ x.pc \in {"ready", "read"} => x.held = {}
  /\ x.pc \in {"locking", "placing"} => x.plan
  /\ x.plan => inForce
  /\ x.pc = "placing" => x.held = Exists(row) /\ x.day = row
  /\ x.kind = "urgent" => Urgent \notin Exists(row)
  /\ \A p \in Requests \ {q} :
       /\ x.held \cap req[p].held = {}
       /\ ~(x.plan /\ req[p].plan)
       /\ x.kind = "urgent" => req[p].kind # "urgent"

LEMMA OwnFits ==
  ASSUME DayInv, NEW q \in Requests
  PROVE  Fits(q, req[q])
BY DEF DayInv, DayTypeOK, OnRows, Loaded, UrgentOnce, Fits, ToNumber

LEMMA OneRequest ==
  ASSUME DayInv, NEW q \in Requests, NEW x, Fits(q, x), req' = [req EXCEPT ![q] = x], UNCHANGED <<row, inForce>>
  PROVE  DayInv'
<1>1. \A p \in Requests : req'[p] = IF p = q THEN x ELSE req[p]
  BY DEF DayInv, DayTypeOK
<1>2. DayTypeOK'
  <2>1. req' \in [Requests -> Req] /\ row' \in [Rows -> Row] /\ inForce' \in BOOLEAN
    BY DEF DayInv, DayTypeOK, Fits
  <2>2. ASSUME NEW p \in Requests, NEW o \in Requests \ {p}
        PROVE  req'[o].held \cap req'[p].held = {} /\ ~(req'[o].plan /\ req'[p].plan)
    BY <1>1 DEF DayInv, DayTypeOK, Fits
  <2>3. QED BY <2>1, <2>2 DEF DayTypeOK
<1>3. OnRows'
  BY <1>1 DEF DayInv, OnRows, Fits, Exists, ToNumber
<1>4. Loaded'
  BY <1>1 DEF DayInv, Loaded, Fits, Exists
<1>5. UrgentOnce'
  BY <1>1 DEF DayInv, UrgentOnce, Fits, Exists
<1>6. QED BY <1>2, <1>3, <1>4, <1>5 DEF DayInv

LEMMA EndedStep ==
  ASSUME DayInv, NEW q \in Requests, NEW pc \in {"done", "failed"},
         req' = [req EXCEPT ![q] = Ended(pc)], UNCHANGED <<row, inForce>>
  PROVE  DayInv'
<1>1. Fits(q, Ended(pc))
  <2> HIDE DEF Ended
  <2>1. QED BY EndedFits DEF Fits
<1> HIDE DEF Ended
<1>2. QED BY <1>1, OneRequest

(* Steps that write rows: no request has loaded the day but the one that   *)
(* writes, and no other one is to add the urgent stop if it is there.      *)
LEMMA RowsStep ==
  ASSUME DayInv, NEW Q \in SUBSET Requests,
         \A p \in Requests : req'[p] = IF p \in Q THEN Ended("done") ELSE req[p],
         req' \in [Requests -> Req], row' \in [Rows -> Row], inForce' = inForce,
         \A s \in Exists(row) : row'[s].who # NoRep,
         \A p \in Requests \ Q : req[p].pc = "placing" => row' = row,
         \A p \in Requests \ Q : req[p].kind = "urgent" => row'[Urgent].who = NoRep
  PROVE  DayInv'
<1> DEFINE E == Ended("done")
<1>1. /\ E.held = {} /\ E.plan = FALSE /\ E.pc = "done" /\ E.kind = "none" /\ Exists(E.writes) = {}
      /\ \A s \in Rows : E.todo[s] = 0
  BY EndedFits
<1> HIDE DEF E
<1>2. \A p \in Requests : req'[p] = IF p \in Q THEN E ELSE req[p]
  BY DEF E
<1>3. Exists(row) \subseteq Exists(row)'
  BY DEF Exists
<1>4. DayTypeOK'
  BY <1>1, <1>2 DEF DayInv, DayTypeOK
<1>5. OnRows'
  <2>1. (Stops \subseteq Exists(row))'
    BY <1>3 DEF DayInv, OnRows
  <2>2. ASSUME NEW p \in Requests
        PROVE  /\ Exists(req'[p].writes) \subseteq req'[p].held
               /\ req'[p].held \subseteq Exists(row)'
               /\ ToNumber(p)' \subseteq Exists(row)'
               /\ req'[p].kind \in {"start", "deviate", "reassign"} => req'[p].stop \in Exists(row)'
               /\ req'[p].kind \in {"reassign", "breakdown"} => req'[p].rep \in DayReps
               /\ req'[p].pc \in {"ready", "read"} => req'[p].held = {}
    <3>1. CASE p \in Q
      BY <3>1, <1>1, <1>2 DEF ToNumber
    <3>2. CASE p \notin Q
      BY <3>2, <1>2, <1>3 DEF DayInv, OnRows, ToNumber
    <3>3. QED BY <3>1, <3>2
  <2>3. QED BY <2>1, <2>2 DEF OnRows, Exists
<1>6. Loaded'
  BY <1>1, <1>2 DEF DayInv, Loaded, Exists
<1>7. UrgentOnce'
  BY <1>1, <1>2 DEF DayInv, UrgentOnce, Exists
<1>8. QED BY <1>4, <1>5, <1>6, <1>7 DEF DayInv

-----------------------------------------------------------------------------
(* Requests that begin, and those that take a lock or number rows. *)
LEMMA AskStep ==
  ASSUME DayInv, NEW q \in Requests, NEW kind, NEW s \in Rows, NEW r \in DayReps \cup {NoRep}, Ask(q, kind, s, r),
         kind \in {"start", "deviate", "reassign"} => s \in Exists(row),
         kind \in {"reassign", "breakdown"} => r \in DayReps,
         kind = "urgent" => Urgent \notin Exists(row) /\ \A p \in Requests : req[p].kind # "urgent"
  PROVE  DayInv'
<1> DEFINE x == [req[q] EXCEPT !.pc = "read", !.kind = kind, !.stop = s, !.rep = r, !.old = row[s].who]
<1>1. /\ req[q] \in Req /\ req[q].pc = "ready" /\ kind \in DayKinds /\ row[s].who \in DayReps \cup {NoRep}
      /\ req' = [req EXCEPT ![q] = x] /\ UNCHANGED <<row, inForce>>
  BY DEF DayInv, DayTypeOK, Ask, Row
<1>2. /\ x \in Req /\ x.pc = "read" /\ x.kind = kind /\ x.stop = s /\ x.rep = r
      /\ x.writes = req[q].writes /\ x.held = req[q].held /\ x.todo = req[q].todo /\ x.plan = req[q].plan
  BY <1>1 DEF Req
<1> HIDE DEF x
<1>3. Fits(q, x)
  <2>1. Fits(q, req[q])
    BY OwnFits
  <2>2. QED BY <1>1, <1>2, <2>1 DEF Fits
<1>4. QED BY <1>1, <1>3, OneRequest

LEMMA BeginStep ==
  ASSUME DayInv, NEW q \in Requests,
         \/ \E s \in Rows : StartRead(q, s) \/ DeviateRead(q, s) \/ \E r \in DayReps : ReassignStopRead(q, s, r)
         \/ \E r \in DayReps : ResequenceAsk(q, r)
         \/ \E k \in Reopts, r \in DayReps \cup {NoRep} : ReoptAsk(q, k, r)
  PROVE  DayInv'
<1>1. ASSUME NEW s \in Rows, StartRead(q, s) PROVE DayInv'
  <2>1. row[s].who \in DayReps \cup {NoRep}
    BY DEF DayInv, DayTypeOK, Row
  <2>2. QED BY <1>1, <2>1, AskStep DEF StartRead
<1>2. ASSUME NEW s \in Rows, DeviateRead(q, s) PROVE DayInv'
  <2>1. row[s].who \in DayReps \cup {NoRep}
    BY DEF DayInv, DayTypeOK, Row
  <2>2. QED BY <1>2, <2>1, AskStep DEF DeviateRead
<1>3. ASSUME NEW s \in Rows, NEW r \in DayReps, ReassignStopRead(q, s, r) PROVE DayInv'
  BY <1>3, AskStep DEF ReassignStopRead
<1>4. ASSUME NEW k \in Reopts, NEW r \in DayReps \cup {NoRep}, ReoptAsk(q, k, r) PROVE DayInv'
  <2>1. Urgent \in Rows
    BY DEF Rows
  <2>2. /\ k = "breakdown" => r \in DayReps
        /\ k = "urgent" => Urgent \notin Exists(row) /\ \A p \in Requests : req[p].kind # "urgent"
        /\ Ask(q, k, Urgent, r)
    BY <1>4 DEF ReoptAsk
  <2>3. k \notin {"start", "deviate", "reassign"}
    BY DEF Reopts
  <2>4. QED BY <2>1, <2>2, <2>3, AskStep
<1>5. ASSUME NEW r \in DayReps, ResequenceAsk(q, r) PROVE DayInv'
  <2>1. Urgent \in Rows
    BY DEF Rows
  <2>2. QED BY <1>5, <2>1, AskStep DEF ResequenceAsk
<1>6. QED BY <1>1, <1>2, <1>3, <1>4, <1>5

LEMMA ViewTyped ==
  ASSUME DayInv, NEW q \in Requests
  PROVE  /\ View(q) \in [Rows -> Row]
         /\ \A s \in Rows : s \in Exists(row) => View(q)[s].who \in DayReps
         /\ \A s \in Rows : s \notin Exists(req[q].writes) => View(q)[s] = row[s]
         /\ Exists(View(q)) \subseteq Exists(row)
<1>1. row \in [Rows -> Row] /\ req[q].writes \in [Rows -> [who: DayReps \cup {NoRep}, order: Nat]]
  BY DEF DayInv, DayTypeOK, Req
<1>2. Exists(req[q].writes) \subseteq Exists(row)
  BY DEF DayInv, OnRows
<1>3. \A s \in Rows : View(q)[s] = IF s \in Exists(req[q].writes)
                        THEN [row[s] EXCEPT !.who = req[q].writes[s].who, !.order = req[q].writes[s].order]
                        ELSE row[s]
  BY DEF View
<1>4. \A s \in Rows : View(q)[s] \in Row /\ (s \in Exists(row) => View(q)[s].who \in DayReps)
  BY <1>1, <1>3 DEF Row, Exists
<1>5. View(q) \in [Rows -> Row]
  BY <1>4 DEF View
<1>6. Exists(View(q)) \subseteq Exists(row)
  BY <1>2, <1>3 DEF Exists
<1>7. QED BY <1>3, <1>4, <1>5, <1>6

LEMMA RowsFinite == IsFiniteSet(Rows) /\ \A S \in SUBSET Rows : IsFiniteSet(S) /\ Cardinality(S) \in Nat
<1>1. IsFiniteSet(Rows)
  BY DayIds, FS_AddElement DEF Rows
<1>2. QED BY <1>1, FS_Subset, FS_CardinalityType

LEMMA Numbered ==
  ASSUME NEW S \in SUBSET Rows, NEW order \in Numberings(S)
  PROVE  order \in [Rows -> Nat] /\ \A s \in Rows : order[s] # 0 => s \in S
<1>1. PICK pos \in Injection(S, 1..Cardinality(S)) : order = [s \in Rows |-> IF s \in S THEN pos[s] ELSE 0]
  BY DEF Numberings
<1>2. \A s \in S : pos[s] \in Nat
  BY <1>1, RowsFinite DEF Injection
<1>3. QED BY <1>1, <1>2

LEMMA ResequenceStep ==
  ASSUME DayInv, NEW q \in Requests,
         ResequenceOnly(q) \/ ReassignMove(q) \/ ResequenceRead(q) \/ ResequenceRow(q) \/ ResequenceEnd(q)
  PROVE  DayInv'
<1>1. /\ req[q] \in Req /\ row \in [Rows -> Row] /\ Fits(q, req[q])
  BY OwnFits DEF DayInv, DayTypeOK
<1>2. CASE ReassignMove(q)
  <2> DEFINE s == req[q].stop
             x == [req[q] EXCEPT
                     !.pc = "moved", !.held = {s}, !.writes[s] = [who |-> req[q].rep, order |-> AtEnd],
                     !.reps = <<req[q].old, req[q].rep>>]
  <2>1. /\ req' = [req EXCEPT ![q] = x] /\ UNCHANGED <<row, inForce>>
        /\ req[q].pc = "read" /\ req[q].kind = "reassign" /\ Unlocked(q, s)
    BY <1>2 DEF ReassignMove
  <2>2. s \in Exists(row) /\ s \in Rows /\ req[q].rep \in DayReps
    BY <1>1, <2>1 DEF Fits, Req
  <2>3. /\ req[q].writes \in [Rows -> [who: DayReps \cup {NoRep}, order: Nat]]
        /\ req[q].old \in DayReps \cup {NoRep}
    BY <1>1 DEF Req
  <2> DEFINE w == [req[q].writes EXCEPT ![s] = [who |-> req[q].rep, order |-> AtEnd]]
             two == <<req[q].old, req[q].rep>>
  <2>4. w \in [Rows -> [who: DayReps \cup {NoRep}, order: Nat]] /\ two \in Seq(DayReps \cup {NoRep})
    BY <2>2, <2>3 DEF AtEnd
  <2>5. req[q].held = {} => Exists(w) \subseteq {s}
    BY <1>1, <2>2, <2>3 DEF Fits, Exists
  <2>6. x = [req[q] EXCEPT !.pc = "moved", !.held = {s}, !.writes = w, !.reps = two]
    BY <1>1 DEF Req
  <2>7. req[q].held = {}
    BY <1>1, <2>1 DEF Fits
  <2>8. /\ x \in Req /\ x.pc = "moved" /\ x.held = {s} /\ x.writes = w /\ x.todo = req[q].todo
        /\ x.kind = req[q].kind /\ x.stop = s /\ x.rep = req[q].rep /\ x.plan = req[q].plan
    <3>1. s \in Rows /\ {s} \subseteq Rows
      BY <2>2
    <3> HIDE DEF w, two, s, x
    <3>2. QED BY <1>1, <2>4, <2>6, <3>1 DEF Req, s
  <2>9. Exists(w) \subseteq {s} /\ \A p \in Requests \ {q} : s \notin req[p].held
    BY <2>1, <2>5, <2>7 DEF Unlocked
  <2> HIDE DEF x, w, s
  <2>10. Fits(q, x)
    BY <1>1, <2>1, <2>2, <2>8, <2>9 DEF Fits
  <2>11. QED BY <2>1, <2>10, OneRequest
<1>3. CASE ResequenceRead(q)
  <2>1. PICK order \in Numberings(OfRep(View(q), Head(req[q].reps)) \cap Located) :
          req' = [req EXCEPT ![q] = [@ EXCEPT !.pc = "numbering", !.todo = order, !.reps = Tail(req[q].reps)]]
    BY <1>3 DEF ResequenceRead
  <2> DEFINE S == OfRep(View(q), Head(req[q].reps)) \cap Located
             x == [req[q] EXCEPT !.pc = "numbering", !.todo = order, !.reps = Tail(@)]
  <2>2. S \subseteq Exists(row) /\ S \in SUBSET Rows
    BY ViewTyped DEF OfRep, Exists
  <2>3. order \in [Rows -> Nat] /\ \A s \in Rows : order[s] # 0 => s \in Exists(row)
    BY <2>1, <2>2, Numbered
  <2>4. /\ req' = [req EXCEPT ![q] = x] /\ UNCHANGED <<row, inForce>>
        /\ req[q].pc = "moved" /\ req[q].reps # <<>>
    <3>1. UNCHANGED <<row, inForce>> /\ req[q].pc = "moved" /\ req[q].reps # <<>>
      BY <1>3 DEF ResequenceRead
    <3>2. req' = [req EXCEPT ![q] = x]
      BY <2>1 DEF DayInv, DayTypeOK
    <3>3. QED BY <3>1, <3>2
  <2>5. Tail(req[q].reps) \in Seq(DayReps \cup {NoRep})
    BY <1>1, <2>4 DEF Req
  <2>6. /\ x \in Req /\ x.pc = "numbering" /\ x.held = req[q].held /\ x.writes = req[q].writes /\ x.todo = order
        /\ x.kind = req[q].kind /\ x.stop = req[q].stop /\ x.rep = req[q].rep /\ x.plan = req[q].plan
    BY <1>1, <2>3, <2>5 DEF Req
  <2> HIDE DEF x
  <2>7. Fits(q, x)
    BY <1>1, <2>3, <2>6 DEF Fits
  <2>8. QED BY <2>4, <2>7, OneRequest
<1>4. CASE ResequenceRow(q)
  <2>1. PICK s \in NextRow(q) :
          /\ Unlocked(q, s)
          /\ req' = [req EXCEPT ![q] = [@ EXCEPT
               !.held = req[q].held \cup {s}, !.todo[s] = 0,
               !.writes[s] = [who |-> View(q)[s].who, order |-> req[q].todo[s]]]]
    BY <1>4 DEF ResequenceRow
  <2> DEFINE w == [req[q].writes EXCEPT ![s] = [who |-> View(q)[s].who, order |-> req[q].todo[s]]]
             t == [req[q].todo EXCEPT ![s] = 0]
             x == [req[q] EXCEPT !.held = @ \cup {s}, !.todo = t, !.writes = w]
  <2>2. s \in Rows /\ s \in Exists(row)
    BY <1>1 DEF NextRow, ToNumber, Fits
  <2>3. /\ req[q].writes \in [Rows -> [who: DayReps \cup {NoRep}, order: Nat]] /\ req[q].todo \in [Rows -> Nat]
        /\ View(q)[s].who \in DayReps
    BY <1>1, <2>2, ViewTyped DEF Req
  <2>4. req' = [req EXCEPT ![q] = x] /\ UNCHANGED <<row, inForce>> /\ req[q].pc = "numbering"
    <3>1. UNCHANGED <<row, inForce>> /\ req[q].pc = "numbering"
      BY <1>4 DEF ResequenceRow
    <3>2. [req[q] EXCEPT !.held = req[q].held \cup {s}, !.todo[s] = 0,
                         !.writes[s] = [who |-> View(q)[s].who, order |-> req[q].todo[s]]] = x
      OBVIOUS
    <3> HIDE DEF x
    <3>3. req' = [req EXCEPT ![q] = x]
      BY <2>1, <3>2 DEF DayInv, DayTypeOK
    <3>4. QED BY <3>1, <3>3
  <2>5. /\ w \in [Rows -> [who: DayReps \cup {NoRep}, order: Nat]] /\ t \in [Rows -> Nat]
        /\ Exists(w) \subseteq Exists(req[q].writes) \cup {s}
        /\ \A u \in Rows : t[u] # 0 => req[q].todo[u] # 0
    BY <2>2, <2>3 DEF Exists
  <2>6. /\ x \in Req /\ x.pc = "numbering" /\ x.held = req[q].held \cup {s} /\ x.writes = w /\ x.todo = t
        /\ x.kind = req[q].kind /\ x.stop = req[q].stop /\ x.rep = req[q].rep /\ x.plan = req[q].plan
    <3> HIDE DEF w, t
    <3>1. QED BY <1>1, <2>2, <2>4, <2>5 DEF Req
  <2> HIDE DEF x, w, t
  <2>7. Fits(q, x)
    BY <1>1, <2>1, <2>2, <2>5, <2>6 DEF Fits, Unlocked
  <2>8. QED BY <2>4, <2>7, OneRequest
<1>5. CASE ResequenceEnd(q)
  <2> DEFINE x == [req[q] EXCEPT !.pc = "moved"]
  <2>1. req' = [req EXCEPT ![q] = x] /\ UNCHANGED <<row, inForce>>
    BY <1>5 DEF ResequenceEnd, DayInv, DayTypeOK
  <2>2. /\ x \in Req /\ x.pc = "moved" /\ x.held = req[q].held /\ x.writes = req[q].writes /\ x.todo = req[q].todo
        /\ x.kind = req[q].kind /\ x.stop = req[q].stop /\ x.rep = req[q].rep /\ x.plan = req[q].plan
    BY <1>1 DEF Req
  <2> HIDE DEF x
  <2>3. Fits(q, x)
    BY <1>1, <2>2 DEF Fits
  <2>4. QED BY <2>1, <2>3, OneRequest
<1>6. CASE ResequenceOnly(q)
  <2> DEFINE one == <<req[q].rep>>
             x == [req[q] EXCEPT !.pc = "moved", !.reps = one]
  <2>1. req' = [req EXCEPT ![q] = x] /\ UNCHANGED <<row, inForce>>
    BY <1>6 DEF ResequenceOnly, DayInv, DayTypeOK
  <2>2. one \in Seq(DayReps \cup {NoRep})
    BY <1>1 DEF Req
  <2> HIDE DEF one
  <2>3. /\ x \in Req /\ x.pc = "moved" /\ x.held = req[q].held /\ x.writes = req[q].writes /\ x.todo = req[q].todo
        /\ x.kind = req[q].kind /\ x.stop = req[q].stop /\ x.rep = req[q].rep /\ x.plan = req[q].plan
    BY <1>1, <2>2 DEF Req
  <2> HIDE DEF x
  <2>4. Fits(q, x)
    BY <1>1, <2>3 DEF Fits
  <2>5. QED BY <2>1, <2>4, OneRequest
<1>7. QED BY <1>2, <1>3, <1>4, <1>5, <1>6

LEMMA LockStep ==
  ASSUME DayInv, NEW q \in Requests,
         ReoptLockPlan(q) \/ ReoptLockRow(q) \/ ReoptLoad(q) \/ DeadlockVictim(q)
  PROVE  DayInv'
<1>1. /\ req[q] \in Req /\ row \in [Rows -> Row] /\ Fits(q, req[q]) /\ DOMAIN req = Requests
  BY OwnFits DEF DayInv, DayTypeOK
<1>2. CASE ReoptLockPlan(q) /\ inForce
  <2> DEFINE x == [req[q] EXCEPT !.pc = "locking", !.plan = TRUE]
  <2>1. /\ req' = [req EXCEPT ![q] = x] /\ UNCHANGED <<row, inForce>>
        /\ PlanFree(q)
    BY <1>2 DEF ReoptLockPlan
  <2>2. /\ x \in Req /\ x.pc = "locking" /\ x.held = req[q].held /\ x.writes = req[q].writes /\ x.todo = req[q].todo
        /\ x.kind = req[q].kind /\ x.stop = req[q].stop /\ x.rep = req[q].rep /\ x.plan = TRUE
    BY <1>1 DEF Req
  <2> HIDE DEF x
  <2>3. Fits(q, x)
    BY <1>1, <1>2, <2>1, <2>2 DEF Fits, PlanFree
  <2>4. QED BY <2>1, <2>3, OneRequest
<1>3. CASE ReoptLockPlan(q) /\ ~inForce
  <2>1. req' = [req EXCEPT ![q] = Ended("failed")] /\ UNCHANGED <<row, inForce>>
    BY <1>3 DEF ReoptLockPlan
  <2>2. QED BY <2>1, EndedStep
<1>4. CASE ReoptLockRow(q)
  <2>1. PICK s \in Exists(row) \ req[q].held : Unlocked(q, s) /\ req' = [req EXCEPT ![q].held = @ \cup {s}]
    BY <1>4 DEF ReoptLockRow
  <2> DEFINE x == [req[q] EXCEPT !.held = @ \cup {s}]
  <2>2. req' = [req EXCEPT ![q] = x] /\ UNCHANGED <<row, inForce>> /\ s \in Rows /\ req[q].pc = "locking"
    BY <1>1, <1>4, <2>1 DEF ReoptLockRow, Exists
  <2>3. /\ x \in Req /\ x.pc = "locking" /\ x.held = req[q].held \cup {s} /\ x.writes = req[q].writes
        /\ x.todo = req[q].todo
        /\ x.kind = req[q].kind /\ x.stop = req[q].stop /\ x.rep = req[q].rep /\ x.plan = req[q].plan
    BY <1>1, <2>2 DEF Req
  <2> HIDE DEF x
  <2>4. Fits(q, x)
    BY <1>1, <2>1, <2>2, <2>3 DEF Fits, Unlocked
  <2>5. QED BY <2>2, <2>4, OneRequest
<1>5. CASE ReoptLoad(q)
  <2> DEFINE x == [req[q] EXCEPT !.pc = "placing", !.day = row]
  <2>1. /\ req' = [req EXCEPT ![q] = x] /\ UNCHANGED <<row, inForce>>
        /\ req[q].pc = "locking" /\ req[q].held = Exists(row)
    BY <1>5 DEF ReoptLoad
  <2>2. /\ x \in Req /\ x.pc = "placing" /\ x.held = req[q].held /\ x.writes = req[q].writes /\ x.day = row
        /\ x.todo = req[q].todo
        /\ x.kind = req[q].kind /\ x.stop = req[q].stop /\ x.rep = req[q].rep /\ x.plan = req[q].plan
    BY <1>1 DEF Req
  <2> HIDE DEF x
  <2>3. Fits(q, x)
    BY <1>1, <2>1, <2>2 DEF Fits
  <2>4. QED BY <2>1, <2>3, OneRequest
<1>6. CASE DeadlockVictim(q)
  BY <1>6, EndedStep DEF DeadlockVictim
<1>7. QED BY <1>2, <1>3, <1>4, <1>5, <1>6

-----------------------------------------------------------------------------
(* What a reoptimization writes: the rows it does not place stay as they   *)
(* are but for their order; the others go to a rep that works or, when     *)
(* none has room, are marked deviated.                                     *)
LEMMA PlacedSomewhere ==
  ASSUME NEW q \in Requests, NEW at \in Placements(q)
  PROVE  /\ DOMAIN at = Pool(q)
         /\ \A s \in Pool(q) : at[s] \in DayReps \cup {NoRep} /\ (at[s] = NoRep \/ at[s] \in ActiveReps(q))
<1>1. at \in [Pool(q) -> DayReps \cup {NoRep}] /\ \A s \in Pool(q) : at[s] \in PlacesFor(q, at, s)
  BY DEF Placements
<1>2. ASSUME NEW s \in Pool(q) PROVE at[s] = NoRep \/ at[s] \in ActiveReps(q)
  <2>1. Preferred(q, at, s) \subseteq ActiveReps(q)
    BY DEF Preferred
  <2>2. Best(q, at, s) \subseteq ActiveReps(q)
    BY DEF Best
  <2>3. at[s] \in PlacesFor(q, at, s)
    BY <1>1
  <2>4. QED BY <2>1, <2>2, <2>3 DEF PlacesFor
<1>3. QED BY <1>1, <1>2

LEMMA FirstVisitorTyped ==
  ASSUME DayInv, NEW q \in Requests, req[q].pc = "placing"
  PROVE  FirstVisitor(q) \in DayReps
<1> DEFINE f == [s \in Exists(row) |-> -row[s].who]
           W == {row[s].who : s \in Exists(row)}
           N == {f[s] : s \in Exists(row)}
<1>1. Day(q) = row /\ row \in [Rows -> Row] /\ Stops \subseteq Exists(row) /\ Exists(row) \subseteq Rows
  BY DEF DayInv, DayTypeOK, Loaded, OnRows, Day, Exists
<1>2. \A s \in Exists(row) : row[s].who \in DayReps /\ row[s].who \in Nat
  BY <1>1, DayIds DEF Row, Exists
<1>3. IsFiniteSet(Exists(row)) /\ Exists(row) # {}
  BY <1>1, RowsFinite, DayIds
<1>4. N \in SUBSET Int /\ N # {} /\ \A s \in Exists(row) : -row[s].who \in N
  BY <1>2, <1>3
<1> HIDE DEF f
<1>5. IsFiniteSet(N)
  BY <1>3, FiniteImage
<1>6. PICK m \in N : \A n \in N : n <= m
  <2> HIDE DEF N
  <2>1. QED BY <1>4, <1>5, MaxExists
<1>7. PICK s \in Exists(row) : m = -row[s].who
  BY <1>6 DEF f
<1>8. \A t \in Exists(row) : row[s].who <= row[t].who
  <2> SUFFICES ASSUME NEW t \in Exists(row) PROVE row[s].who <= row[t].who
    OBVIOUS
  <2>1. -row[t].who <= -row[s].who
    BY <1>4, <1>6, <1>7
  <2>2. row[s].who \in Nat /\ row[t].who \in Nat
    BY <1>2
  <2>3. QED BY <2>1, <2>2
<1>9. \E r \in W : \A t \in Exists(row) : r <= row[t].who
  BY <1>8
<1>10. FirstVisitor(q) \in W
  <2>1. FirstVisitor(q) = CHOOSE r \in W : \A t \in Exists(row) : r <= row[t].who
    BY <1>1 DEF FirstVisitor
  <2> HIDE DEF W
  <2>2. QED BY <1>9, <2>1, Zenon
<1>11. QED BY <1>2, <1>10

LEMMA InsertedRows ==
  ASSUME DayInv, NEW q \in Requests, req[q].pc = "placing", NEW s \in Rows
  PROVE  /\ Inserted(q)[s] \in Row
         /\ Inserted(q)[s].started = row[s].started
         /\ s \notin Adds(q) => Inserted(q)[s] = row[s]
         /\ s \in Adds(q) => s \notin Exists(row) /\ Inserted(q)[s].who # NoRep
<1>1. /\ Day(q) = row /\ row \in [Rows -> Row] /\ req[q].rep \in DayReps \cup {NoRep}
      /\ req[q].kind = "urgent" => Urgent \notin Exists(row)
  BY DEF DayInv, DayTypeOK, Loaded, UrgentOnce, Day, Req
<1>2. CASE req[q].kind = "urgent"
  <2> DEFINE v == IF req[q].rep = NoRep THEN FirstVisitor(q) ELSE req[q].rep
  <2>1. v \in DayReps /\ v # NoRep
    BY <1>1, FirstVisitorTyped, DayIds
  <2>2. Inserted(q) = [row EXCEPT ![Urgent] = [@ EXCEPT !.order = AtEnd, !.who = v]]
    BY <1>1, <1>2 DEF Inserted
  <2> HIDE DEF v
  <2>3. s # Urgent => Inserted(q)[s] = row[s]
    BY <1>1, <2>2
  <2>4. s = Urgent => Inserted(q)[s] = [row[s] EXCEPT !.order = AtEnd, !.who = v]
    BY <1>1, <2>2
  <2>5. row[s] \in Row /\ AtEnd \in Nat
    BY <1>1 DEF AtEnd
  <2>6. QED BY <1>1, <1>2, <2>1, <2>3, <2>4, <2>5 DEF Row, Adds
<1>3. CASE req[q].kind # "urgent"
  BY <1>1, <1>3 DEF Inserted, Adds
<1>4. QED BY <1>2, <1>3

PlacedRow(q, at, s, r) ==
  /\ r \in Row /\ r.started = row[s].started
  /\ s \in Exists(row) => r.who # NoRep
  /\ s \notin Pool(q) => r.who = row[s].who /\ r.status = row[s].status
  /\ s \in Pool(q) => \/ at[s] = NoRep /\ r.status = "deviated"
                      \/ at[s] \in ActiveReps(q) /\ r.who = at[s]

LEMMA MovedRows ==
  ASSUME DayInv, NEW q \in Requests, req[q].pc = "placing", NEW at \in Placements(q), NEW s \in Rows
  PROVE  PlacedRow(q, at, s, Moved(q, at)[s])
<1> DEFINE r == Inserted(q)[s]
           m == Moved(q, at)[s]
<1>1. /\ r \in Row /\ r.started = row[s].started /\ row[s] \in Row
      /\ s \notin Adds(q) => r = row[s]
      /\ s \in Adds(q) => s \notin Exists(row) /\ r.who # NoRep
  BY InsertedRows DEF DayInv, DayTypeOK
<1>2. /\ s \in Exists(row) => r.who # NoRep
      /\ s \in Pool(q) => r.who # NoRep
  <2>1. Day(q) = row
    BY DEF DayInv, Loaded, Day
  <2>2. s \in Pool(q) => s \in Exists(row) \/ s \in Adds(q)
    BY <2>1 DEF Pool, Released
  <2>3. QED BY <1>1, <2>2 DEF Exists
<1>3. m = CASE s \notin DOMAIN at -> r
            [] s \in DOMAIN at /\ at[s] = NoRep  -> [r EXCEPT !.status = "deviated"]
            [] s \in DOMAIN at /\ at[s] = r.who  -> r
            [] OTHER -> [r EXCEPT !.who = at[s], !.order = AtEnd]
  BY DEF Moved
<1> HIDE DEF m, r
<1>4. CASE s \notin Pool(q)
  <2>1. s \notin Adds(q) /\ s \notin DOMAIN at
    BY <1>4, PlacedSomewhere DEF Pool
  <2>2. m = r
    BY <1>3, <2>1
  <2>3. QED BY <1>1, <1>2, <1>4, <2>1, <2>2 DEF PlacedRow, m
<1>5. CASE s \in Pool(q)
  <2>1. s \in DOMAIN at /\ at[s] \in DayReps \cup {NoRep} /\ (at[s] = NoRep \/ at[s] \in ActiveReps(q))
    BY <1>5, PlacedSomewhere
  <2>2. CASE at[s] = NoRep
    <3>1. m = [r EXCEPT !.status = "deviated"]
      BY <1>2, <1>3, <1>5, <2>1, <2>2
    <3>2. m \in Row /\ m.started = r.started /\ m.who = r.who /\ m.status = "deviated"
      BY <1>1, <3>1 DEF Row
    <3>3. QED BY <1>1, <1>2, <1>5, <2>2, <3>2 DEF PlacedRow, m
  <2>3. CASE at[s] # NoRep /\ at[s] = r.who
    <3>1. m = r
      BY <1>3, <2>1, <2>3
    <3>2. QED BY <1>1, <1>2, <1>5, <2>1, <2>3, <3>1 DEF PlacedRow, m
  <2>4. CASE at[s] # NoRep /\ at[s] # r.who
    <3>1. m = [r EXCEPT !.who = at[s], !.order = AtEnd]
      BY <1>3, <2>1, <2>4
    <3>2. m \in Row /\ m.started = r.started /\ m.who = at[s]
      <4>1. AtEnd \in Nat
        BY DEF AtEnd
      <4> DEFINE v == at[s]
      <4>2. v \in DayReps \cup {NoRep} /\ m = [r EXCEPT !.who = v, !.order = AtEnd]
        BY <2>1, <3>1
      <4> HIDE DEF v
      <4>3. m \in Row /\ m.started = r.started /\ m.who = v
        BY <1>1, <4>1, <4>2 DEF Row
      <4>4. QED BY <4>3 DEF v
    <3>3. QED BY <1>1, <1>5, <2>1, <2>4, <3>2 DEF PlacedRow, m
  <2>5. QED BY <2>2, <2>3, <2>4
<1>6. QED BY <1>4, <1>5

LEMMA WrittenRows ==
  ASSUME DayInv, NEW q \in Requests, req[q].pc = "placing", NEW at \in Placements(q),
         NEW order \in Orders(Moved(q, at), Touched(q, at)),
         row' = Updated(q, Renumber(Moved(q, at), order)), NEW s \in Rows
  PROVE  PlacedRow(q, at, s, row'[s])
<1> DEFINE M == Moved(q, at)
           R == Renumber(M, order)
<1>1. Day(q) = row /\ row[s] \in Row
  BY DEF DayInv, DayTypeOK, Loaded, Day
<1>2. PlacedRow(q, at, s, M[s])
  BY MovedRows
<1> HIDE DEF M
<1>3. R[s] = M[s] \/ \E n \in Nat : R[s] = [M[s] EXCEPT !.order = n]
  <2>1. CASE M[s].who \in DOMAIN order /\ s \in Sequenced(M, M[s].who)
    <3>1. order[M[s].who] \in Numberings(Sequenced(M, M[s].who))
      BY <2>1 DEF Orders, M
    <3>2. Sequenced(M, M[s].who) \in SUBSET Rows
      BY DEF Sequenced, OfRep, Exists
    <3>3. order[M[s].who][s] \in Nat
      BY <3>1, <3>2, Numbered
    <3>4. R[s] = [M[s] EXCEPT !.order = order[M[s].who][s]]
      BY <2>1 DEF Renumber
    <3>5. QED BY <3>3, <3>4
  <2>2. CASE ~(M[s].who \in DOMAIN order /\ s \in Sequenced(M, M[s].who))
    BY <2>2 DEF Renumber
  <2>3. QED BY <2>1, <2>2
<1>4. R[s] \in Row /\ R[s].who = M[s].who /\ R[s].status = M[s].status /\ R[s].started = row[s].started
  <2> HIDE DEF R
  <2>1. QED BY <1>2, <1>3 DEF PlacedRow, Row
<1>5. row'[s] = IF R[s] = row[s] THEN row[s] ELSE [R[s] EXCEPT !.started = row[s].started]
  BY <1>1 DEF Updated, M
<1> HIDE DEF R
<1>6. row'[s] \in Row /\ row'[s].who = M[s].who /\ row'[s].status = M[s].status /\ row'[s].started = row[s].started
  BY <1>1, <1>4, <1>5 DEF Row
<1>7. QED BY <1>2, <1>6 DEF PlacedRow

LEMMA ReoptWriteStep ==
  ASSUME DayInv, NEW q \in Requests, ReoptWrite(q)
  PROVE  DayInv'
<1>1. PICK at \in Placements(q) : \E order \in Orders(Moved(q, at), Touched(q, at)) :
        row' = Updated(q, Renumber(Moved(q, at), order))
  BY DEF ReoptWrite
<1>2. req[q].pc = "placing" /\ req' = [req EXCEPT ![q] = Ended("done")] /\ inForce' = inForce
  BY DEF ReoptWrite
<1>3. \A s \in Rows : PlacedRow(q, at, s, row'[s])
  BY <1>1, <1>2, WrittenRows
<1>4. row' \in [Rows -> Row]
  BY <1>1, <1>3 DEF Updated, PlacedRow
<1>5. \A s \in Exists(row) : row'[s].who # NoRep
  BY <1>3 DEF PlacedRow, Exists
<1>6. \A p \in Requests \ {q} : req[p].pc # "placing"
  BY <1>2 DEF DayInv, DayTypeOK, Loaded
<1>7. ASSUME NEW p \in Requests \ {q}, req[p].kind = "urgent" PROVE row'[Urgent].who = NoRep
  <2>1. Urgent \notin Exists(row) /\ req[q].kind # "urgent" /\ Urgent \in Rows /\ req[q].day = row
    BY <1>2, <1>7 DEF DayInv, UrgentOnce, Loaded, Rows
  <2>2. Urgent \notin Pool(q)
    BY <2>1 DEF Pool, Adds, Released, Day
  <2>3. row[Urgent].who = NoRep
    BY <2>1 DEF Exists
  <2>4. QED BY <1>3, <2>1, <2>2, <2>3 DEF PlacedRow
<1>8. req' \in [Requests -> Req] /\ \A p \in Requests : req'[p] = IF p \in {q} THEN Ended("done") ELSE req[p]
  BY <1>2, EndedFits DEF DayInv, DayTypeOK
<1> HIDE DEF Ended
<1>9. QED BY <1>2, <1>4, <1>5, <1>6, <1>7, <1>8, RowsStep

-----------------------------------------------------------------------------
(* The other steps that write rows. *)
LEMMA UpdateStep ==
  ASSUME DayInv, NEW q \in Requests, StartWrite(q) \/ DeviateWrite(q)
  PROVE  DayInv'
<1> DEFINE s == req[q].stop
<1>1. /\ s \in Exists(row) /\ s \in Rows /\ row \in [Rows -> Row] /\ Unlocked(q, s)
      /\ req' = [req EXCEPT ![q] = Ended("done")] /\ inForce' = inForce
  BY DEF DayInv, DayTypeOK, OnRows, StartWrite, DeviateWrite, Exists
<1>2. row' \in [Rows -> Row] /\ \A t \in Rows : row'[t].who = row[t].who
  <2>1. CASE StartWrite(q)
    <3>1. row' = [row EXCEPT ![s] = [row[s] EXCEPT !.started = TRUE]]
      BY <1>1, <2>1 DEF StartWrite
    <3> HIDE DEF s
    <3>2. [row[s] EXCEPT !.started = TRUE] \in Row /\ [row[s] EXCEPT !.started = TRUE].who = row[s].who
      BY <1>1 DEF Row
    <3>3. QED BY <1>1, <3>1, <3>2
  <2>2. CASE DeviateWrite(q)
    <3>1. row' = [row EXCEPT ![s] = [row[s] EXCEPT !.status = "skipped"]]
      BY <1>1, <2>2 DEF DeviateWrite
    <3> HIDE DEF s
    <3>2. [row[s] EXCEPT !.status = "skipped"] \in Row /\ [row[s] EXCEPT !.status = "skipped"].who = row[s].who
      BY <1>1 DEF Row
    <3>3. QED BY <1>1, <3>1, <3>2
  <2>3. QED BY <2>1, <2>2
<1>3. \A p \in Requests \ {q} : req[p].pc # "placing"
  BY <1>1 DEF DayInv, Loaded, Unlocked
<1>4. req' \in [Requests -> Req] /\ \A p \in Requests : req'[p] = IF p \in {q} THEN Ended("done") ELSE req[p]
  BY <1>1, EndedFits DEF DayInv, DayTypeOK
<1>5. /\ \A t \in Exists(row) : row'[t].who # NoRep
      /\ \A p \in Requests \ {q} : req[p].kind = "urgent" => row'[Urgent].who = NoRep
  BY <1>2 DEF DayInv, UrgentOnce, Exists, Rows
<1> HIDE DEF Ended
<1>6. QED BY <1>1, <1>2, <1>3, <1>4, <1>5, RowsStep

LEMMA CommitStep ==
  ASSUME DayInv, NEW q \in Requests, ReassignCommit(q)
  PROVE  DayInv'
<1>1. row' = View(q) /\ req' = [req EXCEPT ![q] = Ended("done")] /\ inForce' = inForce
  BY DEF ReassignCommit
<1>2. /\ row' \in [Rows -> Row]
      /\ \A s \in Exists(row) : row'[s].who \in DayReps /\ row'[s].who # NoRep
      /\ \A s \in Rows : s \notin Exists(req[q].writes) => row'[s] = row[s]
  BY <1>1, ViewTyped, DayIds DEF Exists
<1>3. Exists(req[q].writes) \subseteq req[q].held /\ req[q].held \subseteq Exists(row) /\ row \in [Rows -> Row]
  BY DEF DayInv, DayTypeOK, OnRows
<1>4. ASSUME NEW p \in Requests \ {q}, req[p].pc = "placing" PROVE row' = row
  <2>1. req[p].held = Exists(row) /\ req[p].held \cap req[q].held = {}
    BY <1>4 DEF DayInv, DayTypeOK, Loaded
  <2>2. Exists(req[q].writes) = {}
    BY <1>3, <2>1
  <2>3. QED BY <1>2, <1>3, <2>2
<1>5. ASSUME NEW p \in Requests \ {q}, req[p].kind = "urgent" PROVE row'[Urgent].who = NoRep
  <2>1. Urgent \notin Exists(row) /\ Urgent \in Rows
    BY <1>5 DEF DayInv, UrgentOnce, Rows
  <2>2. QED BY <1>2, <1>3, <2>1 DEF Exists
<1>6. req' \in [Requests -> Req] /\ \A p \in Requests : req'[p] = IF p \in {q} THEN Ended("done") ELSE req[p]
  BY <1>1, EndedFits DEF DayInv, DayTypeOK
<1> HIDE DEF Ended
<1>7. QED BY <1>1, <1>2, <1>4, <1>5, <1>6, RowsStep

LEMMA PlanStep ==
  ASSUME DayInv, Archive \/ Reschedule
  PROVE  DayInv'
<1>1. CASE Archive
  BY <1>1 DEF Archive, DayInv, DayTypeOK, OnRows, Loaded, UrgentOnce, Exists, ToNumber
<1>2. CASE Reschedule
  <2>1. /\ req' = req /\ inForce' = inForce /\ row \in [Rows -> Row]
        /\ row' = [s \in Rows |-> IF s \in Exists(row) /\ row[s].status = "planned"
                                     THEN [row[s] EXCEPT !.status = "rescheduled"] ELSE row[s]]
    BY <1>2 DEF Reschedule, DayInv, DayTypeOK
  <2>2. \A s \in Rows : row'[s] \in Row /\ row'[s].who = row[s].who
    BY <2>1 DEF Row
  <2>3. row' \in [Rows -> Row]
    BY <2>1, <2>2
  <2>4. \A p \in Requests : req[p].pc # "placing"
    BY <1>2 DEF Reschedule, DayInv, Loaded
  <2>5. req' \in [Requests -> Req] /\ \A p \in Requests : req'[p] = req[p]
    BY <2>1 DEF DayInv, DayTypeOK
  <2>6. /\ \A t \in Exists(row) : row'[t].who # NoRep
        /\ \A p \in Requests : req[p].kind = "urgent" => row'[Urgent].who = NoRep
    BY <2>2 DEF DayInv, UrgentOnce, Exists, Rows
  <2> DEFINE Q == {}
  <2>7. Q \in SUBSET Requests /\ \A p \in Requests : p \notin Q
    OBVIOUS
  <2> HIDE DEF Q
  <2>8. QED BY <2>1, <2>3, <2>4, <2>5, <2>6, <2>7, RowsStep
<1>3. QED BY <1>1, <1>2

-----------------------------------------------------------------------------
LEMMA DayInvStep == DayInv /\ [DayNext]_dayVars => DayInv'
<1> SUFFICES ASSUME DayInv, [DayNext]_dayVars PROVE DayInv'
  OBVIOUS
<1>1. ASSUME NEW q \in Requests,
             \/ \E s \in Rows : StartRead(q, s) \/ DeviateRead(q, s) \/ \E r \in DayReps : ReassignStopRead(q, s, r)
             \/ \E r \in DayReps : ResequenceAsk(q, r)
             \/ \E k \in Reopts, r \in DayReps \cup {NoRep} : ReoptAsk(q, k, r)
      PROVE  DayInv'
  BY <1>1, BeginStep
<1>2. ASSUME NEW q \in Requests, StartWrite(q) \/ DeviateWrite(q) PROVE DayInv'
  BY <1>2, UpdateStep
<1>3. ASSUME NEW q \in Requests,
             \/ ResequenceOnly(q) \/ ReassignMove(q)
             \/ ResequenceRead(q) \/ ResequenceRow(q) \/ ResequenceEnd(q)
      PROVE  DayInv'
  BY <1>3, ResequenceStep
<1>4. ASSUME NEW q \in Requests, ReassignCommit(q) PROVE DayInv'
  BY <1>4, CommitStep
<1>5. ASSUME NEW q \in Requests, ReoptLockPlan(q) \/ ReoptLockRow(q) \/ ReoptLoad(q) \/ DeadlockVictim(q)
      PROVE  DayInv'
  BY <1>5, LockStep
<1>6. ASSUME NEW q \in Requests, ReoptWrite(q) PROVE DayInv'
  BY <1>6, ReoptWriteStep
<1>7. CASE Archive \/ Reschedule
  BY <1>7, PlanStep
<1>8. CASE UNCHANGED dayVars
  BY <1>8 DEF dayVars, DayInv, DayTypeOK, OnRows, Loaded, UrgentOnce, Exists, ToNumber
<1>9. QED BY <1>1, <1>2, <1>3, <1>4, <1>5, <1>6, <1>7, <1>8 DEF DayNext

LEMMA DayInvAlways == DaySpec => []DayInv
BY DayInvInit, DayInvStep, PTL DEF DaySpec

(* Only the reoptimization's own write commits it. *)
LEMMA CommitIsWrite ==
  ASSUME DayInv, [DayNext]_dayVars, NEW q \in Requests, ReoptCommits(q)
  PROVE  ReoptWrite(q)
<1>1. req[q].pc = "placing" /\ req'[q].pc = "done" /\ DOMAIN req = Requests /\ req[q] \in Req
  BY DEF ReoptCommits, DayInv, DayTypeOK
<1>2. req'[q] # req[q]
  BY <1>1
<1>3. ~(UNCHANGED dayVars \/ Archive \/ Reschedule)
  BY <1>2 DEF dayVars, Archive, Reschedule
<1>4. PICK p \in Requests :
        \/ \E s \in Rows : StartRead(p, s) \/ DeviateRead(p, s) \/ \E r \in DayReps : ReassignStopRead(p, s, r)
        \/ \E r \in DayReps : ResequenceAsk(p, r)
        \/ \E k \in Reopts, r \in DayReps \cup {NoRep} : ReoptAsk(p, k, r)
        \/ StartWrite(p) \/ DeviateWrite(p)
        \/ ResequenceOnly(p) \/ ReassignMove(p)
        \/ ResequenceRead(p) \/ ResequenceRow(p) \/ ResequenceEnd(p) \/ ReassignCommit(p)
        \/ ReoptLockPlan(p) \/ ReoptLockRow(p) \/ ReoptLoad(p) \/ ReoptWrite(p)
        \/ DeadlockVictim(p)
  BY <1>3 DEF DayNext
<1>5. \E x : req' = [req EXCEPT ![p] = x]
  <2>1. ASSUME NEW s, NEW k, NEW r, Ask(p, k, s, r) PROVE \E x : req' = [req EXCEPT ![p] = x]
    BY <2>1 DEF Ask
  <2>2. CASE \/ \E s \in Rows : StartRead(p, s) \/ DeviateRead(p, s) \/ \E r \in DayReps : ReassignStopRead(p, s, r)
             \/ \E r \in DayReps : ResequenceAsk(p, r)
             \/ \E k \in Reopts, r \in DayReps \cup {NoRep} : ReoptAsk(p, k, r)
    BY <2>1, <2>2 DEF StartRead, DeviateRead, ReassignStopRead, ResequenceAsk, ReoptAsk
  <2>3. CASE StartWrite(p) \/ DeviateWrite(p) \/ ReassignCommit(p) \/ ReoptWrite(p) \/ DeadlockVictim(p)
    BY <2>3 DEF StartWrite, DeviateWrite, ReassignCommit, ReoptWrite, DeadlockVictim
  <2>4. CASE ReassignMove(p) \/ ResequenceOnly(p)
    BY <2>4 DEF ReassignMove, ResequenceOnly
  <2>5. CASE ResequenceRead(p)
    BY <2>5 DEF ResequenceRead
  <2>6. CASE ResequenceRow(p)
    BY <2>6 DEF ResequenceRow
  <2>7. CASE ResequenceEnd(p) \/ ReoptLockRow(p) \/ ReoptLoad(p)
    BY <2>7 DEF ResequenceEnd, ReoptLockRow, ReoptLoad
  <2>8. CASE ReoptLockPlan(p)
    BY <2>8 DEF ReoptLockPlan
  <2>9. QED BY <1>4, <2>2, <2>3, <2>4, <2>5, <2>6, <2>7, <2>8
<1>6. p = q
  BY <1>1, <1>2, <1>5
<1>7. CASE \/ \E s \in Rows : StartRead(p, s) \/ DeviateRead(p, s) \/ \E r \in DayReps : ReassignStopRead(p, s, r)
           \/ \E r \in DayReps : ResequenceAsk(p, r)
           \/ \E k \in Reopts, r \in DayReps \cup {NoRep} : ReoptAsk(p, k, r)
  BY <1>1, <1>6, <1>7 DEF StartRead, DeviateRead, ReassignStopRead, ResequenceAsk, ReoptAsk, Ask
<1>8. CASE \/ StartWrite(p) \/ DeviateWrite(p) \/ ResequenceOnly(p) \/ ReassignMove(p) \/ ResequenceRead(p) \/ ResequenceRow(p)
           \/ ResequenceEnd(p) \/ ReassignCommit(p) \/ ReoptLockPlan(p) \/ ReoptLockRow(p) \/ ReoptLoad(p)
  BY <1>1, <1>6, <1>8 DEF StartWrite, DeviateWrite, ResequenceOnly, ReassignMove, ResequenceRead, ResequenceRow, ResequenceEnd,
       ReassignCommit, ReoptLockPlan, ReoptLockRow, ReoptLoad
<1>9. CASE DeadlockVictim(p)
  <2>1. req'[q].pc = "failed"
    BY <1>1, <1>6, <1>9, EndedFits DEF DeadlockVictim
  <2>2. QED BY <1>1, <2>1
<1>10. QED BY <1>4, <1>6, <1>7, <1>8, <1>9

(* What the write of a reoptimization leaves. *)
LEMMA CommitLeaves ==
  ASSUME DayInv, NEW q \in Requests, ReoptWrite(q)
  PROVE  /\ inForce /\ Day(q) = row
         /\ \E at : \A s \in Rows : PlacedRow(q, at, s, row'[s])
<1>1. PICK at \in Placements(q) : \E order \in Orders(Moved(q, at), Touched(q, at)) :
        row' = Updated(q, Renumber(Moved(q, at), order))
  BY DEF ReoptWrite
<1>2. req[q].pc = "placing"
  BY DEF ReoptWrite
<1>3. \A s \in Rows : PlacedRow(q, at, s, row'[s])
  BY <1>1, <1>2, WrittenRows
<1>4. QED BY <1>2, <1>3 DEF DayInv, Loaded, Day

(* The rows, the requests and their locks keep their types, and no two     *)
(* transactions hold one lock.                                             *)
THEOREM DayTyped == DaySpec => []DayTypeOK
<1>1. DayInv => DayTypeOK
  BY DEF DayInv
<1>2. QED BY <1>1, DayInvAlways, PTL

(* A reoptimization commits while its plan is in force, and leaves alone   *)
(* the started stops and the next SoftN of each rep that works.            *)
THEOREM ReoptRespectsLocks == DaySpec => LocksRespected
<1>1. DayInv /\ [DayNext]_dayVars => \A q \in Requests : ReoptCommits(q) => LocksKept(q)
  <2> SUFFICES ASSUME DayInv, [DayNext]_dayVars, NEW q \in Requests, ReoptCommits(q) PROVE LocksKept(q)
    OBVIOUS
  <2>1. ReoptWrite(q)
    BY CommitIsWrite
  <2>2. inForce /\ Day(q) = row
    BY <2>1, CommitLeaves
  <2>3. PICK at : \A s \in Rows : PlacedRow(q, at, s, row'[s])
    BY <2>1, CommitLeaves
  <2>4. ASSUME NEW s \in Exists(row), Hard(row, s) \/ (Soft(row, s) /\ row[s].who # Broken(q))
        PROVE  /\ row'[s].who = row[s].who /\ row'[s].status = row[s].status
               /\ row'[s].started = row[s].started
    <3>1. s \in Rows /\ Kept(q, s)
      BY <2>2, <2>4 DEF Kept, Exists
    <3>2. s \notin Adds(q)
      BY <2>4 DEF Adds, DayInv, UrgentOnce
    <3>3. s \notin Pool(q)
      BY <3>1, <3>2 DEF Pool, Released
    <3>4. QED BY <2>3, <3>1, <3>3 DEF PlacedRow
  <2>5. QED BY <2>2, <2>4 DEF LocksKept
<1>2. QED BY <1>1, DayInvAlways, PTL DEF DaySpec, LocksRespected

(* After a breakdown nothing that can still be visited and placed is left  *)
(* with the rep that broke down.                                           *)
THEOREM BrokenRepIsFreed == DaySpec => BrokenRepFreed
<1>1. DayInv /\ [DayNext]_dayVars => \A q \in Requests : ReoptCommits(q) => Freed(q)
  <2> SUFFICES ASSUME DayInv, [DayNext]_dayVars, NEW q \in Requests, ReoptCommits(q), Broken(q) # NoRep,
                      NEW s \in OfRep(row', Broken(q)) \cap Located
               PROVE  row'[s].started \/ row'[s].status = "deviated"
    BY DEF Freed
  <2>1. ReoptWrite(q)
    BY CommitIsWrite
  <2>2. Day(q) = row
    BY <2>1, CommitLeaves
  <2>3. PICK at : \A t \in Rows : PlacedRow(q, at, t, row'[t])
    BY <2>1, CommitLeaves
  <2>4. req[q].kind = "breakdown" /\ s \in Rows /\ s \in Located /\ row'[s].who = Broken(q)
    BY DEF Broken, OfRep, Exists
  <2>5. CASE s \in Pool(q)
    <3>1. Broken(q) \notin ActiveReps(q)
      BY DEF ActiveReps
    <3>2. QED BY <2>3, <2>4, <2>5, <3>1 DEF PlacedRow
  <2>6. CASE s \notin Pool(q)
    <3>1. row[s].who = Broken(q) /\ s \in Exists(row) /\ row'[s].started = row[s].started
      BY <2>3, <2>4, <2>6 DEF PlacedRow, Exists
    <3>2. Kept(q, s)
      BY <2>2, <2>4, <2>6, <3>1 DEF Pool, Released
    <3>3. QED BY <2>2, <3>1, <3>2 DEF Kept, Hard
  <2>7. QED BY <2>5, <2>6
<1>2. QED BY <1>1, DayInvAlways, PTL DEF DaySpec, BrokenRepFreed
=============================================================================
