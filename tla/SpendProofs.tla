----------------------------- MODULE SpendProofs -----------------------------
(***************************************************************************)
(* The two cost guards: that the daily guard bounds what it lets through,  *)
(* and that the monthly ledger adds up to the price of what it has booked, *)
(* for any calls, costs, tiers, budget and calendar.  And the matrix: that *)
(* each pair of points gets a figure of its own, and that estimates stay   *)
(* apart from what Google answered, for any points, cells and queries.     *)
(***************************************************************************)
EXTENDS RoutesBudget, OptimizationSpend, MatrixCache, FiniteInduction, TLAPS

\* A call that holds the lock and has read the row of day d.
Reader(c, d) == call[c].pc = "read" /\ call[c].row = d

\* ... and is going to be let through.
Passing(c, d) == Reader(c, d) /\ Affordable(c)

\* The row is that of the day of the key or of the one after it.
KeyNearRow ==
  \A c \in Calls :
    /\ call[c].pc = "keyed" => /\ call[c].cost \in Costs
                               /\ call[c].key \in Days /\ call[c].key <= day
    /\ call[c].pc \in {"begun", "read"} =>
         /\ call[c].row \in Days
         /\ call[c].cost \in Costs
         /\ call[c].key \in {call[c].row - 1, call[c].row}

\* A call that has been made to Google can be settled.
Settling ==
  \A c \in Calls :
    /\ call[c].pc \in {"reserved", "answered", "settle_keyed"} =>
         call[c].cost \in Costs
    /\ call[c].pc = "settle_begun" => call[c].cost \in Costs /\ call[c].row \in Days

\* Two calls that read under one key are one: a row has two readers at most.
LockExclusive ==
  \A c, e \in Calls :
    call[c].pc = "read" /\ call[e].pc = "read" /\ call[c].key = call[e].key => c = e

\* The row never shows less than what was let through.
SpendCovers == \A d \in Days : granted[d] <= spend[d]

\* Even with what the readers in flight are about to add.
RoomLeft ==
  \A d \in Days :
    /\ granted[d] <= Budget + MaxCost
    /\ \A c \in Calls : Passing(c, d) =>
         granted[d] + call[c].cost <= Budget + MaxCost
    /\ \A c, e \in Calls : Passing(c, d) /\ Passing(e, d) /\ c # e =>
         granted[d] + call[c].cost + call[e].cost <= Budget + MaxCost

\* Until a straggler adds to a row, a reader under its own key knows it.
CleanDay ==
  \A d \in Days : ~late[d] =>
    /\ granted[d] <= Budget
    /\ \A c \in Calls : Reader(c, d) /\ call[c].key = d => granted[d] <= call[c].read

IInv == TypeOK /\ KeyNearRow /\ Settling /\ LockExclusive /\ SpendCovers
        /\ RoomLeft /\ CleanDay

-----------------------------------------------------------------------------
LEMMA InitIInv == Init => IInv
<1> SUFFICES ASSUME Init PROVE IInv
    OBVIOUS
<1> USE CostAssumption, DayAssumption DEF Init, NotMade, Days
<1>1. TypeOK
      BY DEF TypeOK, Call
<1>2. KeyNearRow /\ Settling /\ LockExclusive
      BY DEF KeyNearRow, Settling, LockExclusive
<1>3. SpendCovers
      BY DEF SpendCovers
<1>4. RoomLeft
      BY DEF RoomLeft, Passing, Reader
<1>5. CleanDay
      BY DEF CleanDay, Reader
<1> QED BY <1>1, <1>2, <1>3, <1>4, <1>5 DEF IInv

\* Steps that leave the rows alone and add no reader: whatever the call record
\* becomes, a call that reads now was reading then, and has not changed.
LEMMA NoNewReader ==
  ASSUME IInv, UNCHANGED <<spend, granted, late>>,
         \A e \in Calls : call'[e].pc = "read" => call'[e] = call[e]
  PROVE  LockExclusive' /\ SpendCovers' /\ RoomLeft' /\ CleanDay'
<1>1. LockExclusive'
      BY DEF IInv, LockExclusive
<1>2. SpendCovers'
      BY DEF IInv, SpendCovers
<1>3. RoomLeft'
      BY DEF IInv, RoomLeft, Passing, Reader, Affordable
<1>4. CleanDay'
      BY DEF IInv, CleanDay, Reader
<1> QED BY <1>1, <1>2, <1>3, <1>4

LEMMA ReadStep ==
  ASSUME IInv, NEW c \in Calls, ReserveRead(c)
  PROVE  IInv'
<1> USE CostAssumption DEF IInv
<1> DEFINE r == call[c].row
           x == [call[c] EXCEPT !.pc = "read", !.read = spend[r]]
<1>1. /\ call[c] \in Call /\ call[c].pc = "begun"
      /\ r \in Days /\ call[c].cost \in Costs /\ call[c].key \in {r - 1, r}
      BY DEF ReserveRead, TypeOK, KeyNearRow
<1>2. spend[r] \in Nat /\ granted[r] \in Nat /\ granted[r] <= spend[r]
      BY <1>1 DEF TypeOK, SpendCovers
<1>3. /\ x \in Call /\ x.pc = "read" /\ x.row = r /\ x.cost = call[c].cost
      /\ x.key = call[c].key /\ x.read = spend[r]
      BY <1>1, <1>2 DEF Call
<1>4. /\ call' = [call EXCEPT ![c] = x]
      /\ UNCHANGED <<day, spend, rejected, granted, late>>
      BY DEF ReserveRead
<1> HIDE DEF x
<1>5. /\ call'[c] = x
      /\ \A e \in Calls \ {c} : call'[e] = call[e]
      BY <1>4 DEF TypeOK
<1>6. TypeOK'
      BY <1>3, <1>4 DEF TypeOK
<1>7. KeyNearRow' /\ Settling'
      BY <1>1, <1>3, <1>4, <1>5 DEF KeyNearRow, Settling
<1>8. LockExclusive'
      BY <1>3, <1>5 DEF LockExclusive, ReserveRead, KeyFree
<1>9. SpendCovers'
      BY <1>4 DEF SpendCovers
<1>10. RoomLeft'
  <2> SUFFICES ASSUME NEW d \in Days PROVE
        /\ granted[d] <= Budget + MaxCost
        /\ \A e \in Calls : Passing(e, d)' =>
             granted[d] + call'[e].cost <= Budget + MaxCost
        /\ \A e, f \in Calls : Passing(e, d)' /\ Passing(f, d)' /\ e # f =>
             granted[d] + call'[e].cost + call'[f].cost <= Budget + MaxCost
      BY <1>4 DEF RoomLeft
  <2>1. \A e \in Calls \ {c} : Passing(e, d)' <=> Passing(e, d)
        BY <1>5 DEF Passing, Reader, Affordable
  <2>2. Passing(c, d)' => d = r /\ granted[d] + call[c].cost <= Budget
    <3>1. Passing(c, d)' => x.row = d /\ x.read + x.cost <= Budget
          BY <1>5 DEF Passing, Reader, Affordable
    <3>2. call[c].cost \in Nat /\ Budget \in Nat
          BY <1>1
    <3> QED BY <1>2, <1>3, <3>1, <3>2
  <2>3. \A e \in Calls \ {c} : Passing(e, d)' =>
          /\ call'[e].cost = call[e].cost
          /\ call[e].cost \in Nat /\ call[e].cost <= MaxCost
        BY <1>5 DEF Passing, Reader, KeyNearRow
  <2>4. call'[c].cost = call[c].cost /\ call[c].cost \in Nat /\ granted[d] \in Nat
        BY <1>1, <1>3, <1>5 DEF TypeOK
  <2>5. granted[d] <= Budget + MaxCost
        BY DEF RoomLeft
  <2>6. ASSUME NEW e \in Calls, Passing(e, d)'
        PROVE  granted[d] + call'[e].cost <= Budget + MaxCost
        BY <2>1, <2>2, <2>3, <2>4, <2>6 DEF RoomLeft
  <2>7. ASSUME NEW e \in Calls, NEW f \in Calls,
               Passing(e, d)', Passing(f, d)', e # f
        PROVE  granted[d] + call'[e].cost + call'[f].cost <= Budget + MaxCost
    <3>1. CASE e = c
          BY <3>1, <2>2, <2>3, <2>4, <2>7
    <3>2. CASE f = c
          BY <3>2, <2>2, <2>3, <2>4, <2>7
    <3>3. CASE e # c /\ f # c
          BY <3>3, <2>1, <2>3, <2>7 DEF RoomLeft
    <3> QED BY <3>1, <3>2, <3>3
  <2> QED BY <2>5, <2>6, <2>7
<1>11. CleanDay'
       BY <1>2, <1>3, <1>4, <1>5 DEF CleanDay, Reader
<1> QED BY <1>6, <1>7, <1>8, <1>9, <1>10, <1>11

LEMMA ReserveStep ==
  ASSUME IInv, NEW c \in Calls, Reserve(c)
  PROVE  IInv'
<1> USE CostAssumption DEF IInv
<1> DEFINE r == call[c].row
           k == call[c].cost
           x == [call[c] EXCEPT !.pc = "reserved", !.reservedOn = r]
<1>1. /\ call[c] \in Call /\ r \in Days /\ k \in Costs /\ k \in Nat /\ k <= MaxCost
      /\ call[c].key \in {r - 1, r}
      BY DEF Reserve, TypeOK, KeyNearRow
<1>2. Passing(c, r)
      BY DEF Reserve, Passing, Reader
<1>3. x \in Call /\ x.pc = "reserved" /\ x.cost = k
      BY <1>1 DEF Call
<1>4. /\ call' = [call EXCEPT ![c] = x]
      /\ spend' = [spend EXCEPT ![r] = @ + k]
      /\ granted' = [granted EXCEPT ![r] = @ + k]
      /\ late' = [late EXCEPT ![r] = @ \/ call[c].key # r]
      /\ UNCHANGED <<day, rejected>>
      BY DEF Reserve, Reserved
<1> HIDE DEF x
<1>5. /\ call'[c] = x
      /\ \A e \in Calls \ {c} : call'[e] = call[e]
      BY <1>4 DEF TypeOK
<1>6. TypeOK'
      BY <1>1, <1>3, <1>4 DEF TypeOK
<1>7. KeyNearRow' /\ Settling'
      BY <1>1, <1>3, <1>4, <1>5 DEF KeyNearRow, Settling
<1>8. LockExclusive'
      BY <1>3, <1>5 DEF LockExclusive
<1>9. SpendCovers'
      BY <1>1, <1>4 DEF SpendCovers, TypeOK
<1>10. \A e \in Calls, d \in Days : Passing(e, d)' =>
         e # c /\ Passing(e, d) /\ call'[e] = call[e]
       BY <1>3, <1>5 DEF Passing, Reader, Affordable
<1>11. \A d \in Days \ {r} : granted'[d] = granted[d]
       BY <1>4 DEF TypeOK
<1>12. granted'[r] = granted[r] + k /\ granted[r] \in Nat
       BY <1>1, <1>4 DEF TypeOK
<1>13. RoomLeft'
  <2> SUFFICES ASSUME NEW d \in Days PROVE
        /\ granted'[d] <= Budget + MaxCost
        /\ \A e \in Calls : Passing(e, d)' =>
             granted'[d] + call'[e].cost <= Budget + MaxCost
        /\ \A e, f \in Calls : Passing(e, d)' /\ Passing(f, d)' /\ e # f =>
             granted'[d] + call'[e].cost + call'[f].cost <= Budget + MaxCost
      BY DEF RoomLeft
  <2>1. CASE d # r
        BY <2>1, <1>10, <1>11 DEF RoomLeft
  <2>2. CASE d = r
    <3>1. granted'[r] <= Budget + MaxCost
          BY <1>1, <1>2, <1>12 DEF RoomLeft
    <3>2. ASSUME NEW e \in Calls, Passing(e, d)'
          PROVE  granted'[r] + call'[e].cost <= Budget + MaxCost
      <4>1. e # c /\ Passing(e, r) /\ call'[e].cost = call[e].cost
            BY <2>2, <1>10, <3>2
      <4>2. granted[r] + k + call[e].cost <= Budget + MaxCost
            BY <1>1, <1>2, <4>1 DEF RoomLeft
      <4> QED BY <1>12, <4>1, <4>2
    <3>3. ASSUME NEW e \in Calls, NEW f \in Calls,
                 Passing(e, d)', Passing(f, d)', e # f
          PROVE  FALSE
      <4>1. e # c /\ f # c /\ Passing(e, r) /\ Passing(f, r)
            BY <2>2, <1>10, <3>3
      <4>2. \A g \in {c, e, f} : call[g].pc = "read" /\ call[g].key \in {r - 1, r}
            BY <1>2, <4>1 DEF Passing, Reader, KeyNearRow
      <4> QED BY <3>3, <4>1, <4>2 DEF LockExclusive
    <3> QED BY <2>2, <3>1, <3>2, <3>3
  <2> QED BY <2>1, <2>2
<1>14. CleanDay'
  <2> SUFFICES ASSUME NEW d \in Days, ~late'[d] PROVE
        /\ granted'[d] <= Budget
        /\ \A e \in Calls : Reader(e, d)' /\ call'[e].key = d =>
             granted'[d] <= call'[e].read
      BY DEF CleanDay
  <2>1. \A e \in Calls : Reader(e, d)' => e # c /\ Reader(e, d) /\ call'[e] = call[e]
        BY <1>3, <1>5 DEF Reader
  <2>2. CASE d # r
    <3>1. ~late[d]
          BY <2>2, <1>4 DEF TypeOK
    <3> QED BY <2>1, <2>2, <3>1, <1>11 DEF CleanDay
  <2>3. CASE d = r
    <3>1. ~late[r] /\ call[c].key = r
          BY <2>3, <1>1, <1>4 DEF TypeOK
    <3>2. granted[r] <= call[c].read /\ call[c].read \in Nat
          BY <1>1, <1>2, <3>1 DEF CleanDay, Passing, Call
    <3>3. call[c].read + k <= Budget
          BY <1>2 DEF Passing, Affordable
    <3>4. granted'[r] <= Budget
          BY <1>1, <1>12, <3>2, <3>3
    <3>5. \A e \in Calls : Reader(e, r) /\ call[e].key = r => e = c
          BY <1>2, <3>1 DEF LockExclusive, Passing, Reader
    <3> QED BY <2>1, <2>3, <3>4, <3>5
  <2> QED BY <2>2, <2>3
<1> QED BY <1>6, <1>7, <1>8, <1>9, <1>13, <1>14

LEMMA SettleStep ==
  ASSUME IInv, NEW c \in Calls, Settle(c)
  PROVE  IInv'
<1> USE CostAssumption DEF IInv
<1> DEFINE r == call[c].row
           k == call[c].cost
           x == [call[c] EXCEPT !.pc = "done", !.settledOn = r]
<1>1. call[c] \in Call /\ r \in Days /\ k \in Nat
      BY DEF Settle, TypeOK, Settling
<1>2. x \in Call /\ x.pc = "done"
      BY <1>1 DEF Call
<1>3. /\ call' = [call EXCEPT ![c] = x]
      /\ spend' = [spend EXCEPT ![r] = @ + k]
      /\ UNCHANGED <<day, rejected, granted, late>>
      BY DEF Settle, Delta
<1> HIDE DEF x
<1>4. /\ call'[c] = x
      /\ \A e \in Calls \ {c} : call'[e] = call[e]
      BY <1>3 DEF TypeOK
<1>5. TypeOK'
      BY <1>1, <1>2, <1>3 DEF TypeOK
<1>6. KeyNearRow' /\ Settling'
      BY <1>2, <1>3, <1>4 DEF KeyNearRow, Settling
<1>7. LockExclusive'
      BY <1>2, <1>4 DEF LockExclusive
<1>8. SpendCovers'
      BY <1>1, <1>3 DEF SpendCovers, TypeOK
<1>9. RoomLeft'
      BY <1>2, <1>3, <1>4 DEF RoomLeft, Passing, Reader, Affordable
<1>10. CleanDay'
       BY <1>2, <1>3, <1>4 DEF CleanDay, Reader
<1> QED BY <1>5, <1>6, <1>7, <1>8, <1>9, <1>10


\* The other steps change one call and no row that a reservation looks at.
LEMMA QuietStep ==
  ASSUME IInv,
         Midnight \/ \E c \in Calls :
           \/ ReserveKey(c) \/ ReserveBegin(c) \/ Refuse(c) \/ CountRejection(c)
           \/ Answer(c) \/ Fail(c) \/ SettleKey(c) \/ SettleBegin(c)
  PROVE  IInv'
<1> USE CostAssumption, DayAssumption DEF IInv
<1>1. CASE Midnight
  <2>1. TypeOK'
        BY <1>1 DEF Midnight, TypeOK, Days
  <2>2. KeyNearRow' /\ Settling'
        BY <1>1 DEF Midnight, KeyNearRow, Settling, TypeOK, Days
  <2>3. LockExclusive' /\ SpendCovers' /\ RoomLeft' /\ CleanDay'
        BY <1>1, NoNewReader DEF Midnight
  <2> QED BY <2>1, <2>2, <2>3
<1>2. ASSUME NEW c \in Calls, NEW x \in Call, call' = [call EXCEPT ![c] = x],
             UNCHANGED <<day, spend, granted, late>>, rejected' \in [Days -> Nat],
             x.pc # "read",
             x.pc = "keyed" => x.cost \in Costs /\ x.key \in Days /\ x.key <= day,
             x.pc = "begun" => /\ x.row \in Days /\ x.cost \in Costs
                               /\ x.key \in {x.row - 1, x.row},
             x.pc \in {"reserved", "answered", "settle_keyed"} => x.cost \in Costs,
             x.pc = "settle_begun" => x.cost \in Costs /\ x.row \in Days
      PROVE  IInv'
  <2>1. call'[c] = x /\ \A e \in Calls \ {c} : call'[e] = call[e]
        BY <1>2 DEF TypeOK
  <2>2. TypeOK'
        BY <1>2 DEF TypeOK
  <2>3. KeyNearRow' /\ Settling'
        BY <1>2, <2>1 DEF KeyNearRow, Settling
  <2>4. \A e \in Calls : call'[e].pc = "read" => call'[e] = call[e]
        BY <1>2, <2>1
  <2>5. LockExclusive' /\ SpendCovers' /\ RoomLeft' /\ CleanDay'
        BY <1>2, <2>4, NoNewReader
  <2> QED BY <2>2, <2>3, <2>5
<1>3. ASSUME NEW c \in Calls, ReserveKey(c)
      PROVE  IInv'
  <2>1. PICK k \in Costs :
          call' = [call EXCEPT ![c] = [@ EXCEPT !.pc = "keyed", !.cost = k,
                                                !.key = day]]
        BY <1>3 DEF ReserveKey
  <2> DEFINE x == [call[c] EXCEPT !.pc = "keyed", !.cost = k, !.key = day]
  <2>2. call[c] \in Call /\ day \in Days
        BY DEF TypeOK
  <2>3. x \in Call /\ x.pc = "keyed" /\ x.key = day /\ x.cost \in Costs
        BY <2>2 DEF Call
  <2>4. call' = [call EXCEPT ![c] = x]
        BY <2>1
  <2> HIDE DEF x
  <2>5. x.key \in Days /\ x.key <= day
        BY <2>2, <2>3 DEF Days
  <2>6. UNCHANGED <<day, spend, granted, late>> /\ rejected' \in [Days -> Nat]
        BY <1>3 DEF ReserveKey, TypeOK
  <2> QED BY <1>2, <2>3, <2>4, <2>5, <2>6
<1>4. ASSUME NEW c \in Calls, ReserveBegin(c)
      PROVE  IInv'
  <2> DEFINE x == [call[c] EXCEPT !.pc = "begun", !.row = day]
  <2>1. /\ call[c] \in Call /\ day \in Days /\ call[c].cost \in Costs
        /\ call[c].key \in Days /\ day <= call[c].key + 1 /\ call[c].key <= day
        BY <1>4 DEF ReserveBegin, TypeOK, KeyNearRow
  <2>2. /\ x \in Call /\ x.pc = "begun" /\ x.cost \in Costs
        /\ x.row = day /\ x.key = call[c].key
        BY <2>1 DEF Call
  <2>3. call' = [call EXCEPT ![c] = x]
        BY <1>4 DEF ReserveBegin
  <2> HIDE DEF x
  <2>4. x.row \in Days /\ x.key \in {x.row - 1, x.row}
        BY <2>1, <2>2 DEF Days
  <2>5. UNCHANGED <<day, spend, granted, late>> /\ rejected' \in [Days -> Nat]
        BY <1>4 DEF ReserveBegin, TypeOK
  <2> QED BY <1>2, <2>2, <2>3, <2>4, <2>5
<1>5. ASSUME NEW c \in Calls,
             NEW p \in {"rejecting", "answered", "done", "settle_keyed"},
             \/ p \in {"rejecting", "done"}
             \/ call[c].pc \in {"reserved", "answered"},
             \/ call' = [call EXCEPT ![c].pc = p]
             \/ call' = [call EXCEPT ![c] = [@ EXCEPT !.pc = p, !.key = day]],
             UNCHANGED <<day, spend, granted, late>>, rejected' \in [Days -> Nat]
      PROVE  IInv'
  <2>1. call[c] \in Call /\ day \in Days
        BY DEF TypeOK
  <2>2. p \in {"answered", "settle_keyed"} => call[c].cost \in Costs
        BY <1>5 DEF Settling
  <2>3. CASE call' = [call EXCEPT ![c].pc = p]
    <3> DEFINE x == [call[c] EXCEPT !.pc = p]
    <3>1. x \in Call /\ x.pc = p /\ x.cost = call[c].cost
          BY <2>1 DEF Call
    <3>2. call' = [call EXCEPT ![c] = x]
          BY <2>3
    <3> HIDE DEF x
    <3> QED BY <1>2, <1>5, <2>2, <3>1, <3>2
  <2>4. CASE call' = [call EXCEPT ![c] = [@ EXCEPT !.pc = p, !.key = day]]
    <3> DEFINE x == [call[c] EXCEPT !.pc = p, !.key = day]
    <3>1. x \in Call /\ x.pc = p /\ x.cost = call[c].cost
          BY <2>1 DEF Call
    <3>2. call' = [call EXCEPT ![c] = x]
          BY <2>4
    <3> HIDE DEF x
    <3> QED BY <1>2, <1>5, <2>2, <3>1, <3>2
  <2> QED BY <1>5, <2>3, <2>4
<1>6. ASSUME NEW c \in Calls, Refuse(c) \/ Answer(c) \/ Fail(c) \/ SettleKey(c)
      PROVE  IInv'
  <2>1. rejected' \in [Days -> Nat]
        BY <1>6 DEF Refuse, Answer, Fail, SettleKey, TypeOK
  <2>2. CASE Refuse(c)
        BY <1>5, <2>1, <2>2 DEF Refuse
  <2>3. CASE Answer(c)
        BY <1>5, <2>1, <2>3 DEF Answer
  <2>4. CASE Fail(c)
        BY <1>5, <2>1, <2>4 DEF Fail
  <2>5. CASE SettleKey(c)
        BY <1>5, <2>1, <2>5 DEF SettleKey
  <2> QED BY <1>6, <2>2, <2>3, <2>4, <2>5
<1>7. ASSUME NEW c \in Calls, CountRejection(c)
      PROVE  IInv'
  <2>1. rejected' \in [Days -> Nat]
        BY <1>7 DEF CountRejection, TypeOK
  <2> QED BY <1>5, <1>7, <2>1 DEF CountRejection
<1>8. ASSUME NEW c \in Calls, SettleBegin(c)
      PROVE  IInv'
  <2> DEFINE x == [call[c] EXCEPT !.pc = "settle_begun", !.row = day]
  <2>1. call[c] \in Call /\ day \in Days /\ call[c].cost \in Costs
        BY <1>8 DEF SettleBegin, TypeOK, Settling
  <2>2. x \in Call /\ x.pc = "settle_begun" /\ x.cost \in Costs /\ x.row = day
        BY <2>1 DEF Call
  <2>3. call' = [call EXCEPT ![c] = x]
        BY <1>8 DEF SettleBegin
  <2> HIDE DEF x
  <2> QED BY <1>2, <1>8, <2>1, <2>2, <2>3 DEF SettleBegin, TypeOK
<1> QED BY <1>1, <1>3, <1>4, <1>6, <1>7, <1>8

-----------------------------------------------------------------------------
LEMMA IInvStep == IInv /\ [Next]_vars => IInv'
<1> SUFFICES ASSUME IInv, [Next]_vars PROVE IInv'
    OBVIOUS
<1>1. CASE UNCHANGED vars
      BY <1>1 DEF vars, IInv, TypeOK, KeyNearRow, Settling, LockExclusive,
                  SpendCovers, RoomLeft, CleanDay, Passing, Reader, Affordable
<1>2. CASE Next
      BY <1>2, QuietStep, ReadStep, ReserveStep, SettleStep DEF Next
<1> QED BY <1>1, <1>2

\* The columns keep their types; est_cost_usd never goes negative.
THEOREM TypeCorrect == Spec => []TypeOK
<1>1. IInv => TypeOK
      BY DEF IInv
<1> QED BY <1>1, InitIInv, IInvStep, PTL DEF Spec

\* assertWithinBudget bounds what a day lets through: by the budget when every
\* reservation was made under the day's own lock, by one more call at worst.
THEOREM BudgetBounds == Spec => []OverrunBounded
<1>1. IInv => OverrunBounded
      BY DEF IInv, OverrunBounded, RoomLeft, CleanDay
<1> QED BY <1>1, InitIInv, IInvStep, PTL DEF Spec

-----------------------------------------------------------------------------
(* The row of a day is the sum of what was booked in it. What a call has   *)
(* not booked it has no cost for yet, or the cost it will be booked with:  *)
(* a call books its reservation once, and its settlement once.             *)

Unbooked ==
  \A c \in Calls :
    /\ call[c].pc \in {"idle", "keyed", "begun", "read"} => call[c].reservedOn = 0
    /\ call[c].pc # "done" => call[c].settledOn = 0

Booked == IInv /\ Unbooked /\ SpendAccounted

\* Steps that book nothing.
LEMMA RowsUntouched ==
  ASSUME Booked, spend' = spend,
         \A c \in Calls : /\ call'[c].reservedOn = call[c].reservedOn
                          /\ call'[c].settledOn = call[c].settledOn
                          /\ call'[c].cost = call[c].cost \/ call[c].pc = "idle"
  PROVE  SpendAccounted'
<1> SUFFICES ASSUME NEW d \in Days
             PROVE  spend[d] = SumFunctionOnSet(CostOf', ReservedIn(d)')
                             + SumFunctionOnSet(CostOf', SettledIn(d)')
    BY DEF SpendAccounted
<1>1. ReservedIn(d)' = ReservedIn(d) /\ SettledIn(d)' = SettledIn(d)
      BY DEF ReservedIn, SettledIn
<1>2. d # 0
      BY DEF Days
<1>3. /\ \A c \in ReservedIn(d) : CostOf'[c] = CostOf[c]
      /\ \A c \in SettledIn(d) : CostOf'[c] = CostOf[c]
      BY <1>2 DEF Booked, Unbooked, ReservedIn, SettledIn, CostOf
<1>4. IsFiniteSet(ReservedIn(d)) /\ IsFiniteSet(SettledIn(d))
      BY FiniteCalls, FS_Subset DEF ReservedIn, SettledIn
<1>5. /\ SumFunctionOnSet(CostOf', ReservedIn(d)) = SumFunctionOnSet(CostOf, ReservedIn(d))
      /\ SumFunctionOnSet(CostOf', SettledIn(d)) = SumFunctionOnSet(CostOf, SettledIn(d))
      BY <1>3, <1>4, SumOfSame
<1> QED BY <1>1, <1>5 DEF Booked, SpendAccounted

LEMMA CostsTyped ==
  ASSUME TypeOK
  PROVE  \A c \in Calls : call[c].cost \in Int
<1>1. \A c \in Calls : call[c] \in Call
      BY DEF TypeOK
<1>2. \A c \in Calls : call[c].cost \in Costs \cup {0}
      BY <1>1 DEF Call
<1>3. \A k \in Costs : k \in Int
      BY CostAssumption
<1> QED BY <1>2, <1>3

\* A call that was not booked in a day adds its cost to the day's sum.
LEMMA OneMoreBooked ==
  ASSUME TypeOK, NEW S \in SUBSET Calls, NEW c \in Calls \ S, NEW f,
         \A e \in Calls : f[e] = call[e].cost
  PROVE  SumFunctionOnSet(f, S \cup {c}) = call[c].cost + SumFunctionOnSet(f, S)
<1>1. IsFiniteSet(S)
      BY FiniteCalls, FS_Subset
<1>2. \A e \in S \cup {c} : f[e] \in Int
      BY CostsTyped
<1> QED BY <1>1, <1>2, SumWith

LEMMA ReserveBooks ==
  ASSUME Booked, NEW c \in Calls, Reserve(c)
  PROVE  SpendAccounted'
<1> DEFINE r == call[c].row
           k == call[c].cost
<1>1. r \in Days /\ k \in Nat /\ TypeOK /\ spend[r] \in Nat
      BY CostAssumption DEF Booked, IInv, TypeOK, KeyNearRow, Reserve
<1>2. call[c].reservedOn = 0 /\ 0 \notin Days
      BY DEF Booked, Unbooked, Reserve, Days
<1>3. /\ \A e \in Calls : /\ call'[e].cost = call[e].cost
                          /\ call'[e].settledOn = call[e].settledOn
                          /\ call'[e].reservedOn = IF e = c THEN r ELSE call[e].reservedOn
      /\ spend' = [spend EXCEPT ![r] = @ + k]
      BY <1>1 DEF Reserve, Reserved, TypeOK, Call
<1>4. CostOf' = CostOf
      BY <1>3 DEF CostOf
<1>5. \A d \in Days : /\ SettledIn(d)' = SettledIn(d)
                      /\ ReservedIn(d)' = IF d = r THEN ReservedIn(d) \cup {c} ELSE ReservedIn(d)
      BY <1>2, <1>3 DEF SettledIn, ReservedIn
<1>6. SumFunctionOnSet(CostOf, ReservedIn(r) \cup {c}) = k + SumFunctionOnSet(CostOf, ReservedIn(r))
  <2>1. ReservedIn(r) \in SUBSET Calls /\ c \in Calls \ ReservedIn(r)
        BY <1>1, <1>2 DEF ReservedIn
  <2>2. \A e \in Calls : CostOf[e] = call[e].cost
        BY DEF CostOf
  <2> QED BY <1>1, <2>1, <2>2, OneMoreBooked
<1>7. \A d \in Days : /\ IsFiniteSet(ReservedIn(d)) /\ IsFiniteSet(SettledIn(d))
                      /\ SumFunctionOnSet(CostOf, ReservedIn(d)) \in Int
                      /\ SumFunctionOnSet(CostOf, SettledIn(d)) \in Int
  <2>1. \A d \in Days : IsFiniteSet(ReservedIn(d)) /\ IsFiniteSet(SettledIn(d))
        BY FiniteCalls, FS_Subset DEF ReservedIn, SettledIn
  <2>2. \A e \in Calls : CostOf[e] \in Int
        BY <1>1, CostsTyped DEF CostOf
  <2>3. \A d \in Days : ReservedIn(d) \in SUBSET Calls /\ SettledIn(d) \in SUBSET Calls
        BY DEF ReservedIn, SettledIn
  <2> QED BY <2>1, <2>2, <2>3, SumType
<1> SUFFICES ASSUME NEW d \in Days
             PROVE  spend'[d] = SumFunctionOnSet(CostOf, ReservedIn(d)')
                              + SumFunctionOnSet(CostOf, SettledIn(d))
    BY <1>4, <1>5 DEF SpendAccounted
<1>8. spend[d] = SumFunctionOnSet(CostOf, ReservedIn(d)) + SumFunctionOnSet(CostOf, SettledIn(d))
      BY DEF Booked, SpendAccounted
<1>9. CASE d = r
  <2>1. spend'[d] = spend[d] + k
        BY <1>1, <1>3, <1>9 DEF TypeOK
  <2>2. SumFunctionOnSet(CostOf, ReservedIn(d)') = k + SumFunctionOnSet(CostOf, ReservedIn(d))
        BY <1>1, <1>5, <1>6, <1>9
  <2>3. k \in Int
        BY <1>1
  <2> HIDE DEF r, k
  <2> QED BY <2>1, <2>2, <2>3, <1>7, <1>8
<1>10. CASE d # r
  <2>1. spend'[d] = spend[d]
        BY <1>1, <1>3, <1>10 DEF TypeOK
  <2> QED BY <2>1, <1>5, <1>8, <1>10
<1> QED BY <1>9, <1>10

LEMMA SettleBooks ==
  ASSUME Booked, NEW c \in Calls, Settle(c)
  PROVE  SpendAccounted'
<1> DEFINE r == call[c].row
           k == call[c].cost
<1>1. r \in Days /\ k \in Nat /\ TypeOK /\ spend[r] \in Nat
      BY CostAssumption DEF Booked, IInv, TypeOK, Settling, Settle
<1>2. call[c].settledOn = 0 /\ 0 \notin Days
      BY DEF Booked, Unbooked, Settle, Days
<1>3. /\ \A e \in Calls : /\ call'[e].cost = call[e].cost
                          /\ call'[e].reservedOn = call[e].reservedOn
                          /\ call'[e].settledOn = IF e = c THEN r ELSE call[e].settledOn
      /\ spend' = [spend EXCEPT ![r] = @ + k]
      BY <1>1 DEF Settle, Delta, TypeOK, Call
<1>4. CostOf' = CostOf
      BY <1>3 DEF CostOf
<1>5. \A d \in Days : /\ ReservedIn(d)' = ReservedIn(d)
                      /\ SettledIn(d)' = IF d = r THEN SettledIn(d) \cup {c} ELSE SettledIn(d)
      BY <1>2, <1>3 DEF SettledIn, ReservedIn
<1>6. SumFunctionOnSet(CostOf, SettledIn(r) \cup {c}) = k + SumFunctionOnSet(CostOf, SettledIn(r))
  <2>1. SettledIn(r) \in SUBSET Calls /\ c \in Calls \ SettledIn(r)
        BY <1>1, <1>2 DEF SettledIn
  <2>2. \A e \in Calls : CostOf[e] = call[e].cost
        BY DEF CostOf
  <2> QED BY <1>1, <2>1, <2>2, OneMoreBooked
<1>7. \A d \in Days : /\ SumFunctionOnSet(CostOf, ReservedIn(d)) \in Int
                      /\ SumFunctionOnSet(CostOf, SettledIn(d)) \in Int
  <2>1. \A d \in Days : IsFiniteSet(ReservedIn(d)) /\ IsFiniteSet(SettledIn(d))
        BY FiniteCalls, FS_Subset DEF ReservedIn, SettledIn
  <2>2. \A e \in Calls : CostOf[e] \in Int
        BY <1>1, CostsTyped DEF CostOf
  <2>3. \A d \in Days : ReservedIn(d) \in SUBSET Calls /\ SettledIn(d) \in SUBSET Calls
        BY DEF ReservedIn, SettledIn
  <2> QED BY <2>1, <2>2, <2>3, SumType
<1> SUFFICES ASSUME NEW d \in Days
             PROVE  spend'[d] = SumFunctionOnSet(CostOf, ReservedIn(d))
                              + SumFunctionOnSet(CostOf, SettledIn(d)')
    BY <1>4, <1>5 DEF SpendAccounted
<1>8. spend[d] = SumFunctionOnSet(CostOf, ReservedIn(d)) + SumFunctionOnSet(CostOf, SettledIn(d))
      BY DEF Booked, SpendAccounted
<1>9. CASE d = r
  <2>1. spend'[d] = spend[d] + k
        BY <1>1, <1>3, <1>9 DEF TypeOK
  <2>2. SumFunctionOnSet(CostOf, SettledIn(d)') = k + SumFunctionOnSet(CostOf, SettledIn(d))
        BY <1>1, <1>5, <1>6, <1>9
  <2>3. k \in Int
        BY <1>1
  <2> HIDE DEF r, k
  <2> QED BY <2>1, <2>2, <2>3, <1>7, <1>8
<1>10. CASE d # r
  <2>1. spend'[d] = spend[d]
        BY <1>1, <1>3, <1>10 DEF TypeOK
  <2> QED BY <2>1, <1>5, <1>8, <1>10
<1> QED BY <1>9, <1>10

LEMMA UnbookedStep ==
  ASSUME TypeOK, Unbooked, Next
  PROVE  Unbooked'
<1> USE DEF Unbooked, TypeOK, Call
<1>1. CASE Midnight
      BY <1>1 DEF Midnight
<1>2. ASSUME NEW c \in Calls,
             \/ ReserveKey(c) \/ ReserveBegin(c) \/ ReserveRead(c) \/ Refuse(c)
             \/ CountRejection(c) \/ Answer(c) \/ Fail(c)
      PROVE  Unbooked'
  <2>1. CASE ReserveKey(c)
        BY <2>1 DEF ReserveKey
  <2>2. CASE ReserveBegin(c)
        BY <2>2 DEF ReserveBegin
  <2>3. CASE ReserveRead(c)
        BY <2>3 DEF ReserveRead
  <2>4. CASE Refuse(c) \/ Fail(c)
        BY <2>4 DEF Refuse, Fail
  <2>5. CASE CountRejection(c) \/ Answer(c)
        BY <2>5 DEF CountRejection, Answer
  <2> QED BY <1>2, <2>1, <2>2, <2>3, <2>4, <2>5
<1>3. ASSUME NEW c \in Calls, Reserve(c) \/ SettleKey(c) \/ SettleBegin(c) \/ Settle(c)
      PROVE  Unbooked'
  <2>1. CASE Reserve(c)
        BY <2>1 DEF Reserve
  <2>2. CASE SettleKey(c)
        BY <2>2 DEF SettleKey
  <2>3. CASE SettleBegin(c)
        BY <2>3 DEF SettleBegin
  <2>4. CASE Settle(c)
        BY <2>4 DEF Settle
  <2> QED BY <1>3, <2>1, <2>2, <2>3, <2>4
<1> QED BY <1>1, <1>2, <1>3 DEF Next

LEMMA BookedInit == Init => Booked
<1> SUFFICES ASSUME Init PROVE Booked
    OBVIOUS
<1>1. Unbooked
      BY DEF Init, Unbooked, NotMade
<1>2. \A d \in Days : ReservedIn(d) = {} /\ SettledIn(d) = {}
      BY DEF Init, NotMade, ReservedIn, SettledIn, Days
<1>3. SpendAccounted
      BY <1>2, SumOfNone DEF SpendAccounted, Init
<1> QED BY <1>1, <1>3, InitIInv DEF Booked

LEMMA BookedStep == Booked /\ [Next]_vars => Booked'
<1> SUFFICES ASSUME Booked, [Next]_vars PROVE Booked'
    OBVIOUS
<1>1. CASE UNCHANGED vars
  <2>1. call' = call /\ spend' = spend
        BY <1>1 DEF vars
  <2>2. SpendAccounted'
        BY <2>1, RowsUntouched
  <2> QED BY <2>1, <2>2, IInvStep DEF Booked, Unbooked
<1>2. CASE Next
  <2>1. IInv' /\ Unbooked'
        BY <1>2, IInvStep, UnbookedStep DEF Booked, IInv
  <2>3. ASSUME NEW c \in Calls, Reserve(c)
        PROVE  SpendAccounted'
        BY <2>3, ReserveBooks
  <2>4. ASSUME NEW c \in Calls, Settle(c)
        PROVE  SpendAccounted'
        BY <2>4, SettleBooks
  <2>5. ASSUME NEW c \in Calls,
               \/ ReserveKey(c) \/ ReserveBegin(c) \/ ReserveRead(c) \/ Refuse(c)
               \/ CountRejection(c) \/ Answer(c) \/ Fail(c) \/ SettleKey(c) \/ SettleBegin(c)
        PROVE  SpendAccounted'
    <3> USE DEF Booked, IInv, TypeOK, Call
    <3>1. spend' = spend
          BY <2>5 DEF ReserveKey, ReserveBegin, ReserveRead, Refuse, CountRejection, Answer, Fail,
                      SettleKey, SettleBegin
    <3>2. \A e \in Calls : /\ call'[e].reservedOn = call[e].reservedOn
                           /\ call'[e].settledOn = call[e].settledOn
                           /\ call'[e].cost = call[e].cost \/ call[e].pc = "idle"
      <4>1. CASE ReserveKey(c)
            BY <4>1 DEF ReserveKey
      <4>2. CASE ReserveBegin(c)
            BY <4>2 DEF ReserveBegin
      <4>3. CASE ReserveRead(c)
            BY <4>3 DEF ReserveRead
      <4>4. CASE Refuse(c) \/ Fail(c) \/ CountRejection(c) \/ Answer(c)
            BY <4>4 DEF Refuse, Fail, CountRejection, Answer
      <4>5. CASE SettleKey(c)
            BY <4>5 DEF SettleKey
      <4>6. CASE SettleBegin(c)
            BY <4>6 DEF SettleBegin
      <4> QED BY <2>5, <4>1, <4>2, <4>3, <4>4, <4>5, <4>6
    <3> QED BY <3>1, <3>2, RowsUntouched
  <2>6. SpendAccounted'
    <3>1. CASE Midnight
      <4>1. call' = call /\ spend' = spend
            BY <3>1 DEF Midnight
      <4> QED BY <4>1, RowsUntouched
    <3> QED BY <1>2, <3>1, <2>3, <2>4, <2>5 DEF Next
  <2> QED BY <2>1, <2>6 DEF Booked
<1> QED BY <1>1, <1>2

\* Whatever midnight does to the locks, est_cost_usd is the sum of what was
\* reserved and settled in its day: the UPSERTs lose nothing.
THEOREM NoSpendLost == Spec => []SpendAccounted
<1>1. Booked => SpendAccounted
      BY DEF Booked
<1> QED BY <1>1, BookedInit, BookedStep, PTL DEF Spec

-----------------------------------------------------------------------------
(* The ledger of Route Optimization: costs by month and volume.            *)

\* A settlement under way has a row; one that has read knows when it read.
InFlight ==
  \A c \in OptCalls :
    /\ opt[c].pc \in {"begun", "read"} => opt[c].row \in Months
    /\ opt[c].pc = "read" => opt[c].start \in Months

\* The ledger's lock admits one settlement at a time.
OneReader ==
  \A c, d \in OptCalls : opt[c].pc = "read" /\ opt[d].pc = "read" => c = d

\* What it has read is still the volume when it writes.
ReadCurrent ==
  \A c \in OptCalls :
    opt[c].pc = "read" /\ Charges(c) =>
      opt[c].soFar = volume[opt[c].start][opt[c].kind]

LedgerInv == OptTypeOK /\ InFlight /\ OneReader /\ ReadCurrent /\ MonthPriced

-----------------------------------------------------------------------------
LEMMA MaxOfZero == ASSUME NEW n \in Nat PROVE Max({0, n}) = n
<1>1. n \in {0, n} /\ \A y \in {0, n} : n >= y
      OBVIOUS
<1>2. \A x \in {0, n} : (\A y \in {0, n} : x >= y) => x = n
      OBVIOUS
<1> QED BY <1>1, <1>2 DEF Max

\* A settlement that knows the volume charges the difference of the prices.
LEMMA Increment ==
  ASSUME NEW c \in OptCalls, opt[c].kind \in Kinds, opt[c].soFar \in Volumes,
         opt[c].billable \in Nat, opt[c].soFar + opt[c].billable \in Volumes
  PROVE  /\ IncrementalCost(c) \in Nat
         /\ IncrementalCost(c) + Price(opt[c].kind, opt[c].soFar)
              = Price(opt[c].kind, opt[c].soFar + opt[c].billable)
<1> DEFINE new == Price(opt[c].kind, opt[c].soFar + opt[c].billable)
           old == Price(opt[c].kind, opt[c].soFar)
<1>1. opt[c].soFar <= opt[c].soFar + opt[c].billable
      BY CallAssumption DEF Volumes
<1>2. new \in Nat /\ old \in Nat /\ old <= new
      BY <1>1, TiersAssumption
<1> HIDE DEF new, old
<1>3. new - old \in Nat
      BY <1>2
<1>4. IncrementalCost(c) = new - old
      BY <1>3, MaxOfZero DEF IncrementalCost, new, old
<1>5. IncrementalCost(c) \in Nat /\ IncrementalCost(c) + old = new
      BY <1>2, <1>3, <1>4
<1> QED BY <1>5 DEF new, old

LEMMA InitLedgerInv == OptInit => LedgerInv
<1> SUFFICES ASSUME OptInit PROVE LedgerInv
    OBVIOUS
<1> USE CallAssumption DEF OptInit, Unsent, Months, Kinds, Volumes
<1>1. OptTypeOK
      BY DEF OptTypeOK, OptCall
<1>2. InFlight /\ OneReader /\ ReadCurrent
      BY DEF InFlight, OneReader, ReadCurrent
<1>3. MonthPriced
      BY TiersAssumption DEF MonthPriced
<1> QED BY <1>1, <1>2, <1>3 DEF LedgerInv

\* Steps that book nothing and let nobody read the ledger.
LEMMA NothingBooked ==
  ASSUME LedgerInv, NEW c \in OptCalls, NEW x \in OptCall,
         opt' = [opt EXCEPT ![c] = x], x.pc # "read",
         x.pc = "begun" => x.row \in Months,
         UNCHANGED <<month, volume, estCost, straddled>>
  PROVE  LedgerInv'
<1>1. opt'[c] = x /\ \A e \in OptCalls \ {c} : opt'[e] = opt[e]
      BY DEF LedgerInv, OptTypeOK
<1>2. OptTypeOK'
      BY DEF LedgerInv, OptTypeOK
<1>3. InFlight' /\ OneReader'
      BY <1>1 DEF LedgerInv, InFlight, OneReader
<1>4. ReadCurrent'
      BY <1>1 DEF LedgerInv, ReadCurrent, Charges
<1>5. MonthPriced'
      BY DEF LedgerInv, MonthPriced
<1> QED BY <1>2, <1>3, <1>4, <1>5 DEF LedgerInv

LEMMA ReadKeepsLedger ==
  ASSUME LedgerInv, NEW c \in OptCalls, ReadVolume(c)
  PROVE  LedgerInv'
<1> DEFINE x == [opt[c] EXCEPT !.pc = "read", !.start = month,
                   !.soFar = IF Charges(c) THEN volume[month][opt[c].kind] ELSE 0]
<1>1. opt[c] \in OptCall /\ opt[c].row \in Months /\ month \in Months
      BY DEF LedgerInv, OptTypeOK, InFlight, ReadVolume
<1>2. volume[month][opt[c].kind] \in Nat
      BY <1>1, CallAssumption DEF LedgerInv, OptTypeOK, OptCall, Volumes
<1>3. /\ x \in OptCall /\ x.pc = "read" /\ x.row = opt[c].row /\ x.start = month
      /\ x.kind = opt[c].kind /\ x.success = opt[c].success
      /\ x.billable = opt[c].billable
      /\ Charges(c) => x.soFar = volume[month][x.kind]
      BY <1>1, <1>2 DEF OptCall
<1>4. opt' = [opt EXCEPT ![c] = x] /\ UNCHANGED <<month, volume, estCost, straddled>>
      BY DEF ReadVolume
<1> HIDE DEF x
<1>5. opt'[c] = x /\ \A e \in OptCalls \ {c} : opt'[e] = opt[e]
      BY <1>4 DEF LedgerInv, OptTypeOK
<1>6. OptTypeOK'
      BY <1>3, <1>4 DEF LedgerInv, OptTypeOK
<1>7. InFlight'
      BY <1>1, <1>3, <1>5 DEF LedgerInv, InFlight
<1>8. OneReader'
      BY <1>3, <1>5 DEF OneReader, ReadVolume, LedgerFree
<1>9. ReadCurrent'
      BY <1>3, <1>4, <1>5 DEF LedgerInv, ReadCurrent, Charges
<1>10. MonthPriced'
      BY <1>4 DEF LedgerInv, MonthPriced
<1> QED BY <1>6, <1>7, <1>8, <1>9, <1>10 DEF LedgerInv

\* A charge: the row's volume and its cost grow by matching amounts.
LEMMA ChargeKeepsLedger ==
  ASSUME LedgerInv, NEW c \in OptCalls, Charge(c)
  PROVE  LedgerInv'
<1> DEFINE r == opt[c].row
           k == opt[c].kind
           b == opt[c].billable
<1>1. /\ opt[c] \in OptCall /\ opt[c].pc = "read" /\ Charges(c)
      /\ r \in Months /\ k \in Kinds /\ b \in Nat /\ opt[c].start \in Months
      BY DEF LedgerInv, OptTypeOK, OptCall, InFlight, Charge
<1>2. /\ volume[r][k] \in Volumes /\ volume[r][k] + b \in Volumes
      /\ opt[c].soFar \in Volumes /\ opt[c].soFar + b \in Volumes
  <2>1. volume[r][k] \in Volumes /\ volume[opt[c].start][k] \in Volumes
        BY <1>1 DEF LedgerInv, OptTypeOK
  <2>2. opt[c].soFar = volume[opt[c].start][k]
        BY <1>1 DEF LedgerInv, ReadCurrent
  <2>3. volume[r][k] + b <= MaxVolume /\ opt[c].soFar + b <= MaxVolume
        BY DEF Charge
  <2> QED BY <1>1, <2>1, <2>2, <2>3, CallAssumption DEF Volumes
<1>3. /\ IncrementalCost(c) \in Nat
      /\ IncrementalCost(c) + Price(k, opt[c].soFar) = Price(k, opt[c].soFar + b)
      BY <1>1, <1>2, Increment
<1>4. /\ volume' = [volume EXCEPT ![r][k] = @ + b]
      /\ estCost' = [estCost EXCEPT ![r] = @ + IncrementalCost(c)]
      /\ straddled' = [straddled EXCEPT ![r] = @ \/ opt[c].start # r]
      /\ opt' = [opt EXCEPT ![c].pc = "done"]
      /\ month' = month
      BY DEF Charge
<1>5. /\ opt'[c].pc = "done" /\ opt'[c] \in OptCall
      /\ \A e \in OptCalls \ {c} : opt'[e] = opt[e]
      BY <1>1, <1>4 DEF LedgerInv, OptTypeOK, OptCall
<1>6. /\ volume'[r][k] = volume[r][k] + b
      /\ \A j \in Kinds \ {k} : volume'[r][j] = volume[r][j]
      /\ \A m \in Months \ {r} : volume'[m] = volume[m]
      BY <1>1, <1>4 DEF LedgerInv, OptTypeOK
<1>7. /\ estCost'[r] = estCost[r] + IncrementalCost(c)
      /\ \A m \in Months \ {r} : estCost'[m] = estCost[m]
      BY <1>1, <1>4 DEF LedgerInv, OptTypeOK
<1>8. /\ straddled'[r] <=> straddled[r] \/ opt[c].start # r
      /\ \A m \in Months \ {r} : straddled'[m] = straddled[m]
      BY <1>1, <1>4 DEF LedgerInv, OptTypeOK
<1>9. OptTypeOK'
  <2>1. volume' \in [Months -> [Kinds -> Volumes]]
        BY <1>1, <1>2, <1>4 DEF LedgerInv, OptTypeOK
  <2>2. estCost' \in [Months -> Nat]
        BY <1>1, <1>3, <1>4 DEF LedgerInv, OptTypeOK
  <2>3. opt' \in [OptCalls -> OptCall] /\ straddled' \in [Months -> BOOLEAN]
        BY <1>1, <1>4, <1>5 DEF LedgerInv, OptTypeOK
  <2> QED BY <1>4, <2>1, <2>2, <2>3 DEF LedgerInv, OptTypeOK
<1>10. \A e \in OptCalls : opt'[e].pc # "read"
      BY <1>1, <1>5 DEF LedgerInv, OneReader
<1>11. InFlight' /\ OneReader' /\ ReadCurrent'
      BY <1>5, <1>10 DEF LedgerInv, InFlight, OneReader, ReadCurrent
<1>12. MonthPriced'
  <2> SUFFICES ASSUME NEW m \in Months, ~straddled'[m]
               PROVE  estCost'[m] = Price("single", volume'[m]["single"])
                                      + Price("fleet", volume'[m]["fleet"])
      BY DEF MonthPriced
  <2>1. CASE m # r
        BY <1>6, <1>7, <1>8, <2>1 DEF LedgerInv, MonthPriced
  <2>2. CASE m = r
    <3>1. ~straddled[r] /\ opt[c].start = r
          BY <1>8, <2>2
    <3>2. opt[c].soFar = volume[r][k]
          BY <1>1, <3>1 DEF LedgerInv, ReadCurrent
    <3>3. estCost[r] = Price("single", volume[r]["single"]) + Price("fleet", volume[r]["fleet"])
          BY <1>1, <3>1 DEF LedgerInv, MonthPriced
    <3>4. IncrementalCost(c) + Price(k, volume[r][k]) = Price(k, volume'[r][k])
          BY <1>3, <1>6, <3>2
    <3>5. \A j \in Kinds : Price(j, volume[r][j]) \in Nat
          BY <1>1, TiersAssumption DEF LedgerInv, OptTypeOK
    <3>6. CASE k = "single"
          BY <1>3, <1>6, <1>7, <2>2, <3>3, <3>4, <3>5, <3>6 DEF Kinds
    <3>7. CASE k = "fleet"
          BY <1>3, <1>6, <1>7, <2>2, <3>3, <3>4, <3>5, <3>7 DEF Kinds
    <3> QED BY <1>1, <3>6, <3>7 DEF Kinds
  <2> QED BY <2>1, <2>2
<1> QED BY <1>9, <1>11, <1>12 DEF LedgerInv

LEMMA NextLedgerInv == LedgerInv /\ [OptNext]_optVars => LedgerInv'
<1> SUFFICES ASSUME LedgerInv, [OptNext]_optVars PROVE LedgerInv'
    OBVIOUS
<1>1. \A c \in OptCalls : opt[c] \in OptCall /\ month \in Months
      BY DEF LedgerInv, OptTypeOK
<1>2. CASE MonthTurns
  <2>1. month' \in Months /\ UNCHANGED <<volume, estCost, opt, straddled>>
        BY <1>2, CallAssumption DEF MonthTurns, LedgerInv, OptTypeOK, Months
  <2> QED BY <2>1 DEF LedgerInv, OptTypeOK, InFlight, OneReader, ReadCurrent, Charges,
                      MonthPriced
<1>3. ASSUME NEW c \in OptCalls, Send(c) PROVE LedgerInv'
  <2>1. PICK v \in Vehicles, n \in Sizes :
          opt' = [opt EXCEPT ![c] = [@ EXCEPT !.pc = "sent", !.size = n,
                                              !.kind = ClassifyOptimizationSku(v)]]
        BY <1>3 DEF Send
  <2> DEFINE x == [opt[c] EXCEPT !.pc = "sent", !.size = n,
                                 !.kind = ClassifyOptimizationSku(v)]
  <2>2. ClassifyOptimizationSku(v) \in Kinds /\ n \in Nat
        BY CallAssumption DEF ClassifyOptimizationSku, Kinds
  <2>3. x \in OptCall /\ x.pc = "sent" /\ opt' = [opt EXCEPT ![c] = x]
        BY <1>1, <2>1, <2>2 DEF OptCall
  <2> HIDE DEF x
  <2> QED BY <1>3, <2>3, NothingBooked DEF Send
<1>4. ASSUME NEW c \in OptCalls, Retry(c) PROVE LedgerInv'
  <2> DEFINE x == [opt[c] EXCEPT !.tries = @ + 1]
  <2>1. x \in OptCall /\ x.pc = "sent" /\ opt' = [opt EXCEPT ![c] = x]
        BY <1>1, <1>4 DEF OptCall, Retry
  <2> HIDE DEF x
  <2> QED BY <1>4, <2>1, NothingBooked DEF Retry
<1>5. ASSUME NEW c \in OptCalls, GiveUp(c) \/ CountOnly(c) \/ Unrecorded(c) PROVE LedgerInv'
  <2>1. PICK p \in {"ended", "done"} :
          opt' = [opt EXCEPT ![c].pc = p] /\ UNCHANGED <<month, volume, estCost, straddled>>
        BY <1>5 DEF GiveUp, CountOnly, Unrecorded
  <2> DEFINE x == [opt[c] EXCEPT !.pc = p]
  <2>2. x \in OptCall /\ x.pc = p /\ opt' = [opt EXCEPT ![c] = x]
        BY <1>1, <2>1 DEF OptCall
  <2> HIDE DEF x
  <2> QED BY <2>1, <2>2, NothingBooked
<1>6. ASSUME NEW c \in OptCalls, Solved(c) PROVE LedgerInv'
  <2>1. PICK s \in 0..opt[c].size :
          opt' = [opt EXCEPT ![c] = [@ EXCEPT !.pc = "ended", !.success = TRUE,
                                              !.billable = opt[c].size - s]]
        BY <1>6 DEF Solved
  <2> DEFINE x == [opt[c] EXCEPT !.pc = "ended", !.success = TRUE,
                                 !.billable = opt[c].size - s]
  <2>2. opt[c].size - s \in Nat
        BY <1>1, <2>1 DEF OptCall
  <2>3. x \in OptCall /\ x.pc = "ended" /\ opt' = [opt EXCEPT ![c] = x]
        BY <1>1, <2>1, <2>2 DEF OptCall
  <2> HIDE DEF x
  <2> QED BY <1>6, <2>3, NothingBooked DEF Solved
<1>7. ASSUME NEW c \in OptCalls, BeginSettlement(c) PROVE LedgerInv'
  <2> DEFINE x == [opt[c] EXCEPT !.pc = "begun", !.row = month]
  <2>1. /\ x \in OptCall /\ x.pc = "begun" /\ x.row \in Months
        /\ opt' = [opt EXCEPT ![c] = x]
        BY <1>1, <1>7 DEF OptCall, BeginSettlement
  <2> HIDE DEF x
  <2> QED BY <1>7, <2>1, NothingBooked DEF BeginSettlement
<1>8. CASE UNCHANGED optVars
      BY <1>8 DEF optVars, LedgerInv, OptTypeOK, InFlight, OneReader, ReadCurrent, Charges,
                  MonthPriced
<1> QED BY <1>2, <1>3, <1>4, <1>5, <1>6, <1>7, <1>8, ReadKeepsLedger, ChargeKeepsLedger
        DEF OptNext

-----------------------------------------------------------------------------
\* The ledger's values keep their types.
THEOREM LedgerTyped == OptSpec => []OptTypeOK
<1>1. LedgerInv => OptTypeOK
      BY DEF LedgerInv
<1> QED BY <1>1, InitLedgerInv, NextLedgerInv, PTL DEF OptSpec

\* Whatever settlements meet at whichever tier boundary, a month's bookings add
\* up to the price of its volume.
THEOREM MonthsArePriced == OptSpec => []MonthPriced
<1>1. LedgerInv => MonthPriced
      BY DEF LedgerInv
<1> QED BY <1>1, InitLedgerInv, NextLedgerInv, PTL DEF OptSpec


-----------------------------------------------------------------------------
(* The matrix: what it holds of each request and of each row.              *)
CellsOf(points) == {Cell[points[i]] : i \in DOMAIN points}

\* A figure or a row is about a pair of cells.
Between(e, k) == <<Cell[e.from], Cell[e.to]>> = k

\* Rows are answers about their cells, and live no longer than they may: a
\* request that went over midnight writes what it measured a day ago.
RowsSound ==
  \A b \in Buckets, k \in Keys : cache[b][k] # Nothing =>
    /\ cache[b][k].seconds # "estimate"
    /\ cache[b][k].expires <= cache[b][k].at + Ttl + 1
    /\ Between(cache[b][k], k)

\* A figure is about a pair of cells, and flagged as what it is.
Fits(e, k) == Between(e, k) /\ Marked(e)

\* A result is about the cells at its two places.
Placed(q, x) ==
  /\ x.origin \in DOMAIN q.origins /\ x.dest \in DOMAIN q.dests
  /\ x.entry \in Figure /\ x.entry.at >= q.begun
  /\ Fits(x.entry, <<q.origins[x.origin], q.dests[x.dest]>>)

\* What a request holds, at each of its steps.
Asking(q) == q.pc \in {"asked", "fetching"} =>
  q.query \in Queries /\ q.bucket \in Buckets /\ q.begun \in {now - 1, now}

Collecting(q) == q.pc = "fetching" =>
  /\ q.uncached \subseteq Keys
  /\ q.origins \in Seq(CellsOf(q.query.from)) /\ q.dests \in Seq(CellsOf(q.query.to))
  /\ q.origins # <<>> => q.next \in Nat \ {0}
  /\ \A k \in DOMAIN q.known : q.known[k] \in Figure /\ Fits(q.known[k], k)
  /\ \A x \in q.results : Placed(q, x)

Answered(q) == q.pc = "answered" =>
  /\ q.query \in Queries
  /\ DOMAIN q.answer = (DOMAIN q.query.from) \X (DOMAIN q.query.to)
  /\ \A p \in DOMAIN q.answer :
       /\ q.answer[p] \in Figure
       /\ Fits(q.answer[p], <<Cell[q.query.from[p[1]]], Cell[q.query.to[p[2]]]>>)

Sound(q) ==
  /\ DOMAIN q = DOMAIN Unasked
  /\ q.pc \in {"idle", "asked", "fetching", "answered", "refused"}
  /\ q.query \in Queries \cup {Nothing}
  /\ q.pc \in {"idle", "asked"} => q.next = 1
  /\ q.pc # "fetching" => q.results = {} /\ q.known = <<>>
  /\ q.pc # "answered" => q.answer = <<>>
  /\ Asking(q) /\ Collecting(q) /\ Answered(q)

CacheTyped ==
  /\ now \in 0..MaxTime
  /\ cache \in [Buckets -> [Keys -> Row \cup {Nothing}]]
  /\ DOMAIN req = Requests

CacheInv == CacheTyped /\ RowsSound /\ \A r \in Requests : Sound(req[r])

\* Deduplicated lists hold nothing that was not in them.
LEMMA DistinctType ==
  ASSUME NEW R, NEW s \in Seq(R)
  PROVE  Distinct(s) \in Seq(R)
<1> DEFINE n == Len(s)
           V == Seq(R)
           On(i, v) == IF Contains(v, s[i]) THEN v ELSE Append(v, s[i])
           G == [p \in (1..n) \X V |-> On(p[1], p[2])]
           run == CHOOSE k : k = [t \in SUBSET DOMAIN s |->
                     IF t = {} THEN <<>> ELSE On(Max(t), k[t \ {Max(t)}])]
<1>0. n \in Nat /\ DOMAIN s = 1..n /\ <<>> \in V
  OBVIOUS
<1>1. Distinct(s) = run[1..n]
  BY <1>0 DEF Distinct, FoldLeft, MapThenFoldSet
<1>2. \A i \in 1..n, v \in V : On(i, v) \in V
  OBVIOUS
<1> HIDE DEF On, V, n
<1>3. G \in [(1..n) \X V -> V] /\ \A i \in 1..n, v \in V : G[<<i, v>>] = On(i, v)
  BY <1>2
<1> HIDE DEF G
<1>4. \A t \in SUBSET (1..n) : t # {} => Max(t) \in 1..n
  BY <1>0, MaxIn
<1>5. PICK it \in [SUBSET (1..n) -> V] : IsFold(it, n, <<>>, G)
  BY <1>0, <1>3, FoldInside
<1>6. it = [t \in SUBSET (1..n) |-> IF t = {} THEN <<>> ELSE On(Max(t), it[t \ {Max(t)}])]
  <2>1. \A t \in SUBSET (1..n) : t # {} => G[<<Max(t), it[t \ {Max(t)}]>>] = On(Max(t), it[t \ {Max(t)}])
    BY <1>3, <1>4, <1>5
  <2>2. QED BY <2>1, <1>5 DEF IsFold
<1>7. run = [t \in SUBSET (1..n) |-> IF t = {} THEN <<>> ELSE On(Max(t), run[t \ {Max(t)}])]
  BY <1>6, <1>0, Zenon
<1> HIDE DEF run
<1>8. Follows(run, n, <<>>, G, V)
  <2>1. \A t \in SUBSET (1..n) : t # {} /\ run[t \ {Max(t)}] \in V =>
          G[<<Max(t), run[t \ {Max(t)}]>>] = On(Max(t), run[t \ {Max(t)}])
    BY <1>3, <1>4
  <2>2. QED BY <2>1, <1>7 DEF Follows
<1>9. run \in [SUBSET (1..n) -> V]
  BY <1>0, <1>3, <1>8, FoldRuns
<1>10. QED BY <1>1, <1>9 DEF V

LEMMA EndsType ==
  ASSUME NEW R, NEW K, NEW s \in Seq(K), NEW missing, NEW e,
         \A k \in K : k[e] \in R
  PROVE  Ends(s, missing, e) \in Seq(R)
<1> DEFINE n == Len(s)
           V == Seq(R)
           On(i, v) == IF s[i] \notin missing \/ Contains(v, s[i][e]) THEN v
                       ELSE Append(v, s[i][e])
           G == [p \in (1..n) \X V |-> On(p[1], p[2])]
           run == CHOOSE k : k = [t \in SUBSET DOMAIN s |->
                     IF t = {} THEN <<>> ELSE On(Max(t), k[t \ {Max(t)}])]
<1>0. n \in Nat /\ DOMAIN s = 1..n /\ <<>> \in V
  OBVIOUS
<1>1. Ends(s, missing, e) = run[1..n]
  BY <1>0 DEF Ends, FoldLeft, MapThenFoldSet
<1>2. \A i \in 1..n, v \in V : On(i, v) \in V
  OBVIOUS
<1> HIDE DEF On, V, n
<1>3. G \in [(1..n) \X V -> V] /\ \A i \in 1..n, v \in V : G[<<i, v>>] = On(i, v)
  BY <1>2
<1> HIDE DEF G
<1>4. \A t \in SUBSET (1..n) : t # {} => Max(t) \in 1..n
  BY <1>0, MaxIn
<1>5. PICK it \in [SUBSET (1..n) -> V] : IsFold(it, n, <<>>, G)
  BY <1>0, <1>3, FoldInside
<1>6. it = [t \in SUBSET (1..n) |-> IF t = {} THEN <<>> ELSE On(Max(t), it[t \ {Max(t)}])]
  <2>1. \A t \in SUBSET (1..n) : t # {} => G[<<Max(t), it[t \ {Max(t)}]>>] = On(Max(t), it[t \ {Max(t)}])
    BY <1>3, <1>4, <1>5
  <2>2. QED BY <2>1, <1>5 DEF IsFold
<1>7. run = [t \in SUBSET (1..n) |-> IF t = {} THEN <<>> ELSE On(Max(t), run[t \ {Max(t)}])]
  BY <1>6, <1>0, Zenon
<1> HIDE DEF run
<1>8. Follows(run, n, <<>>, G, V)
  <2>1. \A t \in SUBSET (1..n) : t # {} /\ run[t \ {Max(t)}] \in V =>
          G[<<Max(t), run[t \ {Max(t)}]>>] = On(Max(t), run[t \ {Max(t)}])
    BY <1>3, <1>4
  <2>2. QED BY <2>1, <1>7 DEF Follows
<1>9. run \in [SUBSET (1..n) -> V]
  BY <1>0, <1>3, <1>8, FoldRuns
<1>10. QED BY <1>1, <1>9 DEF V

LEMMA FirstInCell ==
  ASSUME NEW points \in Seq(DOMAIN Cell), NEW c \in CellsOf(points)
  PROVE  FirstIn(points, c) \in DOMAIN Cell /\ Cell[FirstIn(points, c)] = c
<1> DEFINE S == {i \in DOMAIN points : Cell[points[i]] = c}
           First(i) == /\ Cell[points[i]] = c
                       /\ \A j \in 1..(i - 1) : Cell[points[j]] # c
<1>0. DOMAIN points = 1..Len(points) /\ Len(points) \in Nat
  OBVIOUS
<1>1. S # {} /\ S \in SUBSET Int
  BY <1>0 DEF CellsOf
<1>2. IsFiniteSet(S)
  <2>1. S \in SUBSET (1..Len(points)) /\ IsFiniteSet(1..Len(points))
    BY <1>0, FS_Interval
  <2> HIDE DEF S
  <2>2. QED BY <2>1, FS_Subset
<1>3. PICK m \in S : \A x \in S : m <= x
  <2> HIDE DEF S
  <2>1. QED BY <1>1, <1>2, MinExists
<1>4. m \in DOMAIN points /\ First(m)
  BY <1>0, <1>3
<1>5. \E i \in DOMAIN points : First(i)
  BY <1>4
<1> DEFINE it == CHOOSE i \in DOMAIN points : First(i)
<1>6. it \in DOMAIN points /\ First(it)
  <2> HIDE DEF First
  <2>1. QED BY <1>5
<1>7. FirstIn(points, c) = points[it]
  BY DEF FirstIn
<1> HIDE DEF it
<1>8. points[it] \in DOMAIN Cell /\ Cell[points[it]] = c
  BY <1>0, <1>6
<1>9. QED BY <1>7, <1>8

LEMMA Places ==
  ASSUME NEW m \in Nat, NEW n \in Nat, NEW x \in 1..(m * n)
  PROVE  ((x - 1) \div n) + 1 \in 1..m /\ ((x - 1) % n) + 1 \in 1..n
<1> DEFINE y == x - 1
           d == y \div n
           e == y % n
<1>1. n # 0
  BY Z3
<1>2. y \in Nat /\ y < m * n /\ n \in Nat \ {0}
  BY <1>1
<1>3. d \in Int /\ e \in 0..(n - 1) /\ y = n * d + e
  <2> HIDE DEF y
  <2>1. QED BY <1>2
<1> HIDE DEF y, d, e
<1>4. d >= 0
  <2>1. SUFFICES ASSUME d <= -1 PROVE FALSE
    BY <1>3
  <2>2. n * d <= -n
    BY <2>1, <1>2, <1>3
  <2>3. QED BY <2>2, <1>2, <1>3
<1>5. d < m
  <2>1. SUFFICES ASSUME d >= m PROVE FALSE
    BY <1>3
  <2>2. n * d >= n * m
    BY <2>1, <1>2, <1>3
  <2>3. QED BY <2>2, <1>2, <1>3
<1>6. QED BY <1>2, <1>3, <1>4, <1>5 DEF d, e, y

LEMMA QueryFields ==
  ASSUME NEW r \in Requests, req[r].query \in Queries
  PROVE  /\ From(r) \in Seq(DOMAIN Cell) /\ To(r) \in Seq(DOMAIN Cell)
         /\ req[r].query.polylines \in BOOLEAN
         /\ DOMAIN From(r) = 1..Len(From(r)) /\ Len(From(r)) \in Nat
         /\ DOMAIN To(r) = 1..Len(To(r)) /\ Len(To(r)) \in Nat
<1>1. req[r].query \in [from : Seq(DOMAIN Cell), to : Seq(DOMAIN Cell), polylines : BOOLEAN]
  BY MatrixQueries
<1>2. QED BY <1>1 DEF From, To

LEMMA KeyTypes ==
  ASSUME NEW r \in Requests, req[r].query \in Queries
  PROVE  /\ \A p \in Pairs(r) : KeyOf(r, p) \in CellsOf(From(r)) \X CellsOf(To(r))
         /\ CellsOf(From(r)) \X CellsOf(To(r)) \subseteq Keys
<1>1. \A i \in DOMAIN From(r) : From(r)[i] \in DOMAIN Cell
  BY QueryFields
<1>2. \A i \in DOMAIN To(r) : To(r)[i] \in DOMAIN Cell
  BY QueryFields
<1>3. CellsOf(From(r)) \subseteq Range(Cell) /\ CellsOf(To(r)) \subseteq Range(Cell)
  BY <1>1, <1>2 DEF CellsOf, Range
<1>4. QED BY <1>3 DEF Pairs, KeyOf, CellsOf, Keys

LEMMA UniquePairsType ==
  ASSUME NEW r \in Requests, req[r].query \in Queries
  PROVE  /\ UniquePairs(r) \in Seq(CellsOf(From(r)) \X CellsOf(To(r)))
         /\ Range(UniquePairs(r)) \subseteq CellsOf(From(r)) \X CellsOf(To(r))
<1> DEFINE m == Len(From(r))
           n == Len(To(r))
           R == CellsOf(From(r)) \X CellsOf(To(r))
           at(x) == <<((x - 1) \div n) + 1, ((x - 1) % n) + 1>>
           s == [x \in 1..(m * n) |-> KeyOf(r, at(x))]
<1>1. m \in Nat /\ n \in Nat /\ m * n \in Nat /\ Pairs(r) = (1..m) \X (1..n)
  BY QueryFields DEF Pairs
<1>2. UniquePairs(r) = Distinct(s)
  BY DEF UniquePairs
<1>3. \A x \in 1..(m * n) : at(x) \in Pairs(r)
  <2> HIDE DEF m, n
  <2>1. QED BY <1>1, Places
<1>4. \A x \in 1..(m * n) : KeyOf(r, at(x)) \in R
  BY <1>3, KeyTypes
<1>5. s \in Seq(R)
  <2> HIDE DEF at, R, m, n
  <2>1. QED BY <1>1, <1>4
<1> HIDE DEF R, s
<1>6. Distinct(s) \in Seq(R)
  BY <1>5, DistinctType
<1>7. UniquePairs(r) \in Seq(R)
  BY <1>2, <1>6
<1>8. Range(UniquePairs(r)) \subseteq R
  BY <1>7 DEF Range
<1>9. QED BY <1>7, <1>8 DEF R

LEMMA ProjectedMatch ==
  ASSUME NEW r \in Requests, req[r].query \in Queries, now \in 0..MaxTime, NEW found,
         \A k \in DOMAIN found : found[k] \in Figure /\ Fits(found[k], k)
  PROVE  /\ DOMAIN Projected(r, found) = (DOMAIN From(r)) \X (DOMAIN To(r))
         /\ \A p \in Pairs(r) : /\ Projected(r, found)[p] \in Figure
                                /\ Fits(Projected(r, found)[p], KeyOf(r, p))
<1>1. DOMAIN Projected(r, found) = (DOMAIN From(r)) \X (DOMAIN To(r))
  BY DEF Projected, Pairs
<1>2. ASSUME NEW p \in Pairs(r)
      PROVE  Projected(r, found)[p] \in Figure /\ Fits(Projected(r, found)[p], KeyOf(r, p))
  <2> DEFINE from == From(r)[p[1]]
             to == To(r)[p[2]]
             e == Estimated(from, to)
  <2>1. from \in DOMAIN Cell /\ to \in DOMAIN Cell
    BY QueryFields DEF Pairs
  <2>2. e \in Figure /\ e.from = from /\ e.to = to /\ Marked(e)
    BY <2>1 DEF Estimated, Figure, Seconds, Marked
  <2>3. Fits(e, KeyOf(r, p))
    BY <2>2 DEF Fits, Between, KeyOf
  <2>4. Projected(r, found)[p] = IF KeyOf(r, p) \in DOMAIN found THEN found[KeyOf(r, p)] ELSE e
    BY DEF Projected
  <2> HIDE DEF e
  <2>5. QED BY <2>2, <2>3, <2>4
<1>3. QED BY <1>1, <1>2

LEMMA CacheStart == CacheInit => CacheInv
<1> SUFFICES ASSUME CacheInit PROVE CacheInv
  OBVIOUS
<1>1. CacheTyped
  BY MatrixSizes DEF CacheInit, CacheTyped
<1>2. RowsSound
  BY DEF CacheInit, RowsSound
<1>3. ASSUME NEW r \in Requests PROVE Sound(req[r])
  <2>1. req[r] = Unasked
    BY DEF CacheInit
  <2>2. Sound(Unasked)
    BY DEF Sound, Unasked, Asking, Collecting, Answered
  <2>3. QED BY <2>1, <2>2
<1>4. QED BY <1>1, <1>2, <1>3 DEF CacheInv

\* A step of one request leaves the others as they are.
LEMMA OthersSound ==
  ASSUME CacheInv, now' = now, NEW r \in Requests, DOMAIN req' = DOMAIN req,
         \A s \in Requests \ {r} : req'[s] = req[s], Sound(req[r])',
         cache' = cache
  PROVE  CacheInv'
<1>1. CacheTyped'
  BY DEF CacheInv, CacheTyped
<1>2. RowsSound'
  BY DEF CacheInv, RowsSound
<1>3. ASSUME NEW s \in Requests PROVE Sound(req[s])'
  <2>1. CASE s = r
    BY <2>1
  <2>2. CASE s # r
    <3>1. Sound(req[s]) /\ req'[s] = req[s]
      BY <2>2 DEF CacheInv
    <3>2. QED BY <3>1 DEF Sound, Asking, Collecting, Answered, Placed
  <2>3. QED BY <2>1, <2>2
<1>4. QED BY <1>1, <1>2, <1>3 DEF CacheInv

LEMMA AskStep ==
  ASSUME CacheInv, NEW r \in Requests, Ask(r)
  PROVE  CacheInv'
<1>1. PICK q \in Queries, b \in Buckets :
        req' = [req EXCEPT ![r].pc = "asked", ![r].query = q, ![r].bucket = b, ![r].begun = now]
  BY DEF Ask
<1> DEFINE old == req[r]
           new == [old EXCEPT !.pc = "asked", !.query = q, !.bucket = b, !.begun = now]
<1>2. DOMAIN req = Requests /\ Sound(old) /\ now \in Nat /\ old.pc = "idle"
  BY MatrixSizes DEF CacheInv, CacheTyped, Ask
<1>3. req'[r] = new /\ DOMAIN req' = DOMAIN req /\ \A s \in Requests \ {r} : req'[s] = req[s]
  BY <1>1, <1>2
<1>4. now' = now /\ cache' = cache
  BY DEF Ask
<1> HIDE DEF old
<1>5. DOMAIN old = DOMAIN Unasked
  BY <1>2 DEF Sound
<1>6. /\ DOMAIN new = DOMAIN Unasked
      /\ new.pc = "asked" /\ new.query = q /\ new.bucket = b /\ new.begun = now
      /\ new.known = old.known /\ new.next = old.next /\ new.results = old.results
      /\ new.answer = old.answer
  BY <1>5 DEF Unasked
<1> HIDE DEF new
<1>7. Sound(req[r])'
  <2>1. Asking(req[r])' /\ Collecting(req[r])' /\ Answered(req[r])'
    BY <1>2, <1>3, <1>4, <1>6 DEF Asking, Collecting, Answered
  <2>2. QED BY <2>1, <1>2, <1>3, <1>4, <1>6 DEF Sound
<1>8. QED BY <1>3, <1>4, <1>7, OthersSound

LEMMA ReadCacheStep ==
  ASSUME CacheInv, NEW r \in Requests, ReadCache(r)
  PROVE  CacheInv'
<1> DEFINE old == req[r]
           table == cache[req[r].bucket]
           asked == UniquePairs(r)
           hits == {k \in Range(asked) : InDate(req[r].bucket, k)}
           known == [k \in hits |-> [flag |-> "cached", seconds |-> table[k].seconds,
                                     from |-> table[k].from, to |-> table[k].to,
                                     at |-> table[k].at, polyline |-> table[k].polyline]]
           missing == {k \in Range(asked) :
                        k \notin hits \/ (req[r].query.polylines /\ ~table[k].polyline)}
           done == [old EXCEPT !.pc = "answered", !.answer = Projected(r, known)]
           more == [old EXCEPT !.pc = "fetching", !.known = known, !.uncached = missing,
                               !.origins = Ends(asked, missing, 1), !.dests = Ends(asked, missing, 2)]
<1>1. req' = [req EXCEPT ![r] = IF missing = {} THEN done ELSE more]
  BY DEF ReadCache
<1>2. /\ DOMAIN req = Requests /\ Sound(req[r]) /\ now \in 0..MaxTime /\ now' = now /\ cache' = cache
      /\ req[r].pc = "asked" /\ cache \in [Buckets -> [Keys -> Row \cup {Nothing}]] /\ RowsSound
  BY DEF CacheInv, CacheTyped, ReadCache
<1>3. req'[r] = (IF missing = {} THEN done ELSE more)
  BY <1>1, <1>2
<1>4. DOMAIN req' = DOMAIN req /\ \A s \in Requests \ {r} : req'[s] = req[s]
  BY <1>1, <1>2
<1>5. /\ req[r].query \in Queries /\ req[r].bucket \in Buckets /\ req[r].begun \in {now - 1, now}
      /\ req[r].next = 1 /\ req[r].results = {} /\ req[r].known = <<>> /\ req[r].answer = <<>>
      /\ DOMAIN req[r] = DOMAIN Unasked
  BY <1>2 DEF Sound, Asking
<1>6. /\ asked \in Seq(CellsOf(From(r)) \X CellsOf(To(r)))
      /\ Range(asked) \subseteq CellsOf(From(r)) \X CellsOf(To(r))
      /\ Range(asked) \subseteq Keys
  BY <1>5, UniquePairsType, KeyTypes
<1> HIDE DEF asked
<1>7. \A k \in DOMAIN known : known[k] \in Figure /\ Fits(known[k], k)
  <2>1. SUFFICES ASSUME NEW k \in hits PROVE known[k] \in Figure /\ Fits(known[k], k)
    OBVIOUS
  <2>2. k \in Keys /\ table[k] \in Row \cup {Nothing} /\ table[k] # Nothing
    BY <1>2, <1>5, <1>6 DEF InDate
  <2>3. table[k] \in Row /\ Between(table[k], k) /\ table[k].seconds # "estimate"
    BY <2>2, <1>2, <1>5 DEF RowsSound
  <2> HIDE DEF table
  <2>4. QED BY <2>3 DEF Row, Figure, Between, Fits, Marked
<1> HIDE DEF known
<1>8. CASE missing = {}
  <2>1. DOMAIN Projected(r, known) = (DOMAIN From(r)) \X (DOMAIN To(r))
    BY <1>2, <1>5, <1>7, ProjectedMatch
  <2>2. \A p \in Pairs(r) : Projected(r, known)[p] \in Figure
                             /\ Fits(Projected(r, known)[p], KeyOf(r, p))
    BY <1>2, <1>5, <1>7, ProjectedMatch
  <2> DEFINE answer == Projected(r, known)
  <2> HIDE DEF answer, missing
  <2>3. /\ DOMAIN done = DOMAIN Unasked
        /\ done.pc = "answered" /\ done.query = req[r].query /\ done.answer = Projected(r, known)
        /\ done.results = req[r].results /\ done.known = req[r].known
    BY <1>5 DEF Unasked
  <2> HIDE DEF done
  <2>4. req'[r] = done
    BY <1>3, <1>8
  <2>5. Answered(req[r])'
    BY <2>1, <2>2, <2>3, <2>4, <1>5 DEF Answered, From, To, Pairs, KeyOf
  <2>6. Sound(req[r])'
    BY <2>3, <2>4, <2>5, <1>5 DEF Sound, Asking, Collecting
  <2>7. QED BY <2>6, <1>2, <1>4, OthersSound
<1>9. CASE missing # {}
  <2>1. Ends(asked, missing, 1) \in Seq(CellsOf(From(r)))
    BY <1>6, EndsType
  <2>2. Ends(asked, missing, 2) \in Seq(CellsOf(To(r)))
    BY <1>6, EndsType
  <2>3. missing \subseteq Keys
    BY <1>6
  <2> HIDE DEF missing
  <2>4. /\ DOMAIN more = DOMAIN Unasked
        /\ more.pc = "fetching" /\ more.query = req[r].query /\ more.known = known
        /\ more.uncached = missing /\ more.origins = Ends(asked, missing, 1)
        /\ more.dests = Ends(asked, missing, 2) /\ more.next = req[r].next
        /\ more.results = req[r].results /\ more.answer = req[r].answer
        /\ more.bucket = req[r].bucket /\ more.begun = req[r].begun
    BY <1>5 DEF Unasked
  <2> HIDE DEF more
  <2>5. req'[r] = more
    BY <1>3, <1>9
  <2>6. Asking(req[r])'
    BY <2>4, <2>5, <1>5, <1>2 DEF Asking
  <2>7. Collecting(req[r])'
    BY <2>1, <2>2, <2>3, <2>4, <2>5, <1>5, <1>7 DEF Collecting, From, To
  <2>8. Sound(req[r])'
    BY <2>4, <2>5, <2>6, <2>7, <1>5 DEF Sound, Answered
  <2>9. QED BY <2>8, <1>2, <1>4, OthersSound
<1>10. QED BY <1>8, <1>9

LEMMA ChunkPlaces ==
  ASSUME NEW r \in Requests, req[r].origins # <<>>, NEW R, NEW T,
         req[r].origins \in Seq(R), req[r].dests \in Seq(T), req[r].next \in Nat \ {0}
  PROVE  /\ ChunkSize(r) \in Nat \ {0}
         /\ req[r].next <= Len(req[r].dests) =>
              \A d \in Chunk(r) : Shifted(r, d) \in 1..Len(req[r].dests)
<1> DEFINE len == Len(req[r].origins)
           size == ChunkSize(r)
           share == MaxElements \div len
           left == Len(req[r].dests) - req[r].next + 1
<1>1. len \in Nat \ {0}
  OBVIOUS
<1>2. share \in Int
  <2> HIDE DEF len
  <2>1. QED BY <1>1, MatrixSizes
<1>3. size \in {1, share} /\ size >= 1
  <2> DEFINE S == {1, share}
  <2>1. \E x \in S : \A y \in S : x >= y
    <3> HIDE DEF share
    <3>1. 1 >= share \/ share >= 1
      BY <1>2
    <3>2. QED BY <1>2, <3>1
  <2>2. Max(S) \in S /\ \A y \in S : Max(S) >= y
    <3> HIDE DEF S
    <3>1. QED BY <2>1 DEF Max
  <2>3. size = Max(S)
    BY DEF ChunkSize
  <2>4. QED BY <2>2, <2>3
<1>4. size \in Nat \ {0}
  <2> HIDE DEF share, size
  <2>1. QED BY <1>2, <1>3
<1>5. ASSUME req[r].next <= Len(req[r].dests), NEW d \in Chunk(r)
      PROVE  Shifted(r, d) \in 1..Len(req[r].dests)
  <2> DEFINE S == {size, left}
  <2>1. left \in Int /\ Len(req[r].dests) \in Nat
    OBVIOUS
  <2>2. \E x \in S : \A y \in S : x <= y
    <3> HIDE DEF size, left
    <3>1. size <= left \/ left <= size
      BY <1>4, <2>1
    <3>2. QED BY <1>4, <2>1, <3>1
  <2>3. Min(S) \in S /\ \A y \in S : Min(S) <= y
    <3> HIDE DEF S
    <3>1. QED BY <2>2 DEF Min
  <2>4. Chunk(r) = 1..Min(S)
    BY DEF Chunk
  <2>5. Min(S) \in Int /\ Min(S) <= left
    <3> HIDE DEF size, left
    <3>1. QED BY <2>3, <2>1, <1>4
  <2> HIDE DEF S
  <2>6. d \in Int /\ 1 <= d /\ d <= Min(S)
    BY <2>4, <2>5
  <2>7. d <= left
    <3> HIDE DEF left
    <3>1. QED BY <2>5, <2>6, <2>1
  <2>8. QED BY <2>6, <2>7, <2>1 DEF Shifted
<1>6. QED BY <1>4, <1>5

LEMMA FetchedPlaced ==
  ASSUME NEW r \in Requests, Sound(req[r]), Fetching(r), now \in 0..MaxTime,
         NEW secs, DOMAIN secs \subseteq Whole(r), NEW flag \in {"fresh", "estimated"},
         NEW line \in BOOLEAN,
         \A w \in DOMAIN secs : secs[w] \in Seconds /\ (flag = "estimated" <=> secs[w] = "estimate"),
         NEW x \in Fetched(r, secs, flag, line)
  PROVE  Placed(req[r], x)
<1> DEFINE from(w) == FirstIn(From(r), req[r].origins[w[1]])
           to(w) == FirstIn(To(r), req[r].dests[w[2] + req[r].next - 1])
           entry(w) == [flag |-> flag, seconds |-> secs[w], at |-> now,
                        polyline |-> line /\ secs[w] = "drive", from |-> from(w), to |-> to(w)]
<1>1. PICK w \in DOMAIN secs : x = [origin |-> w[1], dest |-> Shifted(r, w[2]), entry |-> entry(w)]
  BY DEF Fetched
<1>2. w[1] \in DOMAIN req[r].origins /\ w[2] \in Chunk(r)
  BY DEF Whole
<1>3. /\ req[r].pc = "fetching" /\ req[r].next <= Len(req[r].dests)
      /\ req[r].query \in Queries /\ req[r].begun \in {now - 1, now}
      /\ req[r].origins \in Seq(CellsOf(From(r))) /\ req[r].dests \in Seq(CellsOf(To(r)))
  BY DEF Fetching, Sound, Asking, Collecting, From, To
<1>4. req[r].origins # <<>> /\ req[r].next \in Nat \ {0}
  <2>1. req[r].origins # <<>>
    BY <1>2, <1>3
  <2>2. QED BY <2>1, <1>3 DEF Sound, Collecting
<1>5. Shifted(r, w[2]) \in DOMAIN req[r].dests
  <2>1. Shifted(r, w[2]) \in 1..Len(req[r].dests)
    BY <1>2, <1>3, <1>4, ChunkPlaces
  <2>2. QED BY <2>1, <1>3
<1>6. Shifted(r, w[2]) = w[2] + req[r].next - 1
  BY DEF Shifted
<1>7. From(r) \in Seq(DOMAIN Cell) /\ To(r) \in Seq(DOMAIN Cell)
  BY <1>3, QueryFields
<1>8. from(w) \in DOMAIN Cell /\ Cell[from(w)] = req[r].origins[w[1]]
  <2>1. req[r].origins[w[1]] \in CellsOf(From(r))
    BY <1>2, <1>3
  <2>2. QED BY <2>1, <1>7, FirstInCell
<1>9. to(w) \in DOMAIN Cell /\ Cell[to(w)] = req[r].dests[Shifted(r, w[2])]
  <2>1. req[r].dests[Shifted(r, w[2])] \in CellsOf(To(r))
    BY <1>5, <1>3
  <2>2. to(w) = FirstIn(To(r), req[r].dests[Shifted(r, w[2])])
    BY <1>6
  <2>3. QED BY <2>1, <2>2, <1>7, FirstInCell
<1> HIDE DEF from, to
<1>10. /\ entry(w) \in Figure /\ Marked(entry(w))
       /\ entry(w).from = from(w) /\ entry(w).to = to(w) /\ entry(w).at = now
  BY <1>8, <1>9 DEF Figure, Marked
<1> HIDE DEF entry
<1>11. x.origin = w[1] /\ x.dest = Shifted(r, w[2]) /\ x.entry = entry(w)
  BY <1>1
<1>12. now >= req[r].begun
  BY <1>3
<1>13. Fits(entry(w), <<req[r].origins[w[1]], req[r].dests[Shifted(r, w[2])]>>)
  BY <1>8, <1>9, <1>10 DEF Fits, Between
<1>14. QED BY <1>2, <1>5, <1>10, <1>11, <1>12, <1>13 DEF Placed

\* A call that was answered, in whole or in part, or has failed.
LEMMA ChunkStep ==
  ASSUME CacheInv, NEW r \in Requests, Fetching(r), NEW got,
         \A x \in got : Placed(req[r], x),
         req' = [req EXCEPT ![r].results = @ \cup got, ![r].next = @ + ChunkSize(r)],
         UNCHANGED <<now, cache>>
  PROVE  CacheInv'
<1> DEFINE old == req[r]
           all == req[r].results \cup got
           next == req[r].next + ChunkSize(r)
           new == [old EXCEPT !.results = all, !.next = next]
<1>1. /\ DOMAIN req = Requests /\ Sound(req[r]) /\ now \in 0..MaxTime /\ now' = now /\ cache' = cache
      /\ req[r].pc = "fetching"
  BY DEF CacheInv, CacheTyped, Fetching
<1>2. DOMAIN req[r] = DOMAIN Unasked
  BY <1>1 DEF Sound
<1>3. /\ req'[r] = new /\ DOMAIN req' = DOMAIN req
      /\ \A s \in Requests \ {r} : req'[s] = req[s]
  BY <1>1, <1>2
<1> HIDE DEF all, next
<1>4. /\ DOMAIN new = DOMAIN Unasked
      /\ new.results = all /\ new.next = next
      /\ new.pc = req[r].pc /\ new.query = req[r].query /\ new.bucket = req[r].bucket
      /\ new.begun = req[r].begun /\ new.known = req[r].known /\ new.uncached = req[r].uncached
      /\ new.origins = req[r].origins /\ new.dests = req[r].dests /\ new.answer = req[r].answer
  BY <1>2 DEF Unasked
<1> HIDE DEF new
<1>5. req[r].origins # <<>> => next \in Nat \ {0}
  <2>1. SUFFICES ASSUME req[r].origins # <<>> PROVE next \in Nat \ {0}
    OBVIOUS
  <2>2. /\ req[r].next \in Nat \ {0}
        /\ req[r].origins \in Seq(CellsOf(req[r].query.from))
        /\ req[r].dests \in Seq(CellsOf(req[r].query.to))
    BY <2>1, <1>1 DEF Sound, Collecting
  <2>3. ChunkSize(r) \in Nat \ {0}
    BY <2>1, <2>2, ChunkPlaces
  <2>4. QED BY <2>2, <2>3 DEF next
<1>6. \A x \in all : Placed(req[r], x)
  BY <1>1 DEF Sound, Collecting, all
<1>7. Collecting(req[r])'
  <2>1. \A x \in all : Placed(req[r], x)'
    BY <1>3, <1>4, <1>6 DEF Placed
  <2>2. QED BY <2>1, <1>1, <1>3, <1>4, <1>5 DEF Sound, Collecting
<1>8. Asking(req[r])'
  BY <1>1, <1>3, <1>4 DEF Sound, Asking
<1>9. Sound(req[r])'
  BY <1>1, <1>3, <1>4, <1>7, <1>8 DEF Sound, Answered
<1>10. QED BY <1>1, <1>3, <1>9, OthersSound

LEMMA FetchStep ==
  ASSUME CacheInv, NEW r \in Requests, FetchChunk(r) \/ FallBack(r)
  PROVE  CacheInv'
<1>1. Fetching(r) /\ Sound(req[r]) /\ now \in 0..MaxTime
  BY DEF CacheInv, CacheTyped, FetchChunk, FallBack
<1>2. CASE FetchChunk(r)
  <2>1. req[r].query.polylines \in BOOLEAN
    BY <1>1, QueryFields DEF Fetching, Sound, Asking
  <2>2. PICK part \in SUBSET Whole(r) : \E secs \in [part -> {"drive", "zero"}] :
          req' = [req EXCEPT ![r].results = @ \cup Fetched(r, secs, "fresh", req[r].query.polylines),
                             ![r].next = @ + ChunkSize(r)]
    BY <1>2 DEF FetchChunk
  <2>3. PICK secs \in [part -> {"drive", "zero"}] :
          req' = [req EXCEPT ![r].results = @ \cup Fetched(r, secs, "fresh", req[r].query.polylines),
                             ![r].next = @ + ChunkSize(r)]
    BY <2>2
  <2> DEFINE got == Fetched(r, secs, "fresh", req[r].query.polylines)
  <2>4. \A x \in got : Placed(req[r], x)
    <3>1. /\ DOMAIN secs \subseteq Whole(r)
          /\ \A w \in DOMAIN secs : secs[w] \in Seconds /\ secs[w] # "estimate"
      BY DEF Seconds
    <3>2. QED BY <1>1, <2>1, <3>1, FetchedPlaced
  <2>5. UNCHANGED <<now, cache>>
    BY <1>2 DEF FetchChunk
  <2> HIDE DEF got
  <2>6. req' = [req EXCEPT ![r].results = @ \cup got, ![r].next = @ + ChunkSize(r)]
    BY <2>3 DEF got
  <2>7. QED BY <2>4, <2>5, <2>6, <1>1, ChunkStep
<1>3. CASE FallBack(r)
  <2> DEFINE secs == [w \in Whole(r) |-> "estimate"]
             got == Fetched(r, secs, "estimated", FALSE)
  <2>1. \A x \in got : Placed(req[r], x)
    <3>1. DOMAIN secs = Whole(r) /\ \A w \in DOMAIN secs : secs[w] \in Seconds /\ secs[w] = "estimate"
      BY DEF Seconds
    <3> HIDE DEF secs
    <3>2. QED BY <1>1, <3>1, FetchedPlaced
  <2>2. /\ UNCHANGED <<now, cache>>
        /\ req' = [req EXCEPT ![r].results = @ \cup got, ![r].next = @ + ChunkSize(r)]
    BY <1>3 DEF FallBack
  <2> HIDE DEF got
  <2>3. QED BY <2>1, <2>2, <1>1, ChunkStep
<1>4. QED BY <1>2, <1>3

LEMMA RefusedStep ==
  ASSUME CacheInv, NEW r \in Requests, Refused(r)
  PROVE  CacheInv'
<1>1. DOMAIN req = Requests /\ now' = now /\ cache' = cache
  BY DEF CacheInv, CacheTyped, Refused
<1> DEFINE new == [Unasked EXCEPT !.pc = "refused"]
<1>2. req'[r] = new /\ DOMAIN req' = DOMAIN req /\ \A s \in Requests \ {r} : req'[s] = req[s]
  BY <1>1 DEF Refused
<1>3. /\ DOMAIN new = DOMAIN Unasked /\ new.pc = "refused" /\ new.query = Nothing
      /\ new.results = {} /\ new.known = <<>> /\ new.answer = <<>>
  BY DEF Unasked
<1> HIDE DEF new
<1>4. Sound(req[r])'
  BY <1>2, <1>3 DEF Sound, Asking, Collecting, Answered
<1>5. QED BY <1>1, <1>2, <1>4, OthersSound

\* What was asked and found: a figure of the cells of its key.
LEMMA ResultsMatch ==
  ASSUME NEW r \in Requests, Sound(req[r]), req[r].pc = "fetching",
         NEW k \in DOMAIN Results(r)
  PROVE  /\ k \in Keys /\ Results(r)[k] \in Figure /\ Fits(Results(r)[k], k)
         /\ Results(r)[k].at >= req[r].begun
<1> DEFINE of(j) == {x \in req[r].results : /\ req[r].origins[x.origin] = j[1]
                                            /\ req[r].dests[x.dest] = j[2]}
           got == {j \in req[r].uncached : of(j) # {}}
           it == CHOOSE x \in of(k) : TRUE
<1>1. Results(r) = [j \in got |-> (CHOOSE x \in of(j) : TRUE).entry]
  BY DEF Results
<1>2. k \in got
  BY <1>1
<1>3. Results(r)[k] = it.entry
  BY <1>1, <1>2
<1>4. k \in Keys /\ of(k) # {}
  BY <1>2 DEF Sound, Collecting
<1>5. it \in of(k)
  <2> HIDE DEF of
  <2>1. QED BY <1>4
<1> HIDE DEF it
<1>6. Placed(req[r], it) /\ req[r].origins[it.origin] = k[1] /\ req[r].dests[it.dest] = k[2]
  BY <1>5 DEF Sound, Collecting
<1>7. k = <<k[1], k[2]>>
  BY <1>4 DEF Keys
<1>8. QED BY <1>3, <1>4, <1>6, <1>7 DEF Placed, Fits, Between

LEMMA WrittenSound ==
  ASSUME CacheInv, NEW r \in Requests, req[r].pc = "fetching"
  PROVE  /\ Written(r, Results(r)) \in [Buckets -> [Keys -> Row \cup {Nothing}]]
         /\ \A b \in Buckets, k \in Keys :
              \/ Written(r, Results(r))[b][k] = cache[b][k]
              \/ /\ Written(r, Results(r))[b][k].seconds # "estimate"
                 /\ Written(r, Results(r))[b][k].expires <= Written(r, Results(r))[b][k].at + Ttl + 1
                 /\ Between(Written(r, Results(r))[b][k], k)
<1> DEFINE found == Results(r)
           bucket == req[r].bucket
           row(k) == [from |-> found[k].from, to |-> found[k].to, at |-> found[k].at,
                      seconds |-> found[k].seconds, polyline |-> found[k].polyline,
                      expires |-> now + Ttl]
           table == [k \in Keys |-> IF k \in ToCache(found) THEN row(k) ELSE cache[bucket][k]]
<1>1. /\ Sound(req[r]) /\ now \in 0..MaxTime /\ bucket \in Buckets
      /\ cache \in [Buckets -> [Keys -> Row \cup {Nothing}]] /\ req[r].begun \in {now - 1, now}
  BY DEF CacheInv, CacheTyped, Sound, Asking
<1>2. Written(r, found) = [cache EXCEPT ![bucket] = table]
  BY DEF Written
<1>3. ASSUME NEW k \in Keys, k \in ToCache(found)
      PROVE  /\ row(k) \in Row /\ row(k).seconds # "estimate"
             /\ row(k).expires <= row(k).at + Ttl + 1 /\ Between(row(k), k)
  <2>1. k \in DOMAIN found /\ found[k].flag = "fresh"
    BY <1>3 DEF ToCache
  <2>2. /\ found[k] \in Figure /\ Between(found[k], k) /\ found[k].at >= req[r].begun
        /\ found[k].seconds # "estimate"
    BY <2>1, <1>1, ResultsMatch DEF Fits, Marked
  <2> HIDE DEF found
  <2>3. /\ found[k].from \in DOMAIN Cell /\ found[k].to \in DOMAIN Cell
        /\ found[k].at \in 0..MaxTime /\ found[k].polyline \in BOOLEAN
        /\ found[k].seconds \in Seconds
    BY <2>2 DEF Figure
  <2>4. now + Ttl \in 0..(MaxTime + Ttl)
    BY <1>1, MatrixSizes
  <2>5. row(k) \in Row
    BY <2>3, <2>4 DEF Row
  <2>6. now + Ttl <= found[k].at + Ttl + 1
    BY <2>2, <2>3, <1>1, MatrixSizes
  <2>7. QED BY <2>1, <2>2, <2>5, <2>6 DEF Between
<1> HIDE DEF found, row
<1>4. table \in [Keys -> Row \cup {Nothing}]
  BY <1>1, <1>3
<1>5. \A k \in Keys : table[k] = IF k \in ToCache(found) THEN row(k) ELSE cache[bucket][k]
  OBVIOUS
<1> HIDE DEF table
<1>6. Written(r, found) \in [Buckets -> [Keys -> Row \cup {Nothing}]]
  BY <1>1, <1>2, <1>4
<1>7. ASSUME NEW b \in Buckets, NEW k \in Keys
      PROVE  \/ Written(r, found)[b][k] = cache[b][k]
             \/ Written(r, found)[b][k] = row(k) /\ k \in ToCache(found)
  BY <1>1, <1>2, <1>5
<1>8. QED BY <1>3, <1>6, <1>7 DEF found

LEMMA DeliverStep ==
  ASSUME CacheInv, NEW r \in Requests, Deliver(r)
  PROVE  CacheInv'
<1> DEFINE found == Results(r)
           all == [k \in DOMAIN found \cup DOMAIN req[r].known |->
                     IF k \in DOMAIN found THEN found[k] ELSE req[r].known[k]]
           new == [Unasked EXCEPT !.pc = "answered", !.query = req[r].query,
                                  !.answer = Projected(r, all)]
<1>1. /\ req[r].pc = "fetching" /\ now' = now
      /\ cache' \in {cache, Written(r, found)} /\ req' = [req EXCEPT ![r] = new]
  BY DEF Deliver
<1>2. /\ DOMAIN req = Requests /\ now \in 0..MaxTime /\ RowsSound
      /\ cache \in [Buckets -> [Keys -> Row \cup {Nothing}]] /\ Sound(req[r])
  BY DEF CacheInv, CacheTyped
<1>3. req[r].query \in Queries
  BY <1>1, <1>2 DEF Sound, Asking
<1>4. \A k \in DOMAIN all : all[k] \in Figure /\ Fits(all[k], k)
  <2>1. \A k \in DOMAIN found : found[k] \in Figure /\ Fits(found[k], k)
    BY <1>1, <1>2, ResultsMatch
  <2>2. \A k \in DOMAIN req[r].known : req[r].known[k] \in Figure /\ Fits(req[r].known[k], k)
    BY <1>1, <1>2 DEF Sound, Collecting
  <2> HIDE DEF found
  <2>3. QED BY <2>1, <2>2
<1> HIDE DEF all, found
<1>5. DOMAIN Projected(r, all) = (DOMAIN From(r)) \X (DOMAIN To(r))
  BY <1>2, <1>3, <1>4, ProjectedMatch
<1>6. \A p \in Pairs(r) : Projected(r, all)[p] \in Figure
                           /\ Fits(Projected(r, all)[p], KeyOf(r, p))
  BY <1>2, <1>3, <1>4, ProjectedMatch
<1>7. /\ DOMAIN new = DOMAIN Unasked /\ new.pc = "answered" /\ new.query = req[r].query
      /\ new.answer = Projected(r, all) /\ new.results = {} /\ new.known = <<>>
  BY DEF Unasked
<1> HIDE DEF new
<1>8. req'[r] = new /\ DOMAIN req' = Requests /\ \A s \in Requests \ {r} : req'[s] = req[s]
  BY <1>1, <1>2
<1>9. Sound(req[r])'
  <2>1. Answered(req[r])'
    BY <1>3, <1>5, <1>6, <1>7, <1>8 DEF Answered, From, To, Pairs, KeyOf
  <2>2. QED BY <2>1, <1>3, <1>7, <1>8 DEF Sound, Asking, Collecting
<1>10. ASSUME NEW s \in Requests PROVE Sound(req[s])'
  <2>1. CASE s = r
    BY <2>1, <1>9
  <2>2. CASE s # r
    <3>1. Sound(req[s]) /\ req'[s] = req[s]
      BY <2>2, <1>8 DEF CacheInv
    <3>2. QED BY <3>1, <1>1 DEF Sound, Asking, Collecting, Answered, Placed
  <2>3. QED BY <2>1, <2>2
<1>11. cache' \in [Buckets -> [Keys -> Row \cup {Nothing}]]
  BY <1>1, <1>2, WrittenSound DEF found
<1>12. RowsSound'
  <2>1. SUFFICES ASSUME NEW b \in Buckets, NEW k \in Keys, cache'[b][k] # Nothing
                 PROVE  /\ cache'[b][k].seconds # "estimate"
                        /\ cache'[b][k].expires <= cache'[b][k].at + Ttl + 1
                        /\ Between(cache'[b][k], k)
    BY DEF RowsSound, Between
  <2>2. CASE cache'[b][k] = cache[b][k]
    BY <2>1, <2>2, <1>2 DEF RowsSound
  <2>3. CASE cache'[b][k] # cache[b][k]
    <3>1. cache' = Written(r, Results(r))
      BY <2>3, <1>1 DEF found
    <3>2. QED BY <3>1, <2>3, <1>1, WrittenSound
  <2>4. QED BY <2>2, <2>3
<1>13. QED BY <1>1, <1>2, <1>8, <1>10, <1>11, <1>12 DEF CacheInv, CacheTyped

\* What happens to the table alone only takes rows away or adds a polyline.
LEMMA TableOnly ==
  ASSUME CacheInv, now' = now, req' = req,
         cache' \in [Buckets -> [Keys -> Row \cup {Nothing}]],
         \A b \in Buckets, k \in Keys : cache'[b][k] # Nothing =>
           /\ cache[b][k] # Nothing
           /\ \A f \in {"from", "to", "at", "seconds", "expires"} :
                cache'[b][k][f] = cache[b][k][f]
  PROVE  CacheInv'
<1>1. CacheTyped'
  BY DEF CacheInv, CacheTyped
<1>2. RowsSound'
  <2>1. SUFFICES ASSUME NEW b \in Buckets, NEW k \in Keys, cache'[b][k] # Nothing
                 PROVE  /\ cache'[b][k].seconds # "estimate"
                        /\ cache'[b][k].expires <= cache'[b][k].at + Ttl + 1
                        /\ Between(cache'[b][k], k)
    BY DEF RowsSound, Between
  <2>2. /\ cache[b][k].seconds # "estimate"
        /\ cache[b][k].expires <= cache[b][k].at + Ttl + 1
        /\ Between(cache[b][k], k)
    BY <2>1 DEF CacheInv, RowsSound
  <2>3. /\ cache'[b][k].seconds = cache[b][k].seconds /\ cache'[b][k].at = cache[b][k].at
        /\ cache'[b][k].from = cache[b][k].from /\ cache'[b][k].to = cache[b][k].to
        /\ cache'[b][k].expires = cache[b][k].expires
    BY <2>1
  <2>4. QED BY <2>2, <2>3 DEF Between
<1>3. ASSUME NEW r \in Requests PROVE Sound(req[r])'
  <2>1. Sound(req[r])
    BY DEF CacheInv
  <2>2. QED BY <2>1 DEF Sound, Asking, Collecting, Answered, Placed
<1>4. QED BY <1>1, <1>2, <1>3 DEF CacheInv

LEMMA PersistStep ==
  ASSUME CacheInv, NEW b \in Buckets, NEW k \in Keys, PersistPolyline(b, k)
  PROVE  CacheInv'
<1> DEFINE row == cache[b][k]
           new == [row EXCEPT !.polyline = TRUE]
<1>1. cache \in [Buckets -> [Keys -> Row \cup {Nothing}]] /\ row \in Row
  BY DEF CacheInv, CacheTyped, PersistPolyline
<1>2. /\ cache' = [cache EXCEPT ![b] = [cache[b] EXCEPT ![k] = new]]
      /\ now' = now /\ req' = req
  BY <1>1 DEF PersistPolyline
<1> HIDE DEF row
<1>3. new \in Row /\ \A f \in {"from", "to", "at", "seconds", "expires"} : new[f] = row[f]
  BY <1>1 DEF Row
<1> HIDE DEF new
<1>4. cache' \in [Buckets -> [Keys -> Row \cup {Nothing}]]
  BY <1>1, <1>2, <1>3
<1>5. ASSUME NEW c \in Buckets, NEW j \in Keys, cache'[c][j] # Nothing
      PROVE  /\ cache[c][j] # Nothing
             /\ \A f \in {"from", "to", "at", "seconds", "expires"} : cache'[c][j][f] = cache[c][j][f]
  <2>1. CASE c = b /\ j = k
    <3>1. cache'[c][j] = new
      BY <2>1, <1>1, <1>2
    <3>2. cache[c][j] # Nothing
      BY <2>1 DEF PersistPolyline
    <3>3. QED BY <3>1, <3>2, <2>1, <1>3 DEF row
  <2>2. CASE ~(c = b /\ j = k)
    <3>1. cache'[c][j] = cache[c][j]
      BY <2>2, <1>1, <1>2
    <3>2. QED BY <3>1, <1>5
  <2>3. QED BY <2>1, <2>2
<1>6. QED BY <1>2, <1>4, <1>5, TableOnly

LEMMA PurgeStep ==
  ASSUME CacheInv, PurgeExpired
  PROVE  CacheInv'
<1>1. cache \in [Buckets -> [Keys -> Row \cup {Nothing}]] /\ now' = now /\ req' = req
  BY DEF CacheInv, CacheTyped, PurgeExpired
<1>2. cache' \in [Buckets -> [Keys -> Row \cup {Nothing}]]
  BY <1>1 DEF PurgeExpired
<1>3. \A b \in Buckets, k \in Keys : cache'[b][k] # Nothing => cache'[b][k] = cache[b][k]
  BY DEF PurgeExpired
<1>4. QED BY <1>1, <1>2, <1>3, TableOnly

LEMMA DayStep ==
  ASSUME CacheInv, DayPasses
  PROVE  CacheInv'
<1>1. /\ now \in 0..MaxTime /\ now' = now + 1 /\ now' \in 0..MaxTime
      /\ cache' = cache /\ req' = req
  BY MatrixSizes DEF CacheInv, CacheTyped, DayPasses
<1>2. CacheTyped' /\ RowsSound'
  BY <1>1 DEF CacheInv, CacheTyped, RowsSound
<1>3. ASSUME NEW r \in Requests PROVE Sound(req[r])'
  <2>1. Sound(req[r]) /\ (req[r].pc \in {"asked", "fetching"} => req[r].begun = now)
    BY DEF CacheInv, DayPasses
  <2>2. Asking(req[r])'
    BY <2>1, <1>1 DEF Sound, Asking
  <2>3. QED BY <2>1, <2>2, <1>1 DEF Sound, Collecting, Answered, Placed
<1>4. QED BY <1>2, <1>3 DEF CacheInv

LEMMA CacheStutter == CacheInv /\ UNCHANGED cacheVars => CacheInv'
<1> SUFFICES ASSUME CacheInv, UNCHANGED cacheVars PROVE CacheInv'
  OBVIOUS
<1>1. now' = now /\ req' = req /\ cache' = cache
  BY DEF cacheVars
<1>2. QED BY <1>1, TableOnly DEF CacheInv, CacheTyped

LEMMA CacheStep == CacheInv /\ [CacheNext]_cacheVars => CacheInv'
<1> SUFFICES ASSUME CacheInv, [CacheNext]_cacheVars PROVE CacheInv'
  OBVIOUS
<1>1. ASSUME NEW r \in Requests, Ask(r) PROVE CacheInv'
  BY <1>1, AskStep
<1>2. ASSUME NEW r \in Requests, ReadCache(r) PROVE CacheInv'
  BY <1>2, ReadCacheStep
<1>3. ASSUME NEW r \in Requests, FetchChunk(r) \/ FallBack(r) PROVE CacheInv'
  BY <1>3, FetchStep
<1>4. ASSUME NEW r \in Requests, Refused(r) PROVE CacheInv'
  BY <1>4, RefusedStep
<1>5. ASSUME NEW r \in Requests, Deliver(r) PROVE CacheInv'
  BY <1>5, DeliverStep
<1>6. ASSUME NEW b \in Buckets, NEW k \in Keys, PersistPolyline(b, k) PROVE CacheInv'
  BY <1>6, PersistStep
<1>7. CASE PurgeExpired
  BY <1>7, PurgeStep
<1>8. CASE DayPasses
  BY <1>8, DayStep
<1>9. CASE UNCHANGED cacheVars
  BY <1>9, CacheStutter
<1>10. QED BY <1>1, <1>2, <1>3, <1>4, <1>5, <1>6, <1>7, <1>8, <1>9 DEF CacheNext

LEMMA CacheInvariant == CacheSpec => []CacheInv
<1>1. CacheInit => CacheInv
  BY CacheStart
<1>2. CacheInv /\ [CacheNext]_cacheVars => CacheInv'
  BY CacheStep
<1>3. QED BY <1>1, <1>2, PTL DEF CacheSpec

\* The clock, the table and what requests hold keep their types.
THEOREM MatrixTyped == CacheSpec => []CacheTypeOK
<1>1. CacheInv => CacheTypeOK
  <2> SUFFICES ASSUME CacheInv PROVE CacheTypeOK
    OBVIOUS
  <2>1. ASSUME NEW r \in Requests
        PROVE  /\ req[r].pc \in {"idle", "asked", "fetching", "answered", "refused"}
               /\ req[r].query \in Queries \cup {Nothing}
               /\ Range(req[r].known) \subseteq Figure
               /\ \A x \in req[r].results : x.entry \in Figure
               /\ Range(req[r].answer) \subseteq Figure
    <3>1. Sound(req[r])
      BY DEF CacheInv
    <3>2. Range(req[r].known) \subseteq Figure
      <4>1. \A k \in DOMAIN req[r].known : req[r].known[k] \in Figure
        BY <3>1 DEF Sound, Collecting
      <4>2. QED BY <4>1 DEF Range
    <3>3. Range(req[r].answer) \subseteq Figure
      <4>1. CASE req[r].pc = "answered"
        <5>1. \A p \in DOMAIN req[r].answer : req[r].answer[p] \in Figure
          BY <4>1, <3>1 DEF Sound, Answered
        <5>2. QED BY <5>1 DEF Range
      <4>2. CASE req[r].pc # "answered"
        <5>1. req[r].answer = <<>>
          BY <4>2, <3>1 DEF Sound
        <5>2. QED BY <5>1 DEF Range
      <4>3. QED BY <4>1, <4>2
    <3>4. \A x \in req[r].results : x.entry \in Figure
      BY <3>1 DEF Sound, Collecting, Placed
    <3>5. QED BY <3>1, <3>2, <3>3, <3>4 DEF Sound
  <2>2. QED BY <2>1 DEF CacheInv, CacheTyped, CacheTypeOK
<1>2. QED BY <1>1, CacheInvariant, PTL

\* Whatever was cached, deduplicated, split into chunks, answered in part or
\* estimated, each pair of a matrix has a figure of its own two cells.
THEOREM MatrixInPlace == CacheSpec => []AnswersMatch
<1>1. CacheInv => AnswersMatch
  <2> SUFFICES ASSUME CacheInv, NEW r \in Requests, req[r].pc = "answered", NEW p \in Pairs(r)
               PROVE  <<Cell[req[r].answer[p].from], Cell[req[r].answer[p].to]>> = KeyOf(r, p)
    BY DEF AnswersMatch
  <2>1. Answered(req[r])
    BY DEF CacheInv, Sound
  <2>2. QED BY <2>1 DEF Answered, Fits, Between, Pairs, KeyOf, From, To
<1>2. QED BY <1>1, CacheInvariant, PTL

\* Every row the table offers is something Google answered about its two cells
\* (a drive, or the 0 of a pair without a route), given within the life of a
\* row, and no estimate reaches a matrix unmarked.
THEOREM EstimatesApart == CacheSpec => []OffersAnswers
<1>1. CacheInv => OffersAnswers
  <2> SUFFICES ASSUME CacheInv PROVE OffersAnswers
    OBVIOUS
  <2>1. ASSUME NEW b \in Buckets, NEW k \in Keys, InDate(b, k)
        PROVE  /\ cache[b][k].seconds # "estimate"
               /\ cache[b][k].at >= now - Ttl
               /\ <<Cell[cache[b][k].from], Cell[cache[b][k].to]>> = k
    <3>1. /\ cache[b][k].seconds # "estimate" /\ Between(cache[b][k], k)
          /\ cache[b][k].expires <= cache[b][k].at + Ttl + 1
          /\ cache[b][k].expires > now /\ cache[b][k] \in Row /\ now \in Nat
      BY <2>1, MatrixSizes DEF CacheInv, CacheTyped, RowsSound, InDate
    <3>2. cache[b][k].at \in Nat /\ cache[b][k].expires \in Nat
      BY <3>1, MatrixSizes DEF Row
    <3>3. cache[b][k].at >= now - Ttl
      BY <3>1, <3>2, MatrixSizes
    <3>4. QED BY <3>1, <3>3 DEF Between
  <2>2. ASSUME NEW r \in Requests, req[r].pc = "answered", NEW p \in Pairs(r)
        PROVE  Marked(req[r].answer[p])
    <3>1. Answered(req[r])
      BY DEF CacheInv, Sound
    <3>2. QED BY <3>1, <2>2 DEF Answered, Fits, Pairs, From, To
  <2>3. QED BY <2>1, <2>2 DEF OffersAnswers
<1>2. QED BY <1>1, CacheInvariant, PTL
=============================================================================
