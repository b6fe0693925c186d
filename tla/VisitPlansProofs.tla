-------------------------- MODULE VisitPlansProofs --------------------------
(***************************************************************************)
(* Proofs about VisitPlans, for any number of plans, alerts, scopes,       *)
(* windows and requests in flight.                                         *)
(***************************************************************************)
EXTENDS MCVisitPlansCore, TLAPS

Existing == {p \in Plans : status[p] # "absent"}

\* A transaction that has reached the row it is about knows its id and slot.
TxnBound ==
  \A w \in Workers :
    /\ txn[w].pc \in {"pub_read", "pub_locked", "pub_written", "rep_row", "rep_locked"}
         => txn[w].plan \in Existing
    /\ txn[w].cascade \subseteq Existing
    /\ txn[w].pc \in {"pub_read", "pub_locked", "pub_written", "gen_checked"}
         => txn[w].slot \in Slots
    /\ txn[w].alert # NoAlert => alert[txn[w].alert] # NoAlert

\* The id of a row that does not exist is used nowhere, and the rows that do
\* exist have a slot and a lineage.
RowsBound ==
  \A p \in Plans :
    IF status[p] = "absent"
    THEN /\ slot[p] = NoSlot
         /\ \A q \in Plans : parent[q] # p /\ supersededBy[q] # p /\ root[q] # p
    ELSE slot[p] \in Slots /\ root[p] \in Plans

TypeInv == TypeOK /\ TxnBound /\ RowsBound

-----------------------------------------------------------------------------
LEMMA IdleType == Idle \in Txn
BY NullAssumption DEF Idle, Txn

\* TypeOK of the alerts that a publish raises.
LEMMA RaiseAlertsType ==
  ASSUME TypeOK, NEW p \in Plans, NEW hits \in SUBSET Plans, RaiseAlerts(p, hits)
  PROVE  alert' \in [Alerts -> AlertRow \cup {NoAlert}]
<1>1. PICK id \in [hits -> FreeAlerts] :
        alert' = [a \in Alerts |->
          IF \E q \in hits : id[q] = a
          THEN [new |-> p, old |-> CHOOSE q \in hits : id[q] = a,
                resolution |-> NoPlan, status |-> "pending"]
          ELSE alert[a]]
  BY DEF RaiseAlerts
<1>2. ASSUME NEW a \in Alerts, \E q \in hits : id[q] = a
      PROVE  [new |-> p, old |-> CHOOSE q \in hits : id[q] = a,
              resolution |-> NoPlan, status |-> "pending"] \in AlertRow
  <2>1. (CHOOSE q \in hits : id[q] = a) \in hits
    BY <1>2
  <2> QED BY <2>1 DEF AlertRow
<1> QED BY <1>1, <1>2 DEF TypeOK

LEMMA RescheduleType ==
  ASSUME TypeOK, NEW p \in Plans, NEW hits \in SUBSET Plans, Reschedule(p, hits)
  PROVE  stop' \in [Plans -> [Days -> StopStates]]
BY DEF TypeOK, Reschedule, StopStates

LEMMA InsertDraftType ==
  ASSUME TypeOK, NEW p \in Plans, NEW s \in Slots, InsertDraft(p, s)
  PROVE  /\ slot' \in [Plans -> Slots \cup {NoSlot}]
         /\ stop' \in [Plans -> [Days -> StopStates]]
BY DEF TypeOK, InsertDraft, StopStates

LEMMA ResolveAlertType ==
  ASSUME TypeOK, NEW a \in Alerts \cup {NoAlert}, NEW q \in Plans,
         a # NoAlert => alert[a] \in AlertRow,
         ResolveAlert(a, q)
  PROVE  alert' \in [Alerts -> AlertRow \cup {NoAlert}]
<1>1. CASE a # NoAlert /\ alert[a].status = "pending"
  <2>1. [alert[a] EXCEPT !.status = "reoptimized", !.resolution = q] \in AlertRow
    BY <1>1 DEF AlertRow
  <2> QED BY <1>1, <2>1 DEF TypeOK, ResolveAlert
<1> QED BY <1>1 DEF TypeOK, ResolveAlert

-----------------------------------------------------------------------------
(* Type correctness.                                                       *)

\* What TxnBound says of one transaction.
Bound(t) ==
  /\ t.pc \in {"pub_read", "pub_locked", "pub_written", "rep_row", "rep_locked"}
       => t.plan \in Existing
  /\ t.cascade \subseteq Existing
  /\ t.pc \in {"pub_read", "pub_locked", "pub_written", "gen_checked"}
       => t.slot \in Slots
  /\ t.alert # NoAlert => alert[t.alert] # NoAlert

\* A request that only reads and locks changes its own transaction.
LEMMA OwnTxn ==
  ASSUME TypeInv, NEW w \in Workers, NEW t \in Txn, Bound(t),
         txn' = [txn EXCEPT ![w] = t], reply' \in [Workers -> Replies],
         UNCHANGED <<planVars, lineageVars, stop, alert>>
  PROVE  TypeInv'
<1>1. TypeOK'
  BY DEF TypeInv, TypeOK, planVars, lineageVars
<1>2. TxnBound'
  BY DEF TypeInv, TypeOK, TxnBound, Bound, Existing, planVars
<1>3. RowsBound'
  BY DEF TypeInv, RowsBound, planVars, lineageVars
<1> QED BY <1>1, <1>2, <1>3 DEF TypeInv

LEMMA EndType ==
  ASSUME TypeInv, NEW w \in Workers, NEW r \in Replies, End(w, r),
         UNCHANGED <<planVars, lineageVars, stop, alert>>
  PROVE  TypeInv'
<1>1. Bound(Idle)
  BY DEF Bound, Idle, Existing
<1>2. reply' \in [Workers -> Replies]
  BY DEF End, TypeInv, TypeOK
<1> QED BY <1>1, <1>2, IdleType, OwnTxn DEF End

LEMMA GenerateType ==
  ASSUME TypeInv, NEW w \in Workers
  PROVE  /\ \A s \in Slots : GenerateLock(w, s) => TypeInv'
         /\ GenerateInsert(w) => TypeInv'
         /\ GenerateIndexClash(w) => TypeInv'
<1>1. ASSUME NEW s \in Slots, GenerateLock(w, s)
      PROVE  TypeInv'
  <2> DEFINE t == [Idle EXCEPT !.pc = "gen_checked", !.slot = s]
  <2>1. t \in Txn
    BY IdleType DEF Txn, Idle
  <2>2. Bound(t)
    BY DEF Bound, Idle, Existing
  <2>3. reply' \in [Workers -> Replies]
    BY <1>1 DEF GenerateLock, TypeInv, TypeOK, Replies
  <2> QED BY <1>1, <2>1, <2>2, <2>3, OwnTxn DEF GenerateLock
<1>2. ASSUME GenerateInsert(w)
      PROVE  TypeInv'
  <2>1. txn[w].slot \in Slots
    BY <1>2 DEF GenerateInsert, TypeInv, TxnBound
  <2>2. PICK p \in Plans : /\ InsertDraft(p, txn[w].slot)
                           /\ status' = [status EXCEPT ![p] = "draft"]
                           /\ version' = [version EXCEPT ![p] = 1]
                           /\ root' = [root EXCEPT ![p] = p]
    BY <1>2 DEF GenerateInsert
  <2>3. txn' \in [Workers -> Txn] /\ reply' \in [Workers -> Replies]
    BY <1>2, IdleType DEF GenerateInsert, End, TypeInv, TypeOK, Replies
  <2>4. TypeOK'
    BY <1>2, <2>1, <2>2, <2>3, InsertDraftType
    DEF GenerateInsert, TypeInv, TypeOK, Statuses
  <2>5. TxnBound'
    BY <1>2, <2>2 DEF GenerateInsert, End, Idle, TypeInv, TypeOK, TxnBound, Existing
  <2>6. RowsBound'
    BY <1>2, <2>1, <2>2 DEF GenerateInsert, InsertDraft, TypeInv, TypeOK, RowsBound
  <2> QED BY <2>4, <2>5, <2>6 DEF TypeInv
<1>3. ASSUME GenerateIndexClash(w)
      PROVE  TypeInv'
  BY <1>3, EndType DEF GenerateIndexClash, Replies
<1> QED BY <1>1, <1>2, <1>3

LEMMA PublishReadType ==
  ASSUME TypeInv, NEW w \in Workers, NEW p \in Plans, PublishRead(w, p)
  PROVE  TypeInv'
<1> DEFINE t == [Idle EXCEPT !.pc = "pub_read", !.plan = p, !.slot = slot[p]]
<1>1. slot[p] \in Slots
  BY DEF PublishRead, TypeInv, RowsBound
<1>2. t \in Txn
  BY <1>1, IdleType DEF Txn, Idle
<1>3. Bound(t)
  BY <1>1 DEF PublishRead, Bound, Idle, Existing
<1>4. reply' \in [Workers -> Replies]
  BY DEF PublishRead, TypeInv, TypeOK, Replies
<1> QED BY <1>2, <1>3, <1>4, OwnTxn DEF PublishRead

LEMMA PublishLockType ==
  ASSUME TypeInv, NEW w \in Workers, PublishLock(w)
  PROVE  TypeInv'
<1> DEFINE t == [txn[w] EXCEPT !.pc = "pub_locked"]
<1>1. t \in Txn
  BY DEF TypeInv, TypeOK, Txn
<1>2. Bound(t)
  BY DEF PublishLock, TypeInv, TypeOK, TxnBound, Bound, Txn, Existing
<1>3. txn' = [txn EXCEPT ![w] = t] /\ reply' \in [Workers -> Replies]
  BY DEF PublishLock, TypeInv, TypeOK
<1> QED BY <1>1, <1>2, <1>3, OwnTxn DEF PublishLock

LEMMA PublishWriteType ==
  ASSUME TypeInv, NEW w \in Workers, PublishWrite(w)
  PROVE  TypeInv'
<1> DEFINE p == txn[w].plan
           t == [txn[w] EXCEPT !.pc = "pub_written", !.cascade = Cascade(p),
                               !.hits = Colliding(p)]
<1>1. Cascade(p) \in SUBSET Plans /\ Colliding(p) \in SUBSET Plans
  BY DEF Cascade, LiveIn, Colliding
<1>2. t \in Txn
  BY <1>1 DEF TypeInv, TypeOK, Txn
<1>3. Bound(t)
  <2>1. Cascade(p) \subseteq Existing
    BY DEF Cascade, LiveIn, Live, Existing
  <2> QED BY <2>1 DEF PublishWrite, TypeInv, TypeOK, TxnBound, Bound, Txn
<1>4. txn' = [txn EXCEPT ![w] = t] /\ reply' \in [Workers -> Replies]
  BY DEF PublishWrite, TypeInv, TypeOK
<1> QED BY <1>2, <1>3, <1>4, OwnTxn DEF PublishWrite

LEMMA PublishCommitType ==
  ASSUME TypeInv, NEW w \in Workers, PublishCommit(w)
  PROVE  TypeInv'
<1> DEFINE p == txn[w].plan
           hits == txn[w].hits
<1>1. p \in Plans /\ hits \in SUBSET Plans
  BY DEF PublishCommit, TypeInv, TypeOK, TxnBound, Txn, Existing
<1>2. status' \in [Plans -> Statuses]
  BY DEF PublishCommit, TypeInv, TypeOK, Statuses
<1>3. archivedAt' \in [Plans -> BOOLEAN]
  BY DEF PublishCommit, TypeInv, TypeOK
<1>4. stop' \in [Plans -> [Days -> StopStates]]
  BY <1>1, RescheduleType DEF PublishCommit, TypeInv
<1>5. alert' \in [Alerts -> AlertRow \cup {NoAlert}]
  BY <1>1, RaiseAlertsType DEF PublishCommit, TypeInv
<1>6. txn' \in [Workers -> Txn] /\ reply' \in [Workers -> Replies]
  BY IdleType DEF PublishCommit, End, TypeInv, TypeOK, Replies
<1>7. TypeOK'
  BY <1>2, <1>3, <1>4, <1>5, <1>6
  DEF PublishCommit, TypeInv, TypeOK, lineageVars
<1>8. \A a \in Alerts : alert[a] # NoAlert => alert'[a] # NoAlert
  <2>1. PICK id \in [hits -> FreeAlerts] :
          alert' = [a \in Alerts |->
            IF \E q \in hits : id[q] = a
            THEN [new |-> p, old |-> CHOOSE q \in hits : id[q] = a,
                  resolution |-> NoPlan, status |-> "pending"]
            ELSE alert[a]]
    BY DEF PublishCommit, RaiseAlerts
  <2> QED BY <2>1 DEF FreeAlerts
<1>9. Existing' = Existing
  BY DEF PublishCommit, TypeInv, TxnBound, TypeOK, Txn, Existing
<1>10. TxnBound'
  <2>1. \A v \in Workers : txn[v].alert \in Alerts \cup {NoAlert}
    BY DEF TypeInv, TypeOK, Txn
  <2> QED BY <1>8, <1>9, <2>1
      DEF PublishCommit, End, Idle, TypeInv, TypeOK, TxnBound
<1>11. RowsBound'
  BY <1>9 DEF PublishCommit, TypeInv, RowsBound, lineageVars, Existing
<1> QED BY <1>7, <1>10, <1>11 DEF TypeInv

LEMMA ArchiveType ==
  ASSUME TypeInv, NEW p \in Plans, Archive(p)
  PROVE  TypeInv'
<1>1. TypeOK'
  BY DEF Archive, TypeInv, TypeOK, Statuses, lineageVars
<1>2. Existing' = Existing
  BY DEF Archive, TypeInv, TypeOK, Existing
<1>3. TxnBound'
  BY <1>2 DEF Archive, TypeInv, TxnBound
<1>4. RowsBound'
  BY <1>2 DEF Archive, TypeInv, RowsBound, lineageVars, Existing
<1> QED BY <1>1, <1>3, <1>4 DEF TypeInv

LEMMA ReplanRowType ==
  ASSUME TypeInv, NEW w \in Workers, NEW p \in Plans, NEW a \in Alerts \cup {NoAlert},
         ReplanRow(w, p, a)
  PROVE  TypeInv'
<1> DEFINE t == [Idle EXCEPT !.pc = "rep_row", !.plan = p, !.alert = a]
<1>1. t \in Txn
  BY IdleType DEF Txn, Idle
<1>2. p \in Existing
  BY DEF ReplanRow, InForce, Existing
<1>3. Bound(t)
  BY <1>2 DEF ReplanRow, FromAlert, Bound, Idle
<1>4. reply' \in [Workers -> Replies]
  BY DEF ReplanRow, TypeInv, TypeOK, Replies
<1> QED BY <1>1, <1>3, <1>4, OwnTxn DEF ReplanRow

LEMMA ReplanLockType ==
  ASSUME TypeInv, NEW w \in Workers, ReplanLock(w)
  PROVE  TypeInv'
<1> DEFINE p == txn[w].plan
<1>1. p \in Existing
  BY DEF ReplanLock, TypeInv, TxnBound
<1>2. PICK v \in {version[q] + 1 : q \in Lineage(p)} :
        txn' = [txn EXCEPT ![w] = [@ EXCEPT !.pc = "rep_locked", !.slot = slot[p],
                                            !.version = v]]
  BY DEF ReplanLock
<1> DEFINE t == [txn[w] EXCEPT !.pc = "rep_locked", !.slot = slot[p], !.version = v]
<1>3. v \in Nat
  BY DEF Lineage, TypeInv, TypeOK
<1>4. slot[p] \in Slots
  BY <1>1 DEF TypeInv, RowsBound, Existing
<1>5. t \in Txn
  BY <1>3, <1>4 DEF TypeInv, TypeOK, Txn
<1>6. Bound(t)
  BY <1>1 DEF TypeInv, TypeOK, TxnBound, Bound, Txn
<1>7. txn' = [txn EXCEPT ![w] = t] /\ reply' \in [Workers -> Replies]
  BY <1>2 DEF ReplanLock, TypeInv, TypeOK
<1> QED BY <1>5, <1>6, <1>7, OwnTxn DEF ReplanLock

LEMMA ReplanWriteType ==
  ASSUME TypeInv, NEW w \in Workers, NEW s \in Slots, ReplanWrite(w, s)
  PROVE  TypeInv'
<1> DEFINE p == txn[w].plan
           a == txn[w].alert
<1>1. p \in Existing /\ p \in Plans /\ txn[w].version \in Nat
  BY DEF ReplanWrite, TypeInv, TypeOK, TxnBound, Existing, Txn
<1>2. PICK q \in Plans :
        /\ InsertDraft(q, s)
        /\ status' = [status EXCEPT ![p] = "archived", ![q] = "draft"]
        /\ archivedAt' = [archivedAt EXCEPT ![p] = TRUE]
        /\ parent' = [parent EXCEPT ![q] = p]
        /\ supersededBy' = [supersededBy EXCEPT ![p] = q]
        /\ version' = [version EXCEPT ![q] = txn[w].version]
        /\ root' = [root EXCEPT ![q] = root[p]]
        /\ ResolveAlert(a, q)
  BY DEF ReplanWrite
<1>3. root[p] \in Plans
  BY <1>1 DEF TypeInv, RowsBound, Existing
<1>4. a \in Alerts \cup {NoAlert} /\ (a # NoAlert => alert[a] \in AlertRow)
  BY DEF TypeInv, TypeOK, TxnBound, Txn
<1>5. alert' \in [Alerts -> AlertRow \cup {NoAlert}]
  BY <1>2, <1>4, ResolveAlertType DEF TypeInv
<1>6. slot' \in [Plans -> Slots \cup {NoSlot}] /\ stop' \in [Plans -> [Days -> StopStates]]
  BY <1>2, InsertDraftType DEF TypeInv
<1>7. status' \in [Plans -> Statuses] /\ archivedAt' \in [Plans -> BOOLEAN]
  BY <1>2 DEF TypeInv, TypeOK, Statuses
<1>8. /\ parent' \in [Plans -> Plans \cup {NoPlan}]
      /\ supersededBy' \in [Plans -> Plans \cup {NoPlan}]
      /\ version' \in [Plans -> Nat]
      /\ root' \in [Plans -> Plans \cup {NoPlan}]
  BY <1>1, <1>2, <1>3 DEF TypeInv, TypeOK
<1>9. txn' \in [Workers -> Txn] /\ reply' \in [Workers -> Replies]
  BY IdleType DEF ReplanWrite, End, TypeInv, TypeOK, Replies
<1>10. Existing' = Existing \cup {q}
  BY <1>1, <1>2 DEF TypeInv, TypeOK, Existing
<1>11. \A b \in Alerts : alert[b] # NoAlert => alert'[b] # NoAlert
  <2>1. CASE a # NoAlert /\ alert[a].status = "pending"
    <3>1. alert' = [alert EXCEPT ![a] = [@ EXCEPT !.status = "reoptimized",
                                                  !.resolution = q]]
      BY <1>2, <2>1 DEF ResolveAlert
    <3>2. [alert[a] EXCEPT !.status = "reoptimized", !.resolution = q] \in AlertRow
      BY <1>4, <2>1 DEF AlertRow
    <3> QED BY <3>1, <3>2, AlertAssumption DEF TypeInv, TypeOK
  <2> QED BY <1>2, <2>1 DEF ResolveAlert
<1>12. TxnBound'
  <2>1. \A v \in Workers : txn[v].alert \in Alerts \cup {NoAlert}
    BY DEF TypeInv, TypeOK, Txn
  <2> QED BY <1>10, <1>11, <2>1
      DEF ReplanWrite, End, Idle, TypeInv, TypeOK, TxnBound
<1>13. RowsBound'
  BY <1>1, <1>2, <1>3, <1>10
  DEF InsertDraft, TypeInv, TypeOK, RowsBound, Existing
<1> QED BY <1>5, <1>6, <1>7, <1>8, <1>9, <1>12, <1>13 DEF TypeInv, TypeOK

LEMMA AlertStatusType ==
  ASSUME TypeInv, NEW a \in Alerts, Acknowledge(a) \/ Dismiss(a)
  PROVE  TypeInv'
<1>1. PICK st \in {"acknowledged", "dismissed"} :
        alert' = [alert EXCEPT ![a] = [@ EXCEPT !.status = st]]
  BY DEF Acknowledge, Dismiss
<1>2. alert[a] \in AlertRow
  BY DEF Acknowledge, Dismiss, TypeInv, TypeOK
<1>3. [alert[a] EXCEPT !.status = st] \in AlertRow
  BY <1>2 DEF AlertRow
<1>4. TypeOK'
  BY <1>1, <1>3 DEF Acknowledge, Dismiss, TypeInv, TypeOK, planVars, lineageVars
<1>5. \A b \in Alerts : alert[b] # NoAlert => alert'[b] # NoAlert
  BY <1>1, <1>3, AlertAssumption DEF TypeInv, TypeOK
<1>6. TxnBound'
  <2>1. \A v \in Workers : txn[v].alert \in Alerts \cup {NoAlert}
    BY DEF TypeInv, TypeOK, Txn
  <2> QED BY <1>5, <2>1
      DEF Acknowledge, Dismiss, TypeInv, TxnBound, Existing, planVars
<1>7. RowsBound'
  BY DEF Acknowledge, Dismiss, TypeInv, RowsBound, planVars, lineageVars
<1> QED BY <1>4, <1>6, <1>7 DEF TypeInv

LEMMA TypeStep == TypeInv /\ [Next]_vars => TypeInv'
<1> SUFFICES ASSUME TypeInv, [Next]_vars
             PROVE  TypeInv'
  OBVIOUS
<1>1. ASSUME NEW w \in Workers, Request(w)
      PROVE  TypeInv'
  BY <1>1, GenerateType, PublishReadType, ReplanRowType DEF Request
<1>2. ASSUME NEW w \in Workers, Step(w)
      PROVE  TypeInv'
  <2>1. ASSUME PublishAlertClash(w)
        PROVE  TypeInv'
    BY <2>1, EndType DEF PublishAlertClash, Replies
  <2>2. ASSUME NEW s \in Slots, ReplanIndexClash(w, s)
        PROVE  TypeInv'
    BY <2>2, EndType DEF ReplanIndexClash, Replies
  <2> QED BY <1>2, <2>1, <2>2, GenerateType, PublishLockType, PublishWriteType,
             PublishCommitType, ReplanLockType, ReplanWriteType DEF Step
<1>3. ASSUME Deadlock
      PROVE  TypeInv'
  BY <1>3, EndType DEF Deadlock, DeadlockVictim, Replies
<1>4. ASSUME NEW p \in Plans, Archive(p)
      PROVE  TypeInv'
  BY <1>4, ArchiveType
<1>5. ASSUME NEW a \in Alerts, Acknowledge(a) \/ Dismiss(a)
      PROVE  TypeInv'
  BY <1>5, AlertStatusType
<1>6. CASE UNCHANGED vars
  BY <1>6 DEF vars, planVars, lineageVars, TypeInv, TypeOK, TxnBound, RowsBound, Existing
<1> QED BY <1>1, <1>2, <1>3, <1>4, <1>5, <1>6 DEF Next

LEMMA TypeInit == Init => TypeInv
<1> SUFFICES ASSUME Init
             PROVE  TypeInv
  OBVIOUS
<1>1. TypeOK
  BY IdleType DEF Init, TypeOK, Statuses, StopStates, Replies
<1>2. TxnBound
  BY DEF Init, TxnBound, Idle
<1>3. RowsBound
  BY NullAssumption DEF Init, RowsBound
<1> QED BY <1>1, <1>2, <1>3 DEF TypeInv

LEMMA TypeInvHolds == Spec => []TypeInv
BY TypeInit, TypeStep, PTL DEF Spec

\* Every row, lock and request of the plan lifecycle keeps its type; on the
\* way, no request is about a plan that does not exist.
THEOREM TypeCorrect == Spec => []TypeOK
BY TypeInvHolds, PTL DEF TypeInv

-----------------------------------------------------------------------------
(* Locks.  Both are exclusive because a transaction takes one only when no  *)
(* other holds it, and keeps it until it ends.                             *)

\* A row selected FOR UPDATE is locked by nobody else.
RowLocks ==
  \A v, w \in Workers : v # w => ForUpdate(v) \cap RowsHeld(w) = {}

\* An advisory lock has one holder.
SlotLocks ==
  \A v, w \in Workers : \A s \in Slots : HoldsSlot(v, s) /\ HoldsSlot(w, s) => v = w

LockInv == RowLocks /\ SlotLocks

LEMMA LocksOfTxn ==
  ASSUME TypeInv, LockInv, NEW w \in Workers, NEW t \in Txn,
         txn' = [txn EXCEPT ![w] = t],
         \A v \in Workers \ {w} : /\ ForUpdate(w)' \cap RowsHeld(v) = {}
                                  /\ ForUpdate(v) \cap RowsHeld(w)' = {},
         \A s \in Slots : HoldsSlot(w, s)' => HoldsSlot(w, s) \/ SlotFree(w, s)
  PROVE  LockInv'
<1>1. \A v \in Workers \ {w} : txn'[v] = txn[v]
  BY DEF TypeInv, TypeOK
<1>2. \A v \in Workers \ {w} : /\ ForUpdate(v)' = ForUpdate(v)
                               /\ RowsHeld(v)' = RowsHeld(v)
                               /\ \A s \in Slots : HoldsSlot(v, s)' <=> HoldsSlot(v, s)
  BY <1>1 DEF ForUpdate, RowsHeld, HoldsSlot
<1>3. RowLocks'
  BY <1>2 DEF LockInv, RowLocks
<1>4. SlotLocks'
  BY <1>2 DEF LockInv, SlotLocks, SlotFree
<1> QED BY <1>3, <1>4 DEF LockInv

\* A transaction that ends, or has only read, holds nothing.
LEMMA NothingHeld ==
  ASSUME TypeInv, LockInv, NEW w \in Workers, NEW t \in Txn,
         t.pc \in {"idle", "pub_read"},
         txn' = [txn EXCEPT ![w] = t]
  PROVE  LockInv'
<1>1. txn'[w] = t
  BY DEF TypeInv, TypeOK
<1>2. ForUpdate(w)' = {} /\ RowsHeld(w)' = {} /\ \A s \in Slots : ~HoldsSlot(w, s)'
  BY <1>1 DEF ForUpdate, RowsHeld, HoldsSlot
<1> QED BY <1>2, LocksOfTxn

LEMMA LocksAtEnd ==
  ASSUME TypeInv, LockInv, NEW w \in Workers, NEW r \in Replies, End(w, r)
  PROVE  LockInv'
<1>1. Idle.pc = "idle"
  BY DEF Idle
<1> QED BY <1>1, IdleType, NothingHeld DEF End

LEMMA LockStep == TypeInv /\ LockInv /\ [Next]_vars => LockInv'
<1> SUFFICES ASSUME TypeInv, LockInv, [Next]_vars
             PROVE  LockInv'
  OBVIOUS
<1> USE DEF LockInv
<1>1. ASSUME NEW w \in Workers, NEW s \in Slots, GenerateLock(w, s)
      PROVE  LockInv'
  <2> DEFINE t == [Idle EXCEPT !.pc = "gen_checked", !.slot = s]
  <2>1. t \in Txn /\ t.pc = "gen_checked" /\ t.slot = s
    BY IdleType DEF Txn, Idle
  <2>2. txn' = [txn EXCEPT ![w] = t] /\ txn'[w] = t
    BY <1>1 DEF GenerateLock, TypeInv, TypeOK
  <2>3. ForUpdate(w)' = {} /\ RowsHeld(w)' = {}
    BY <2>1, <2>2 DEF ForUpdate, RowsHeld
  <2>4. \A r \in Slots : HoldsSlot(w, r)' => SlotFree(w, r)
    BY <1>1, <2>1, <2>2 DEF GenerateLock, HoldsSlot
  <2> QED BY <2>1, <2>2, <2>3, <2>4, LocksOfTxn
<1>2. ASSUME NEW w \in Workers, NEW p \in Plans, PublishRead(w, p)
      PROVE  LockInv'
  <2> DEFINE t == [Idle EXCEPT !.pc = "pub_read", !.plan = p, !.slot = slot[p]]
  <2>1. t \in Txn /\ t.pc = "pub_read"
    BY IdleType DEF Txn, Idle, TypeInv, TypeOK
  <2> QED BY <1>2, <2>1, NothingHeld DEF PublishRead
<1>3. ASSUME NEW w \in Workers, NEW p \in Plans, NEW a \in Alerts \cup {NoAlert},
             ReplanRow(w, p, a)
      PROVE  LockInv'
  <2> DEFINE t == [Idle EXCEPT !.pc = "rep_row", !.plan = p, !.alert = a]
  <2>1. t \in Txn /\ t.pc = "rep_row" /\ t.plan = p
    BY IdleType DEF Txn, Idle
  <2>2. txn' = [txn EXCEPT ![w] = t] /\ txn'[w] = t
    BY <1>3 DEF ReplanRow, TypeInv, TypeOK
  <2>3. ForUpdate(w)' = {p} /\ RowsHeld(w)' = {p} /\ \A r \in Slots : ~HoldsSlot(w, r)'
    BY <2>1, <2>2 DEF ForUpdate, RowsHeld, HoldsSlot
  <2>4. \A v \in Workers : ForUpdate(v) \subseteq RowsHeld(v)
    BY DEF ForUpdate, RowsHeld
  <2>5. \A v \in Workers \ {w} : p \notin RowsHeld(v)
    BY <1>3 DEF ReplanRow, RowsFree
  <2>6. \A v \in Workers \ {w} : /\ ForUpdate(w)' \cap RowsHeld(v) = {}
                                  /\ ForUpdate(v) \cap RowsHeld(w)' = {}
    BY <2>3, <2>4, <2>5
  <2>7. \A r \in Slots : HoldsSlot(w, r)' => HoldsSlot(w, r) \/ SlotFree(w, r)
    BY <2>3
  <2> HIDE DEF t, LockInv
  <2> QED BY ONLY TypeInv, LockInv, <2>1, <2>2, <2>6, <2>7, w \in Workers,
                  LocksOfTxn
<1>4. ASSUME NEW w \in Workers, PublishLock(w)
      PROVE  LockInv'
  <2> DEFINE t == [txn[w] EXCEPT !.pc = "pub_locked"]
  <2>1. t \in Txn /\ t.pc = "pub_locked" /\ t.slot = txn[w].slot
    BY DEF TypeInv, TypeOK, Txn
  <2>2. txn' = [txn EXCEPT ![w] = t] /\ txn'[w] = t
    BY <1>4 DEF PublishLock, TypeInv, TypeOK
  <2>3. ForUpdate(w)' = {} /\ RowsHeld(w)' = {}
    BY <2>1, <2>2 DEF ForUpdate, RowsHeld
  <2>4. \A r \in Slots : HoldsSlot(w, r)' => SlotFree(w, r)
    BY <1>4, <2>1, <2>2 DEF PublishLock, HoldsSlot
  <2> QED BY <2>1, <2>2, <2>3, <2>4, LocksOfTxn
<1>5. ASSUME NEW w \in Workers, PublishWrite(w)
      PROVE  LockInv'
  <2> DEFINE p == txn[w].plan
             t == [txn[w] EXCEPT !.pc = "pub_written", !.cascade = Cascade(p),
                                 !.hits = Colliding(p)]
  <2>1. Cascade(p) \in SUBSET Plans /\ Colliding(p) \in SUBSET Plans
    BY DEF Cascade, LiveIn, Colliding
  <2>2. /\ t \in Txn /\ t.pc = "pub_written" /\ t.slot = txn[w].slot
        /\ t.plan = p /\ t.cascade = Cascade(p)
    BY <2>1 DEF TypeInv, TypeOK, Txn
  <2>3. txn' = [txn EXCEPT ![w] = t] /\ txn'[w] = t
    BY <1>5 DEF PublishWrite, TypeInv, TypeOK
  <2>4. ForUpdate(w)' = {} /\ RowsHeld(w)' = Cascade(p) \cup {p}
    BY <2>2, <2>3 DEF ForUpdate, RowsHeld
  <2>5. \A v \in Workers \ {w} : ForUpdate(v) \cap (Cascade(p) \cup {p}) = {}
    BY <1>5 DEF PublishWrite, RowsFree, RowsHeld, ForUpdate
  <2>6. \A r \in Slots : HoldsSlot(w, r)' => HoldsSlot(w, r)
    BY <1>5, <2>2, <2>3 DEF PublishWrite, HoldsSlot
  <2> QED BY <2>2, <2>3, <2>4, <2>5, <2>6, LocksOfTxn
<1>6. ASSUME NEW w \in Workers, ReplanLock(w)
      PROVE  LockInv'
  <2> DEFINE p == txn[w].plan
  <2>1. p \in Existing /\ slot[p] \in Slots
    BY <1>6 DEF ReplanLock, TypeInv, TxnBound, RowsBound, Existing
  <2>2. PICK v \in {version[q] + 1 : q \in Lineage(p)} :
          txn' = [txn EXCEPT ![w] = [@ EXCEPT !.pc = "rep_locked", !.slot = slot[p],
                                              !.version = v]]
    BY <1>6 DEF ReplanLock
  <2> DEFINE t == [txn[w] EXCEPT !.pc = "rep_locked", !.slot = slot[p], !.version = v]
  <2>3. v \in Nat
    BY DEF Lineage, TypeInv, TypeOK
  <2>4. t \in Txn /\ t.pc = "rep_locked" /\ t.slot = slot[p] /\ t.plan = p
    BY <2>1, <2>3 DEF TypeInv, TypeOK, Txn
  <2>5. txn' = [txn EXCEPT ![w] = t] /\ txn'[w] = t
    BY <2>2 DEF TypeInv, TypeOK
  <2>6. ForUpdate(w)' = ForUpdate(w) /\ RowsHeld(w)' = RowsHeld(w)
    BY <1>6, <2>4, <2>5 DEF ReplanLock, ForUpdate, RowsHeld
  <2>7. \A r \in Slots : HoldsSlot(w, r)' => SlotFree(w, r)
    BY <1>6, <2>4, <2>5 DEF ReplanLock, HoldsSlot
  <2> QED BY <2>4, <2>5, <2>6, <2>7, LocksOfTxn DEF RowLocks
<1>7. ASSUME NEW w \in Workers, NEW r \in Replies, End(w, r)
      PROVE  LockInv'
  BY <1>7, LocksAtEnd
<1>8. ASSUME UNCHANGED txn
      PROVE  LockInv'
  BY <1>8 DEF RowLocks, SlotLocks, ForUpdate, RowsHeld, HoldsSlot
<1> QED
  BY <1>1, <1>2, <1>3, <1>4, <1>5, <1>6, <1>7, <1>8
  DEF Next, Request, Step, Deadlock, Archive, Acknowledge, Dismiss, vars, Replies,
      GenerateInsert, GenerateIndexClash, PublishAlertClash, PublishCommit,
      ReplanWrite, ReplanIndexClash, DeadlockVictim

-----------------------------------------------------------------------------
(* A lineage of replans never forks, and what a replan has read under its  *)
(* row lock stays true.                                                    *)

\* The plan that heads a lineage has its largest version.
HeadNewest ==
  \A p, q \in Existing :
    root[p] = root[q] /\ supersededBy[p] = NoPlan => version[q] <= version[p]

Replanning(w) == txn[w].pc \in {"rep_row", "rep_locked"}

\* The version a replan has computed is the next one after its parent's.
NextAfterParent ==
  \A w \in Workers :
    txn[w].pc = "rep_locked" => txn[w].version = version[txn[w].plan] + 1

LineageInv ==
  LineageLinked /\ LineageHead /\ HeadNewest /\ ReplanStillValid /\ NextAfterParent

-----------------------------------------------------------------------------
LEMMA ExistingAtCommit ==
  ASSUME TypeInv, NEW w \in Workers, PublishCommit(w)
  PROVE  Existing' = Existing
BY DEF PublishCommit, TypeInv, TxnBound, TypeOK, Txn, Existing

\* A row id that is not in use has no links of its own.
LEMMA AbsentUnlinked ==
  ASSUME TypeInv, LineageLinked, NEW p \in Plans, status[p] = "absent"
  PROVE  parent[p] = NoPlan /\ supersededBy[p] = NoPlan
BY DEF TypeInv, TypeOK, RowsBound, LineageLinked

\* An action that leaves the tables alone keeps the facts about the tables.
LEMMA TablesAlone ==
  ASSUME LineageInv, UNCHANGED <<planVars, lineageVars>>
  PROVE  LineageLinked' /\ LineageHead' /\ HeadNewest'
BY DEF LineageInv, LineageLinked, LineageHead, HeadNewest, Existing,
       planVars, lineageVars

\* ... and if it puts no worker in a replan, the facts about replans too.
LEMMA NoNewReplan ==
  ASSUME TypeInv, LineageInv, UNCHANGED <<planVars, lineageVars>>,
         NEW w \in Workers, NEW t \in Txn, t.pc \notin {"rep_row", "rep_locked"},
         txn' = [txn EXCEPT ![w] = t]
  PROVE  LineageInv'
<1>1. \A v \in Workers : Replanning(v)' => txn'[v] = txn[v]
  BY DEF Replanning, TypeInv, TypeOK
<1>2. ReplanStillValid' /\ NextAfterParent'
  BY <1>1 DEF LineageInv, ReplanStillValid, NextAfterParent, Replanning,
              InForce, Lineage, planVars, lineageVars
<1> QED BY <1>2, TablesAlone DEF LineageInv

LEMMA EndsQuietly ==
  ASSUME TypeInv, LineageInv, UNCHANGED <<planVars, lineageVars>>,
         NEW w \in Workers, NEW r \in Replies, End(w, r)
  PROVE  LineageInv'
<1>1. Idle.pc \notin {"rep_row", "rep_locked"}
  BY DEF Idle
<1> QED BY <1>1, IdleType, NoNewReplan DEF End

LEMMA PublishLineage ==
  ASSUME TypeInv, LineageInv, NEW w \in Workers
  PROVE  /\ \A p \in Plans : PublishRead(w, p) => LineageInv'
         /\ PublishLock(w) => LineageInv'
         /\ PublishWrite(w) => LineageInv'
<1>1. ASSUME NEW p \in Plans, PublishRead(w, p)
      PROVE  LineageInv'
  <2> DEFINE t == [Idle EXCEPT !.pc = "pub_read", !.plan = p, !.slot = slot[p]]
  <2>1. t \in Txn /\ t.pc = "pub_read"
    BY IdleType DEF Txn, Idle, TypeInv, TypeOK
  <2> QED BY <1>1, <2>1, NoNewReplan DEF PublishRead
<1>2. ASSUME PublishLock(w)
      PROVE  LineageInv'
  <2> DEFINE t == [txn[w] EXCEPT !.pc = "pub_locked"]
  <2>1. t \in Txn /\ t.pc = "pub_locked"
    BY DEF TypeInv, TypeOK, Txn
  <2>2. txn' = [txn EXCEPT ![w] = t]
    BY <1>2 DEF PublishLock, TypeInv, TypeOK
  <2> QED BY <1>2, <2>1, <2>2, NoNewReplan DEF PublishLock
<1>3. ASSUME PublishWrite(w)
      PROVE  LineageInv'
  <2> DEFINE p == txn[w].plan
             t == [txn[w] EXCEPT !.pc = "pub_written", !.cascade = Cascade(p),
                                 !.hits = Colliding(p)]
  <2>1. Cascade(p) \in SUBSET Plans /\ Colliding(p) \in SUBSET Plans
    BY DEF Cascade, LiveIn, Colliding
  <2>2. t \in Txn /\ t.pc = "pub_written"
    BY <2>1 DEF TypeInv, TypeOK, Txn
  <2>3. txn' = [txn EXCEPT ![w] = t]
    BY <1>3 DEF PublishWrite, TypeInv, TypeOK
  <2> QED BY <1>3, <2>2, <2>3, NoNewReplan DEF PublishWrite
<1> QED BY <1>1, <1>2, <1>3

LEMMA ReplanRowLineage ==
  ASSUME TypeInv, LineageInv, NEW w \in Workers, NEW p \in Plans,
         NEW a \in Alerts \cup {NoAlert}, ReplanRow(w, p, a)
  PROVE  LineageInv'
<1> DEFINE t == [Idle EXCEPT !.pc = "rep_row", !.plan = p, !.alert = a]
<1>1. t.pc = "rep_row" /\ t.plan = p
  BY DEF Idle
<1>2. /\ txn'[w] = t
      /\ \A v \in Workers \ {w} : txn'[v] = txn[v]
  BY DEF ReplanRow, TypeInv, TypeOK
<1>3. InForce(p) /\ supersededBy[p] = NoPlan
  BY DEF ReplanRow, InForce, LineageInv, LineageHead
<1>4. ReplanStillValid' /\ NextAfterParent'
  BY <1>1, <1>2, <1>3
  DEF ReplanRow, LineageInv, ReplanStillValid, NextAfterParent,
      InForce, Lineage, planVars, lineageVars
<1> QED BY <1>4, TablesAlone DEF LineageInv, ReplanRow

LEMMA ReplanLockLineage ==
  ASSUME TypeInv, LineageInv, NEW w \in Workers, ReplanLock(w)
  PROVE  LineageInv'
<1> DEFINE p == txn[w].plan
<1>1. p \in Existing /\ p \in Lineage(p) /\ supersededBy[p] = NoPlan /\ InForce(p)
  BY DEF ReplanLock, TypeInv, TxnBound, Existing, Lineage, LineageInv,
         ReplanStillValid
<1>2. PICK v \in {version[q] + 1 : q \in Lineage(p)} :
        /\ NextVersion(p, v)
        /\ txn' = [txn EXCEPT ![w] = [@ EXCEPT !.pc = "rep_locked", !.slot = slot[p],
                                            !.version = v]]
  BY DEF ReplanLock
<1>3. /\ txn'[w].pc = "rep_locked" /\ txn'[w].plan = p /\ txn'[w].version = v
      /\ \A u \in Workers \ {w} : txn'[u] = txn[u]
  BY <1>2 DEF TypeInv, TypeOK, Txn
<1>4. \A q \in Lineage(p) : version[q] < v /\ version[q] <= version[p]
  BY <1>1, <1>2 DEF NextVersion, Lineage, Existing, LineageInv, HeadNewest
<1>5. PICK q \in Lineage(p) : v = version[q] + 1
  BY <1>2
<1>6. v = version[p] + 1
  <2>1. version[p] \in Nat /\ version[q] \in Nat
    BY <1>1, <1>5 DEF Existing, Lineage, TypeInv, TypeOK
  <2> QED BY <1>1, <1>4, <1>5, <2>1
<1>7. ReplanStillValid' /\ NextAfterParent'
  BY <1>1, <1>3, <1>4, <1>6
  DEF ReplanLock, LineageInv, ReplanStillValid, NextAfterParent,
      InForce, Lineage, planVars, lineageVars
<1> QED BY <1>7, TablesAlone DEF LineageInv, ReplanLock

\* A replan in flight stays valid if its parent and its lineage do not change.
LEMMA ReplansKept ==
  ASSUME LineageInv,
         \A v \in Workers : Replanning(v)' =>
            LET p == txn[v].plan
            IN  /\ Replanning(v) /\ txn'[v] = txn[v]
                /\ status'[p] = status[p] /\ archivedAt'[p] = archivedAt[p]
                /\ supersededBy'[p] = supersededBy[p] /\ version'[p] = version[p]
                /\ \A q \in Plans : status'[q] # "absent" /\ root'[q] = root'[p] =>
                     status[q] # "absent" /\ root[q] = root[p] /\ version'[q] = version[q]
  PROVE  ReplanStillValid' /\ NextAfterParent'
BY DEF Replanning, LineageInv, ReplanStillValid, NextAfterParent, InForce, Lineage

LEMMA GenerateInsertLineage ==
  ASSUME TypeInv, LineageInv, NEW w \in Workers, GenerateInsert(w)
  PROVE  LineageInv'
<1>1. PICK p \in Plans : /\ InsertDraft(p, txn[w].slot)
                         /\ status' = [status EXCEPT ![p] = "draft"]
                         /\ version' = [version EXCEPT ![p] = 1]
                         /\ root' = [root EXCEPT ![p] = p]
  BY DEF GenerateInsert
<1>2. /\ parent[p] = NoPlan /\ supersededBy[p] = NoPlan
      /\ status[p] = "absent" /\ p \notin Existing
  BY <1>1, AbsentUnlinked DEF InsertDraft, LineageInv, Existing
<1>3. \A q \in Plans : root[q] # p /\ parent[q] # p /\ supersededBy[q] # p
  BY <1>2 DEF TypeInv, RowsBound
<1>4. Existing' = Existing \cup {p}
  BY <1>1 DEF TypeInv, TypeOK, Existing
<1>5. LineageLinked'
  BY <1>1, <1>2, <1>3
  DEF GenerateInsert, TypeInv, TypeOK, LineageInv, LineageLinked
<1>6. LineageHead'
  BY <1>1, <1>2, <1>3, NullAssumption
  DEF GenerateInsert, TypeInv, TypeOK, LineageInv, LineageHead
<1>7. HeadNewest'
  <2> SUFFICES ASSUME NEW x \in Existing', NEW y \in Existing',
                      root'[x] = root'[y], supersededBy'[x] = NoPlan
               PROVE  version'[y] <= version'[x]
    BY DEF HeadNewest
  <2>1. x \in Plans /\ y \in Plans
    BY DEF Existing
  <2>2. CASE x = p \/ y = p
    BY <1>1, <1>3, <2>1, <2>2 DEF TypeInv, TypeOK
  <2>3. CASE x # p /\ y # p
    <3>1. x \in Existing /\ y \in Existing
      BY <1>4, <2>3
    <3> QED BY <1>1, <2>1, <2>3, <3>1
        DEF GenerateInsert, TypeInv, TypeOK, LineageInv, HeadNewest
  <2> QED BY <2>2, <2>3
<1>8. \A v \in Workers :
        Replanning(v)' => Replanning(v) /\ txn'[v] = txn[v] /\ txn[v].plan \in Existing
  BY DEF GenerateInsert, End, Idle, Replanning, TypeInv, TypeOK, TxnBound
<1>9. ReplanStillValid' /\ NextAfterParent'
  <2>1. ASSUME NEW v \in Workers, Replanning(v)'
        PROVE  /\ txn[v].plan \in Plans /\ txn[v].plan # p
               /\ Replanning(v) /\ txn'[v] = txn[v]
    BY <1>2, <1>8, <2>1 DEF Existing
  <2> QED BY <1>1, <1>2, <1>3, <2>1, ReplansKept DEF GenerateInsert, TypeInv, TypeOK
<1> QED BY <1>5, <1>6, <1>7, <1>9 DEF LineageInv

\* Publishing and archiving touch no plan that a replan has locked.
LEMMA StatusChange ==
  ASSUME TypeInv, LineageInv, UNCHANGED lineageVars, Existing' = Existing,
         \A p \in Plans : archivedAt[p] => archivedAt'[p],
         \A v \in Workers : Replanning(v)' =>
            /\ Replanning(v) /\ txn'[v] = txn[v]
            /\ status'[txn[v].plan] = status[txn[v].plan]
            /\ archivedAt'[txn[v].plan] = archivedAt[txn[v].plan]
  PROVE  LineageInv'
<1>1. LineageLinked' /\ HeadNewest'
  BY DEF LineageInv, LineageLinked, HeadNewest, lineageVars
<1>2. LineageHead'
  BY DEF LineageInv, LineageHead, lineageVars, Existing
<1>3. ReplanStillValid' /\ NextAfterParent'
  BY ReplansKept DEF lineageVars, Existing
<1> QED BY <1>1, <1>2, <1>3 DEF LineageInv

LEMMA PublishCommitLineage ==
  ASSUME TypeInv, LockInv, LineageInv, NEW w \in Workers, PublishCommit(w)
  PROVE  LineageInv'
<1>1. \A p \in Plans : archivedAt[p] => archivedAt'[p]
  BY DEF PublishCommit
<1>2. RowsHeld(w) = txn[w].cascade \cup {txn[w].plan}
  BY DEF PublishCommit, RowsHeld
<1>3. ASSUME NEW v \in Workers, Replanning(v)'
      PROVE  /\ Replanning(v) /\ txn'[v] = txn[v]
             /\ status'[txn[v].plan] = status[txn[v].plan]
             /\ archivedAt'[txn[v].plan] = archivedAt[txn[v].plan]
  <2>1. v # w /\ txn'[v] = txn[v] /\ Replanning(v)
    BY <1>3 DEF PublishCommit, End, Idle, Replanning, TypeInv, TypeOK
  <2>2. txn[v].plan \in Plans /\ txn[v].plan \notin RowsHeld(w)
    BY <2>1 DEF Replanning, LockInv, RowLocks, ForUpdate, TypeInv, TxnBound, Existing
  <2> QED BY <1>2, <2>1, <2>2 DEF PublishCommit, TypeInv, TypeOK
<1> QED BY <1>1, <1>3, ExistingAtCommit, StatusChange DEF PublishCommit

LEMMA ArchiveLineage ==
  ASSUME TypeInv, LineageInv, NEW p \in Plans, Archive(p)
  PROVE  LineageInv'
<1>1. Existing' = Existing
  BY DEF Archive, TypeInv, TypeOK, Existing
<1>2. ASSUME NEW v \in Workers, Replanning(v)'
      PROVE  /\ Replanning(v) /\ txn'[v] = txn[v]
             /\ status'[txn[v].plan] = status[txn[v].plan]
             /\ archivedAt'[txn[v].plan] = archivedAt[txn[v].plan]
  <2>1. txn'[v] = txn[v] /\ Replanning(v)
    BY <1>2 DEF Archive, Replanning
  <2>2. txn[v].plan # p
    BY <2>1 DEF Archive, Replanning, RowsHeld
  <2> QED BY <2>1, <2>2 DEF Archive, TypeInv, TypeOK
<1> QED BY <1>1, <1>2, StatusChange DEF Archive

LEMMA ReplanWriteLineage ==
  ASSUME TypeInv, LockInv, LineageInv, NEW w \in Workers, NEW s \in Slots,
         ReplanWrite(w, s)
  PROVE  LineageInv'
<1> DEFINE p == txn[w].plan
<1>1. PICK q \in Plans :
        /\ InsertDraft(q, s)
        /\ status' = [status EXCEPT ![p] = "archived", ![q] = "draft"]
        /\ archivedAt' = [archivedAt EXCEPT ![p] = TRUE]
        /\ parent' = [parent EXCEPT ![q] = p]
        /\ supersededBy' = [supersededBy EXCEPT ![p] = q]
        /\ version' = [version EXCEPT ![q] = txn[w].version]
        /\ root' = [root EXCEPT ![q] = root[p]]
  BY DEF ReplanWrite
<1>2. /\ status[q] = "absent" /\ q \notin Existing
      /\ parent[q] = NoPlan /\ supersededBy[q] = NoPlan
  BY <1>1, AbsentUnlinked DEF InsertDraft, LineageInv, Existing
<1>3. \A x \in Plans : root[x] # q /\ parent[x] # q /\ supersededBy[x] # q
  BY <1>2 DEF TypeInv, RowsBound
<1>4. /\ p \in Existing /\ p \in Plans /\ p # q
      /\ supersededBy[p] = NoPlan /\ txn[w].version = version[p] + 1
  BY <1>2 DEF ReplanWrite, TypeInv, TxnBound, Existing, LineageInv, ReplanStillValid,
              NextAfterParent
<1>5. Existing' = Existing \cup {q}
  BY <1>1, <1>4 DEF TypeInv, TypeOK, Existing
<1>6. \A x \in Plans : parent[x] # p
  BY <1>4, NullAssumption DEF LineageInv, LineageLinked
<1>7. LineageLinked'
  BY <1>1, <1>2, <1>3, <1>4, <1>6 DEF TypeInv, TypeOK, LineageInv, LineageLinked
<1>8. LineageHead'
  <2> SUFFICES ASSUME NEW x \in Plans, NEW y \in Plans
               PROVE  /\ /\ status'[x] # "absent" /\ status'[y] # "absent"
                         /\ root'[x] = root'[y]
                         => \/ x = y
                            \/ supersededBy'[x] # NoPlan \/ supersededBy'[y] # NoPlan
                      /\ supersededBy'[x] # NoPlan => archivedAt'[x]
    BY DEF LineageHead
  <2>1. supersededBy'[x] # NoPlan => archivedAt'[x]
    BY <1>1 DEF TypeInv, TypeOK, LineageInv, LineageHead
  <2>2. ASSUME NEW z \in Existing, z # p, root[z] = root[p]
        PROVE  supersededBy'[z] # NoPlan
    BY <1>1, <1>4, <2>2 DEF Existing, TypeInv, TypeOK, LineageInv, LineageHead
  <2>3. supersededBy'[p] # NoPlan
    BY <1>1, <1>4, NullAssumption DEF TypeInv, TypeOK
  <2>4. CASE x = q \/ y = q
    BY <1>1, <1>2, <1>4, <1>5, <2>1, <2>2, <2>3, <2>4 DEF Existing, TypeInv, TypeOK
  <2>5. CASE x # q /\ y # q
    BY <1>1, <1>4, <2>1, <2>3, <2>5 DEF TypeInv, TypeOK, LineageInv, LineageHead
  <2> QED BY <2>4, <2>5
<1>9. HeadNewest'
  <2> SUFFICES ASSUME NEW x \in Existing', NEW y \in Existing',
                      root'[x] = root'[y], supersededBy'[x] = NoPlan
               PROVE  version'[y] <= version'[x]
    BY DEF HeadNewest
  <2>1. x \in Plans /\ y \in Plans /\ x # p
    BY <1>1, <1>4, NullAssumption DEF Existing, TypeInv, TypeOK
  <2>2. version[p] \in Nat /\ version[y] \in Nat
    BY <1>4, <2>1 DEF TypeInv, TypeOK
  <2>3. CASE x = q
    <3>1. version'[x] = version[p] + 1
      BY <1>1, <1>4, <2>3 DEF TypeInv, TypeOK
    <3>2. CASE y = q
      BY <2>2, <2>3, <3>1, <3>2
    <3>3. CASE y # q
      <4>1. y \in Existing /\ root[y] = root[p] /\ version'[y] = version[y]
        BY <1>1, <1>5, <2>1, <2>3, <3>3 DEF TypeInv, TypeOK
      <4>2. version[y] <= version[p]
        BY <1>4, <4>1 DEF LineageInv, HeadNewest
      <4> QED BY <2>2, <3>1, <4>1, <4>2
    <3> QED BY <3>2, <3>3
  <2>4. CASE x # q /\ y = q
    <3>1. x \in Existing /\ root[x] = root[p] /\ supersededBy[x] = NoPlan
      BY <1>1, <1>5, <2>1, <2>4 DEF TypeInv, TypeOK
    <3> QED BY <1>4, <2>1, <3>1 DEF Existing, LineageInv, LineageHead
  <2>5. CASE x # q /\ y # q
    <3>1. x \in Existing /\ y \in Existing
      BY <1>5, <2>5
    <3> QED BY <1>1, <2>1, <2>5, <3>1 DEF TypeInv, TypeOK, LineageInv, HeadNewest
  <2> QED BY <2>3, <2>4, <2>5
<1>10. ReplanStillValid' /\ NextAfterParent'
  <2>1. ASSUME NEW v \in Workers, Replanning(v)'
        PROVE  /\ Replanning(v) /\ txn'[v] = txn[v] /\ v # w
               /\ txn[v].plan \in Plans /\ txn[v].plan # p /\ txn[v].plan # q
               /\ root[txn[v].plan] # root[p]
    <3>1. v # w /\ txn'[v] = txn[v] /\ Replanning(v)
      BY <2>1 DEF ReplanWrite, End, Idle, Replanning, TypeInv, TypeOK
    <3>2. txn[v].plan \in Existing /\ txn[v].plan # q /\ supersededBy[txn[v].plan] = NoPlan
      BY <1>2, <3>1 DEF Replanning, TypeInv, TxnBound, LineageInv, ReplanStillValid
    <3>3. txn[v].plan # p
      BY <3>1 DEF ReplanWrite, Replanning, LockInv, RowLocks, ForUpdate, RowsHeld
    <3> QED BY <1>4, <3>1, <3>2, <3>3 DEF Existing, LineageInv, LineageHead
  <2> QED BY <1>1, <1>2, <1>4, <2>1, ReplansKept DEF TypeInv, TypeOK
<1> QED BY <1>7, <1>8, <1>9, <1>10 DEF LineageInv

LEMMA LineageStep == TypeInv /\ LockInv /\ LineageInv /\ [Next]_vars => LineageInv'
<1> SUFFICES ASSUME TypeInv, LockInv, LineageInv, [Next]_vars
             PROVE  LineageInv'
  OBVIOUS
<1>1. ASSUME NEW w \in Workers, Request(w)
      PROVE  LineageInv'
  <2>1. ASSUME NEW s \in Slots, GenerateLock(w, s)
        PROVE  LineageInv'
    <3> DEFINE t == [Idle EXCEPT !.pc = "gen_checked", !.slot = s]
    <3>1. t \in Txn /\ t.pc = "gen_checked"
      BY IdleType DEF Txn, Idle
    <3> QED BY <2>1, <3>1, NoNewReplan DEF GenerateLock
  <2> QED BY <1>1, <2>1, PublishLineage, ReplanRowLineage DEF Request
<1>2. ASSUME NEW w \in Workers, Step(w)
      PROVE  LineageInv'
  BY <1>2, EndsQuietly, GenerateInsertLineage, PublishLineage, PublishCommitLineage,
     ReplanLockLineage, ReplanWriteLineage
  DEF Step, GenerateIndexClash, PublishAlertClash, ReplanIndexClash, Replies
<1>3. ASSUME Deadlock
      PROVE  LineageInv'
  BY <1>3, EndsQuietly DEF Deadlock, DeadlockVictim, Replies
<1>4. ASSUME NEW p \in Plans, Archive(p)
      PROVE  LineageInv'
  BY <1>4, ArchiveLineage
<1>5. ASSUME UNCHANGED <<planVars, lineageVars, txn>>
      PROVE  LineageInv'
  BY <1>5, TablesAlone
  DEF LineageInv, ReplanStillValid, NextAfterParent, InForce, Lineage, planVars, lineageVars
<1> QED BY <1>1, <1>2, <1>3, <1>4, <1>5 DEF Next, Acknowledge, Dismiss, vars

LEMMA LineageInit == Init => LockInv /\ LineageInv
<1> SUFFICES ASSUME Init
             PROVE  LockInv /\ LineageInv
  OBVIOUS
<1>1. LockInv
  BY DEF Init, Idle, LockInv, RowLocks, SlotLocks, ForUpdate, HoldsSlot
<1>2. LineageInv
  BY NullAssumption
  DEF Init, Idle, LineageInv, LineageLinked, LineageHead, HeadNewest, ReplanStillValid,
      NextAfterParent, Existing
<1> QED BY <1>1, <1>2

LEMMA LineageInvHolds == Spec => [](TypeInv /\ LockInv /\ LineageInv)
<1>1. Init => TypeInv /\ LockInv /\ LineageInv
  BY TypeInit, LineageInit
<1>2. TypeInv /\ LockInv /\ LineageInv /\ [Next]_vars
        => (TypeInv /\ LockInv /\ LineageInv)'
  BY TypeStep, LockStep, LineageStep
<1> QED BY <1>1, <1>2, PTL DEF Spec

\* A plan and its replan point at each other with consecutive versions, so no
\* plan is ever replanned twice.
THEOREM LineageIsLinked == Spec => []LineageLinked
BY LineageInvHolds, PTL DEF LineageInv

\* A lineage of replans has one head; the rest of it is archived.
THEOREM LineageHasOneHead == Spec => []LineageHead
BY LineageInvHolds, PTL DEF LineageInv

\* Whatever a replan read before it waited for a lock still holds when it
\* writes: its parent is in force and its version number is new.
THEOREM ReplanReadsStayValid == Spec => []ReplanStillValid
BY LineageInvHolds, PTL DEF LineageInv

-----------------------------------------------------------------------------
(* Conflict alerts.  A replan that was started from an alert holds the row *)
(* of the plan the alert is about, which nothing has superseded yet, so    *)
(* the plan it inserts is the answer to no other alert.                    *)

\* An alert is reoptimized exactly when it names the plan that superseded the
\* one it was raised about, and no other alert names that plan.
Answered ==
  \A a \in Alerts : alert[a] # NoAlert =>
    IF alert[a].status = "reoptimized"
    THEN alert[a].resolution # NoPlan /\ alert[a].resolution = supersededBy[alert[a].old]
    ELSE alert[a].resolution = NoPlan

AnswerUnique ==
  \A a, b \in Alerts :
    /\ alert[a] # NoAlert /\ alert[a].resolution # NoPlan
    /\ alert[b] # NoAlert /\ alert[b].resolution = alert[a].resolution
    => a = b

\* A replan from an alert is about the alert's plan.
FromOwnAlert ==
  \A w \in Workers : Replanning(w) /\ txn[w].alert # NoAlert =>
    alert[txn[w].alert].old = txn[w].plan

AlertInv == Answered /\ AnswerUnique /\ FromOwnAlert

\* A step that leaves the alerts and the links alone, and starts no replan
\* from an alert about another plan.
LEMMA AlertsAlone ==
  ASSUME TypeInv, AlertInv, UNCHANGED <<alert, supersededBy>>,
         \A w \in Workers : Replanning(w)' =>
           \/ Replanning(w) /\ txn'[w].plan = txn[w].plan /\ txn'[w].alert = txn[w].alert
           \/ FromAlert(txn'[w].alert, txn'[w].plan)
  PROVE  AlertInv'
<1>1. Answered' /\ AnswerUnique'
  BY DEF AlertInv, Answered, AnswerUnique
<1>2. FromOwnAlert'
  BY DEF AlertInv, FromOwnAlert, FromAlert
<1> QED BY <1>1, <1>2 DEF AlertInv

LEMMA PublishCommitAlerts ==
  ASSUME TypeInv, AlertInv, NEW w \in Workers, PublishCommit(w)
  PROVE  AlertInv'
<1> DEFINE p == txn[w].plan
           hits == txn[w].hits
<1>1. p \in Plans /\ hits \in SUBSET Plans
  BY DEF PublishCommit, TypeInv, TypeOK, TxnBound, Txn, Existing
<1>2. PICK id \in [hits -> FreeAlerts] :
        alert' = [a \in Alerts |->
          IF \E q \in hits : id[q] = a
          THEN [new |-> p, old |-> CHOOSE q \in hits : id[q] = a,
                resolution |-> NoPlan, status |-> "pending"]
          ELSE alert[a]]
  BY DEF PublishCommit, RaiseAlerts
<1>3. ASSUME NEW a \in Alerts
      PROVE  \/ alert'[a] = alert[a]
             \/ /\ alert[a] = NoAlert
                /\ alert'[a].status = "pending" /\ alert'[a].resolution = NoPlan
  <2>1. CASE \E q \in hits : id[q] = a
    BY <1>2, <2>1 DEF FreeAlerts
  <2>2. CASE ~\E q \in hits : id[q] = a
    BY <1>2, <2>2
  <2> QED BY <2>1, <2>2
<1>4. supersededBy' = supersededBy
  BY DEF PublishCommit, lineageVars
<1>5. Answered'
  BY <1>3, <1>4 DEF AlertInv, Answered
<1>6. AnswerUnique'
  BY <1>3 DEF AlertInv, AnswerUnique
<1>7. FromOwnAlert'
  <2> SUFFICES ASSUME NEW v \in Workers, Replanning(v)', txn'[v].alert # NoAlert
               PROVE  alert'[txn'[v].alert].old = txn'[v].plan
    BY DEF FromOwnAlert
  <2>1. txn'[v] = txn[v] /\ Replanning(v)
    BY DEF PublishCommit, End, Idle, Replanning, TypeInv, TypeOK
  <2>2. txn[v].alert \in Alerts /\ alert[txn[v].alert] # NoAlert
    BY <2>1 DEF TypeInv, TypeOK, TxnBound, Txn
  <2>3. alert'[txn[v].alert] = alert[txn[v].alert]
    BY <1>3, <2>2
  <2> QED BY <2>1, <2>3 DEF AlertInv, FromOwnAlert
<1> QED BY <1>5, <1>6, <1>7 DEF AlertInv

LEMMA ReplanWriteAlerts ==
  ASSUME TypeInv, LockInv, LineageInv, AlertInv, NEW w \in Workers, NEW s \in Slots,
         ReplanWrite(w, s)
  PROVE  AlertInv'
<1> DEFINE p == txn[w].plan
           a == txn[w].alert
<1>1. PICK q \in Plans :
        /\ InsertDraft(q, s)
        /\ supersededBy' = [supersededBy EXCEPT ![p] = q]
        /\ ResolveAlert(a, q)
  BY DEF ReplanWrite
<1>2. /\ p \in Plans /\ Replanning(w) /\ supersededBy[p] = NoPlan
      /\ a \in Alerts \cup {NoAlert}
  BY DEF ReplanWrite, Replanning, TypeInv, TypeOK, TxnBound, Existing, Txn, LineageInv,
         ReplanStillValid
<1>3. \A x \in Plans : supersededBy[x] # q
  BY <1>1 DEF InsertDraft, TypeInv, RowsBound
<1>4. \A b \in Alerts : alert[b] # NoAlert => alert[b] \in AlertRow
  BY DEF TypeInv, TypeOK
<1>5. \A b \in Alerts : alert[b] # NoAlert => alert[b].resolution # q
  BY <1>3, <1>4, NullAssumption DEF AlertInv, Answered, AlertRow
<1>6. \A b \in Alerts : alert[b] # NoAlert /\ alert[b].status = "reoptimized" =>
        alert[b].old # p
  BY <1>2 DEF AlertInv, Answered
<1>7. supersededBy'[p] = q /\ \A x \in Plans \ {p} : supersededBy'[x] = supersededBy[x]
  BY <1>1, <1>2 DEF TypeInv, TypeOK
<1>8. ASSUME NEW b \in Alerts, alert'[b] # alert[b]
      PROVE  /\ b = a /\ a \in Alerts /\ alert[b] # NoAlert
             /\ alert'[b] = [alert[b] EXCEPT !.status = "reoptimized", !.resolution = q]
             /\ alert[b].old = p /\ alert[b].status = "pending"
  <2>1. a # NoAlert /\ alert[a].status = "pending" /\ b = a
    BY <1>1, <1>8 DEF ResolveAlert, TypeInv, TypeOK
  <2>2. alert[a] # NoAlert /\ alert[a].old = p
    BY <1>2, <2>1 DEF AlertInv, FromOwnAlert, TypeInv, TxnBound
  <2>3. alert'[a] = [alert[a] EXCEPT !.status = "reoptimized", !.resolution = q]
    BY <1>1, <1>2, <2>1 DEF ResolveAlert, TypeInv, TypeOK
  <2> QED BY <1>2, <2>1, <2>2, <2>3
<1>9. ASSUME NEW b \in Alerts, alert'[b] # alert[b]
      PROVE  /\ alert'[b].status = "reoptimized" /\ alert'[b].resolution = q
             /\ alert'[b].old = p
  BY <1>4, <1>8, <1>9 DEF AlertRow
<1>10. Answered'
  <2> SUFFICES ASSUME NEW b \in Alerts, alert'[b] # NoAlert
               PROVE  IF alert'[b].status = "reoptimized"
                      THEN /\ alert'[b].resolution # NoPlan
                           /\ alert'[b].resolution = supersededBy'[alert'[b].old]
                      ELSE alert'[b].resolution = NoPlan
    BY DEF Answered
  <2>1. CASE alert'[b] = alert[b]
    BY <1>4, <1>6, <1>7, <2>1 DEF AlertInv, Answered, AlertRow
  <2>2. CASE alert'[b] # alert[b]
    BY <1>7, <1>9, <2>2, NullAssumption
  <2> QED BY <2>1, <2>2
<1>11. AnswerUnique'
  <2> SUFFICES ASSUME NEW b \in Alerts, NEW c \in Alerts,
                      alert'[b] # NoAlert, alert'[b].resolution # NoPlan,
                      alert'[c] # NoAlert, alert'[c].resolution = alert'[b].resolution
               PROVE  b = c
    BY DEF AnswerUnique
  <2>1. CASE alert'[b] = alert[b] /\ alert'[c] = alert[c]
    BY <2>1 DEF AlertInv, AnswerUnique
  <2>2. CASE alert'[b] # alert[b] /\ alert'[c] # alert[c]
    BY <1>8, <2>2
  <2> QED BY <1>5, <1>9, <2>1, <2>2
<1>12. FromOwnAlert'
  <2> SUFFICES ASSUME NEW v \in Workers, Replanning(v)', txn'[v].alert # NoAlert
               PROVE  alert'[txn'[v].alert].old = txn'[v].plan
    BY DEF FromOwnAlert
  <2>1. txn'[v] = txn[v] /\ Replanning(v)
    BY DEF ReplanWrite, End, Idle, Replanning, TypeInv, TypeOK
  <2>2. txn[v].alert \in Alerts /\ alert[txn[v].alert].old = txn[v].plan
    BY <2>1 DEF TypeInv, TypeOK, Txn, AlertInv, FromOwnAlert
  <2> QED BY <1>8, <1>9, <2>1, <2>2
<1> QED BY <1>10, <1>11, <1>12 DEF AlertInv

LEMMA AlertStatusAlerts ==
  ASSUME TypeInv, AlertInv, NEW a \in Alerts, Acknowledge(a) \/ Dismiss(a)
  PROVE  AlertInv'
<1>1. PICK st \in {"acknowledged", "dismissed"} :
        alert' = [alert EXCEPT ![a] = [@ EXCEPT !.status = st]]
  BY DEF Acknowledge, Dismiss
<1>2. /\ alert[a] \in AlertRow /\ alert[a] # NoAlert /\ alert[a].status # "reoptimized"
      /\ UNCHANGED <<supersededBy, txn>>
  BY DEF Acknowledge, Dismiss, TypeInv, TypeOK, lineageVars
<1>3. /\ alert'[a].status = st /\ alert'[a].resolution = alert[a].resolution
      /\ alert'[a].old = alert[a].old
      /\ \A b \in Alerts \ {a} : alert'[b] = alert[b]
  BY <1>1, <1>2 DEF TypeInv, TypeOK, AlertRow
<1>4. Answered' /\ AnswerUnique'
  BY <1>2, <1>3 DEF AlertInv, Answered, AnswerUnique
<1>5. FromOwnAlert'
  BY <1>2, <1>3 DEF AlertInv, FromOwnAlert, Replanning, TypeInv, TypeOK, Txn
<1> QED BY <1>4, <1>5 DEF AlertInv

LEMMA AlertStep == TypeInv /\ LockInv /\ LineageInv /\ AlertInv /\ [Next]_vars => AlertInv'
<1> SUFFICES ASSUME TypeInv, LockInv, LineageInv, AlertInv, [Next]_vars
             PROVE  AlertInv'
  OBVIOUS
<1> USE DEF lineageVars
<1>1. ASSUME NEW w \in Workers, Request(w)
      PROVE  AlertInv'
  <2>1. UNCHANGED <<alert, supersededBy>>
    BY <1>1 DEF Request, GenerateLock, PublishRead, ReplanRow
  <2>2. ASSUME NEW v \in Workers, Replanning(v)'
        PROVE  \/ /\ Replanning(v)
                  /\ txn'[v].plan = txn[v].plan /\ txn'[v].alert = txn[v].alert
               \/ FromAlert(txn'[v].alert, txn'[v].plan)
    <3>1. CASE \E s \in Slots : GenerateLock(w, s)
      BY <2>2, <3>1 DEF GenerateLock, Replanning, Idle, TypeInv, TypeOK
    <3>2. CASE \E p \in Plans : PublishRead(w, p)
      BY <2>2, <3>2 DEF PublishRead, Replanning, Idle, TypeInv, TypeOK
    <3>3. ASSUME NEW p \in Plans, NEW a \in Alerts \cup {NoAlert}, ReplanRow(w, p, a)
          PROVE  \/ /\ Replanning(v)
                    /\ txn'[v].plan = txn[v].plan /\ txn'[v].alert = txn[v].alert
                 \/ FromAlert(txn'[v].alert, txn'[v].plan)
      BY <2>2, <3>3 DEF ReplanRow, Replanning, Idle, TypeInv, TypeOK
    <3> QED BY <1>1, <3>1, <3>2, <3>3 DEF Request
  <2> QED BY <2>1, <2>2, AlertsAlone
<1>2. ASSUME NEW w \in Workers, Step(w)
      PROVE  AlertInv'
  <2>1. CASE \/ GenerateInsert(w) \/ GenerateIndexClash(w) \/ PublishAlertClash(w)
             \/ \E s \in Slots : ReplanIndexClash(w, s)
    <3>1. UNCHANGED <<alert, supersededBy>> /\ \E r \in Replies : End(w, r)
      BY <2>1 DEF GenerateInsert, GenerateIndexClash, PublishAlertClash,
                  ReplanIndexClash, Replies
    <3>2. \A v \in Workers : Replanning(v)' => Replanning(v) /\ txn'[v] = txn[v]
      BY <3>1 DEF End, Idle, Replanning, TypeInv, TypeOK
    <3> QED BY <3>1, <3>2, AlertsAlone
  <2>2. CASE PublishLock(w) \/ PublishWrite(w) \/ ReplanLock(w)
    <3>1. UNCHANGED <<alert, supersededBy>>
      BY <2>2 DEF PublishLock, PublishWrite, ReplanLock
    <3>2. ASSUME NEW v \in Workers, Replanning(v)'
          PROVE  /\ Replanning(v)
                 /\ txn'[v].plan = txn[v].plan /\ txn'[v].alert = txn[v].alert
      <4>1. txn[w] \in Txn /\ txn \in [Workers -> Txn]
        BY DEF TypeInv, TypeOK
      <4>2. /\ txn'[w].plan = txn[w].plan /\ txn'[w].alert = txn[w].alert
            /\ Replanning(w)' => Replanning(w)
            /\ \A x \in Workers \ {w} : txn'[x] = txn[x]
        <5>1. CASE PublishLock(w)
          <6>1. txn' = [txn EXCEPT ![w] = [txn[w] EXCEPT !.pc = "pub_locked"]]
            BY <5>1 DEF PublishLock
          <6> QED BY <4>1, <6>1 DEF Replanning, Txn
        <5>2. CASE PublishWrite(w)
          <6>1. PICK c, h : txn' = [txn EXCEPT ![w] =
                  [txn[w] EXCEPT !.pc = "pub_written", !.cascade = c, !.hits = h]]
            BY <5>2 DEF PublishWrite
          <6> QED BY <4>1, <6>1 DEF Replanning, Txn
        <5>3. CASE ReplanLock(w)
          <6>1. PICK s, n : txn' = [txn EXCEPT ![w] =
                  [txn[w] EXCEPT !.pc = "rep_locked", !.slot = s, !.version = n]]
            BY <5>3 DEF ReplanLock
          <6> QED BY <4>1, <5>3, <6>1 DEF ReplanLock, Replanning, Txn
        <5> QED BY <2>2, <5>1, <5>2, <5>3
      <4> QED BY <3>2, <4>1, <4>2 DEF Replanning
    <3> QED BY <3>1, <3>2, AlertsAlone
  <2> QED BY <1>2, <2>1, <2>2, PublishCommitAlerts, ReplanWriteAlerts DEF Step
<1>3. ASSUME Deadlock
      PROVE  AlertInv'
  <2>1. UNCHANGED <<alert, supersededBy>> /\ \E u \in Workers : End(u, "deadlock")
    BY <1>3 DEF Deadlock, DeadlockVictim
  <2>2. \A v \in Workers : Replanning(v)' => Replanning(v) /\ txn'[v] = txn[v]
    BY <2>1 DEF End, Idle, Replanning, TypeInv, TypeOK
  <2> QED BY <2>1, <2>2, AlertsAlone
<1>4. ASSUME UNCHANGED <<alert, supersededBy, txn>>
      PROVE  AlertInv'
  BY <1>4, AlertsAlone DEF Replanning
<1> QED BY <1>1, <1>2, <1>3, <1>4, AlertStatusAlerts DEF Next, Archive, vars

\* A reoptimized alert names the replan of its plan and shares it with no other
\* alert, however many managers answer alerts about a plan at once
\* (planConflictAlerts.reoptimize, replanWithHistory.generate).
THEOREM AlertsAnsweredOnce == Spec => []AlertsResolvedOnce
<1>1. Init => AlertInv
  BY DEF Init, Idle, AlertInv, Answered, AnswerUnique, FromOwnAlert, Replanning
<1>2. TypeInv /\ LockInv /\ LineageInv /\ AlertInv /\ [Next]_vars => AlertInv'
  BY AlertStep
<1>3. AlertInv => AlertsResolvedOnce
  BY DEF AlertInv, Answered, AnswerUnique, AlertsResolvedOnce
<1> QED BY <1>1, <1>2, <1>3, LineageInvHolds, PTL DEF Spec

-----------------------------------------------------------------------------
(* Slots. At most one plan is live in a scope and period, and the advisory *)
(* lock is what keeps it so: the unique index refuses only a replan that   *)
(* moves, or a generate that such a replan came before.                    *)

\* A transaction that holds a slot holds the slot of the plan it is about.
OwnSlot ==
  \A w \in Workers :
    txn[w].pc \in {"pub_read", "pub_locked", "pub_written", "rep_locked"}
      => txn[w].slot = slot[txn[w].plan]

\* What a publish archives at its commit is all that is live then.
CascadeComplete ==
  \A w \in Workers : txn[w].pc = "pub_written" =>
    \A q \in Plans : Live(q) /\ slot[q] = txn[w].slot
                       => q \in txn[w].cascade \cup {txn[w].plan}

SlotInv == OwnSlot /\ CascadeComplete /\ LiveUnique /\ OnlyMovedReplansClash

AllInv == TypeInv /\ LockInv /\ LineageInv

-----------------------------------------------------------------------------
\* What SlotInv says of the transaction of one worker.
TxnSlot(w) ==
  /\ txn[w].pc \in {"pub_read", "pub_locked", "pub_written", "rep_locked"}
       => txn[w].slot = slot[txn[w].plan]
  /\ txn[w].pc = "pub_written" =>
       \A q \in Plans : Live(q) /\ slot[q] = txn[w].slot
                          => q \in txn[w].cascade \cup {txn[w].plan}
  /\ txn[w].pc = "gen_checked" =>
       \A q \in LiveIn(txn[w].slot) : parent[q] # NoPlan /\ slot[parent[q]] # slot[q]
  /\ txn[w].pc = "rep_locked" => LiveIn(txn[w].slot) = {txn[w].plan}

LEMMA SlotInvSplit == SlotInv <=> LiveUnique /\ \A w \in Workers : TxnSlot(w)
BY DEF SlotInv, OwnSlot, CascadeComplete, OnlyMovedReplansClash, TxnSlot

LEMMA SlotInvJoin ==
  ASSUME LiveUnique', \A w \in Workers : TxnSlot(w)'
  PROVE  SlotInv'
BY DEF SlotInv, OwnSlot, CascadeComplete, OnlyMovedReplansClash, TxnSlot

\* An action that leaves the tables alone answers for its own worker only.
LEMMA OnlyOwnTxn ==
  ASSUME AllInv, SlotInv, UNCHANGED <<planVars, lineageVars>>,
         NEW w \in Workers, \A v \in Workers \ {w} : txn'[v] = txn[v],
         TxnSlot(w)'
  PROVE  SlotInv'
<1>1. LiveUnique'
  BY DEF SlotInv, LiveUnique, Live, planVars
<1>2. ASSUME NEW v \in Workers \ {w}
      PROVE  TxnSlot(v)'
  <2>1. TxnSlot(v)
    BY SlotInvSplit
  <2> QED BY <2>1 DEF TxnSlot, LiveIn, Live, planVars, lineageVars
<1> QED BY <1>1, <1>2, SlotInvJoin

LEMMA EndKeepsSlots ==
  ASSUME AllInv, SlotInv, UNCHANGED <<planVars, lineageVars>>,
         NEW w \in Workers, NEW r \in Replies, End(w, r)
  PROVE  SlotInv'
<1>1. txn'[w] = Idle /\ \A v \in Workers \ {w} : txn'[v] = txn[v]
  BY DEF End, AllInv, TypeInv, TypeOK
<1>2. TxnSlot(w)'
  BY <1>1 DEF TxnSlot, Idle
<1> QED BY <1>1, <1>2, OnlyOwnTxn

LEMMA ReadsAndLocksSlots ==
  ASSUME AllInv, SlotInv, NEW w \in Workers
  PROVE  /\ \A s \in Slots : GenerateLock(w, s) => SlotInv'
         /\ \A p \in Plans : PublishRead(w, p) => SlotInv'
         /\ \A p \in Plans, a \in Alerts \cup {NoAlert} : ReplanRow(w, p, a) => SlotInv'
         /\ PublishLock(w) => SlotInv'
         /\ PublishWrite(w) => SlotInv'
         /\ ReplanLock(w) => SlotInv'
<1> USE DEF AllInv
<1>1. ASSUME NEW s \in Slots, GenerateLock(w, s)
      PROVE  SlotInv'
  <2>1. /\ txn'[w].pc = "gen_checked" /\ txn'[w].slot = s
        /\ \A v \in Workers \ {w} : txn'[v] = txn[v]
    BY <1>1 DEF GenerateLock, Idle, TypeInv, TypeOK
  <2>2. TxnSlot(w)'
    BY <1>1, <2>1 DEF GenerateLock, TxnSlot, LiveIn, Live, planVars, lineageVars
  <2> QED BY <1>1, <2>1, <2>2, OnlyOwnTxn DEF GenerateLock
<1>2. ASSUME NEW p \in Plans, PublishRead(w, p)
      PROVE  SlotInv'
  <2>1. /\ txn'[w].pc = "pub_read" /\ txn'[w].plan = p /\ txn'[w].slot = slot[p]
        /\ \A v \in Workers \ {w} : txn'[v] = txn[v]
    BY <1>2 DEF PublishRead, Idle, TypeInv, TypeOK
  <2>2. TxnSlot(w)'
    BY <1>2, <2>1 DEF PublishRead, TxnSlot, planVars
  <2> QED BY <1>2, <2>1, <2>2, OnlyOwnTxn DEF PublishRead
<1>3. ASSUME NEW p \in Plans, NEW a \in Alerts \cup {NoAlert}, ReplanRow(w, p, a)
      PROVE  SlotInv'
  <2>1. txn'[w].pc = "rep_row" /\ \A v \in Workers \ {w} : txn'[v] = txn[v]
    BY <1>3 DEF ReplanRow, Idle, TypeInv, TypeOK
  <2>2. TxnSlot(w)'
    BY <2>1 DEF TxnSlot
  <2> QED BY <1>3, <2>1, <2>2, OnlyOwnTxn DEF ReplanRow
<1>4. ASSUME PublishLock(w)
      PROVE  SlotInv'
  <2>1. /\ txn'[w].pc = "pub_locked" /\ txn'[w].plan = txn[w].plan
        /\ txn'[w].slot = txn[w].slot
        /\ \A v \in Workers \ {w} : txn'[v] = txn[v]
    BY <1>4 DEF PublishLock, TypeInv, TypeOK, Txn
  <2>2. TxnSlot(w)'
    BY <1>4, <2>1 DEF PublishLock, TxnSlot, SlotInv, OwnSlot, planVars
  <2> QED BY <1>4, <2>1, <2>2, OnlyOwnTxn DEF PublishLock
<1>5. ASSUME PublishWrite(w)
      PROVE  SlotInv'
  <2> DEFINE p == txn[w].plan
  <2>1. /\ txn'[w].pc = "pub_written" /\ txn'[w].plan = p /\ txn'[w].slot = txn[w].slot
        /\ txn'[w].cascade = Cascade(p)
        /\ \A v \in Workers \ {w} : txn'[v] = txn[v]
    BY <1>5 DEF PublishWrite, TypeInv, TypeOK, Txn
  <2>2. txn[w].slot = slot[p]
    BY <1>5 DEF PublishWrite, SlotInv, OwnSlot
  <2>3. TxnSlot(w)'
    BY <1>5, <2>1, <2>2 DEF PublishWrite, TxnSlot, Cascade, LiveIn, Live, planVars
  <2> QED BY <1>5, <2>1, <2>3, OnlyOwnTxn DEF PublishWrite
<1>6. ASSUME ReplanLock(w)
      PROVE  SlotInv'
  <2> DEFINE p == txn[w].plan
  <2>1. p \in Plans /\ InForce(p)
    BY <1>6 DEF ReplanLock, TypeInv, TxnBound, Existing, LineageInv, ReplanStillValid
  <2>2. /\ txn'[w].pc = "rep_locked" /\ txn'[w].plan = p /\ txn'[w].slot = slot[p]
        /\ \A v \in Workers \ {w} : txn'[v] = txn[v]
    BY <1>6 DEF ReplanLock, TypeInv, TypeOK, Txn
  <2>3. LiveIn(slot[p]) = {p}
    BY <2>1 DEF LiveIn, Live, InForce, SlotInv, LiveUnique
  <2>4. TxnSlot(w)'
    BY <1>6, <2>2, <2>3 DEF ReplanLock, TxnSlot, LiveIn, Live, planVars
  <2> QED BY <1>6, <2>2, <2>4, OnlyOwnTxn DEF ReplanLock
<1> QED BY <1>1, <1>2, <1>3, <1>4, <1>5, <1>6

\* Slots held by two workers differ.
LEMMA OtherSlot ==
  ASSUME AllInv, SlotInv, NEW v \in Workers, NEW w \in Workers \ {v},
         txn[v].pc \in {"pub_locked", "pub_written", "gen_checked", "rep_locked"},
         txn[w].pc \in {"pub_locked", "pub_written", "gen_checked", "rep_locked"}
  PROVE  txn[v].slot \in Slots /\ txn[v].slot # txn[w].slot
<1>1. txn[v].slot \in Slots
  <2>1. CASE txn[v].pc = "rep_locked"
    BY <2>1 DEF AllInv, TypeInv, TxnBound, RowsBound, Existing, SlotInv, OwnSlot
  <2>2. CASE txn[v].pc # "rep_locked"
    BY <2>2 DEF AllInv, TypeInv, TxnBound
  <2> QED BY <2>1, <2>2
<1> QED BY <1>1 DEF AllInv, LockInv, SlotLocks, HoldsSlot

\* The plans a row names exist.
LEMMA ParentExists ==
  ASSUME AllInv, NEW q \in Plans, parent[q] # NoPlan
  PROVE  parent[q] \in Existing
BY DEF AllInv, TypeInv, TypeOK, RowsBound, Existing

\* A worker is not disturbed by what others do if slots and links stay, the
\* plan it replans stays live, and no plan becomes live in the slot it holds
\* but a moved replan while it generates.
LEMMA OthersShrink ==
  ASSUME AllInv, SlotInv, NEW v \in Workers, txn'[v] = txn[v],
         \A q \in Existing : slot'[q] = slot[q] /\ parent'[q] = parent[q],
         txn[v].pc \in {"pub_written", "gen_checked", "rep_locked"} =>
           \A q \in Plans : Live(q)' /\ slot'[q] = txn[v].slot =>
             \/ Live(q) /\ slot[q] = txn[v].slot /\ q \in Existing
             \/ /\ txn[v].pc = "gen_checked"
                /\ parent'[q] # NoPlan /\ slot'[parent'[q]] # slot'[q],
         txn[v].pc = "rep_locked" => Live(txn[v].plan)'
  PROVE  TxnSlot(v)'
<1>1. txn[v].pc \in {"pub_read", "pub_locked", "pub_written", "rep_row", "rep_locked"}
        => txn[v].plan \in Existing /\ txn[v].plan \in Plans
  BY DEF AllInv, TypeInv, TxnBound, Existing
<1>2. TxnSlot(v)
  BY SlotInvSplit
<1>3. ASSUME txn[v].pc \in {"pub_read", "pub_locked", "pub_written", "rep_locked"}
      PROVE  txn'[v].slot = slot'[txn'[v].plan]
  BY <1>1, <1>2, <1>3 DEF TxnSlot
<1>4. ASSUME txn[v].pc = "gen_checked", NEW q \in LiveIn(txn[v].slot)'
      PROVE  parent'[q] # NoPlan /\ slot'[parent'[q]] # slot'[q]
  <2>1. CASE q \in LiveIn(txn[v].slot) /\ q \in Existing
    <3>1. parent[q] # NoPlan /\ slot[parent[q]] # slot[q]
      BY <1>2, <1>4, <2>1 DEF TxnSlot
    <3>2. parent[q] \in Existing
      BY <2>1, <3>1, ParentExists DEF Existing
    <3> QED BY <2>1, <3>1, <3>2
  <2> QED BY <1>4, <2>1 DEF LiveIn
<1>5. ASSUME txn[v].pc = "rep_locked"
      PROVE  LiveIn(txn[v].slot)' = {txn[v].plan}
  <2>1. LiveIn(txn[v].slot) = {txn[v].plan}
    BY <1>2, <1>5 DEF TxnSlot
  <2>2. slot'[txn[v].plan] = txn[v].slot
    BY <1>3, <1>5
  <2>3. txn[v].plan \in Plans
    BY <1>1, <1>5
  <2> QED BY <1>5, <2>1, <2>2, <2>3 DEF LiveIn
<1>6. ASSUME txn[v].pc = "pub_written"
      PROVE  \A q \in Plans : Live(q)' /\ slot'[q] = txn[v].slot
                                => q \in txn[v].cascade \cup {txn[v].plan}
  BY <1>2, <1>6 DEF TxnSlot
<1> QED BY <1>3, <1>4, <1>5, <1>6 DEF TxnSlot

LEMMA GenerateInsertSlots ==
  ASSUME AllInv, SlotInv, NEW w \in Workers, GenerateInsert(w)
  PROVE  SlotInv'
<1> USE DEF AllInv
<1>1. PICK p \in Plans : /\ InsertDraft(p, txn[w].slot)
                         /\ status' = [status EXCEPT ![p] = "draft"]
  BY DEF GenerateInsert
<1>2. p \notin Existing /\ slot' = [slot EXCEPT ![p] = txn[w].slot]
  BY <1>1 DEF InsertDraft, Existing
<1>3. \A q \in Plans : Live(q)' =>
        \/ q = p /\ slot'[q] = txn[w].slot
        \/ q # p /\ Live(q) /\ slot'[q] = slot[q] /\ q \in Existing
  BY <1>1, <1>2 DEF GenerateInsert, Live, TypeInv, TypeOK, Existing
<1>4. LiveIn(txn[w].slot) = {}
  BY DEF GenerateInsert
<1>5. LiveUnique'
  BY <1>3, <1>4 DEF SlotInv, LiveUnique, LiveIn
<1>6. TxnSlot(w)'
  BY DEF GenerateInsert, End, Idle, TxnSlot, TypeInv, TypeOK
<1>7. ASSUME NEW v \in Workers \ {w}
      PROVE  TxnSlot(v)'
  <2>1. txn'[v] = txn[v]
    BY DEF GenerateInsert, End, TypeInv, TypeOK
  <2>2. txn[v].pc \in {"pub_written", "gen_checked", "rep_locked"}
          => txn[v].slot # txn[w].slot
    BY OtherSlot DEF GenerateInsert
  <2>3. txn[v].pc = "rep_locked" => Live(txn[v].plan)'
    <3>1. txn[v].pc = "rep_locked" => txn[v].plan \in Existing /\ InForce(txn[v].plan)
      BY DEF TypeInv, TxnBound, LineageInv, ReplanStillValid
    <3> QED BY <1>1, <1>2, <2>1, <3>1
        DEF GenerateInsert, Live, InForce, Existing, TypeInv, TypeOK
  <2>4. \A q \in Existing : slot'[q] = slot[q] /\ parent'[q] = parent[q]
    BY <1>2 DEF GenerateInsert, Existing, TypeInv, TypeOK
  <2> QED BY <1>3, <2>1, <2>2, <2>3, <2>4, OthersShrink
<1> QED BY <1>5, <1>6, <1>7, SlotInvJoin

LEMMA PublishCommitSlots ==
  ASSUME AllInv, SlotInv, NEW w \in Workers, PublishCommit(w)
  PROVE  SlotInv'
<1> USE DEF AllInv
<1> DEFINE p == txn[w].plan
<1>1. /\ p \in Plans /\ p \in Existing /\ txn[w].slot = slot[p]
      /\ txn[w].cascade \subseteq Existing
  BY DEF PublishCommit, TypeInv, TxnBound, Existing, SlotInv, OwnSlot
<1>2. UNCHANGED <<slot, parent>>
  BY DEF PublishCommit, lineageVars
<1>3. \A q \in Plans : Live(q)' =>
        \/ q = p
        \/ q # p /\ q \notin txn[w].cascade /\ Live(q) /\ q \in Existing
  BY DEF PublishCommit, Live, TypeInv, TypeOK, Existing
<1>4. \A q \in Plans : Live(q) /\ slot[q] = slot[p] => q \in txn[w].cascade \cup {p}
  BY <1>1 DEF PublishCommit, SlotInv, CascadeComplete
<1>5. LiveUnique'
  BY <1>1, <1>2, <1>3, <1>4 DEF SlotInv, LiveUnique
<1>6. TxnSlot(w)'
  BY DEF PublishCommit, End, Idle, TxnSlot, TypeInv, TypeOK
<1>7. ASSUME NEW v \in Workers \ {w}
      PROVE  TxnSlot(v)'
  <2>1. txn'[v] = txn[v]
    BY DEF PublishCommit, End, TypeInv, TypeOK
  <2>2. txn[v].pc \in {"pub_written", "gen_checked", "rep_locked"}
          => txn[v].slot # slot[p]
    BY <1>1, OtherSlot DEF PublishCommit
  <2>3. ASSUME txn[v].pc = "rep_locked"
        PROVE  Live(txn[v].plan)'
    <3>1. txn[v].plan \in Plans /\ InForce(txn[v].plan)
      BY <2>3 DEF TypeInv, TxnBound, Existing, LineageInv, ReplanStillValid
    <3>2. txn[v].plan \notin txn[w].cascade \cup {p}
      BY <2>3 DEF PublishCommit, LockInv, RowLocks, ForUpdate, RowsHeld
    <3> QED BY <2>1, <3>1, <3>2 DEF PublishCommit, Live, InForce
  <2> QED BY <1>2, <1>3, <2>1, <2>2, <2>3, OthersShrink
<1> QED BY <1>5, <1>6, <1>7, SlotInvJoin

LEMMA ArchiveSlots ==
  ASSUME AllInv, SlotInv, NEW p \in Plans, Archive(p)
  PROVE  SlotInv'
<1> USE DEF AllInv
<1>1. UNCHANGED <<slot, parent, txn>>
  BY DEF Archive, lineageVars
<1>2. \A q \in Plans : Live(q)' <=> Live(q) /\ q # p
  BY DEF Archive, Live, TypeInv, TypeOK
<1>3. \A q \in Plans : Live(q) => q \in Existing
  BY DEF Live, Existing
<1>4. LiveUnique'
  BY <1>1, <1>2 DEF SlotInv, LiveUnique
<1>5. ASSUME NEW v \in Workers
      PROVE  TxnSlot(v)'
  <2>1. ASSUME txn[v].pc = "rep_locked"
        PROVE  Live(txn[v].plan)'
    <3>1. txn[v].plan \in Plans /\ InForce(txn[v].plan)
      BY <2>1 DEF TypeInv, TxnBound, Existing, LineageInv, ReplanStillValid
    <3>2. txn[v].plan # p
      BY <2>1 DEF Archive, RowsHeld
    <3> QED BY <1>1, <3>1, <3>2 DEF Archive, Live, InForce, TypeInv, TypeOK
  <2> QED BY <1>1, <1>2, <1>3, <2>1, OthersShrink
<1> QED BY <1>4, <1>5, SlotInvJoin

LEMMA ReplanWriteSlots ==
  ASSUME AllInv, SlotInv, NEW w \in Workers, NEW s \in Slots, ReplanWrite(w, s)
  PROVE  SlotInv'
<1> USE DEF AllInv
<1> DEFINE p == txn[w].plan
<1>1. PICK q \in Plans :
        /\ InsertDraft(q, s)
        /\ status' = [status EXCEPT ![p] = "archived", ![q] = "draft"]
        /\ archivedAt' = [archivedAt EXCEPT ![p] = TRUE]
        /\ parent' = [parent EXCEPT ![q] = p]
  BY DEF ReplanWrite
<1>2. q \notin Existing /\ slot' = [slot EXCEPT ![q] = s]
  BY <1>1 DEF InsertDraft, Existing
<1>3. p \in Plans /\ p \in Existing /\ p # q /\ txn[w].slot = slot[p]
  BY <1>2 DEF ReplanWrite, TypeInv, TxnBound, Existing, SlotInv, OwnSlot
<1>4. \A x \in Plans : Live(x)' =>
        \/ x = q /\ slot'[x] = s
        \/ x # q /\ x # p /\ Live(x) /\ slot'[x] = slot[x] /\ x \in Existing
  BY <1>1, <1>2, <1>3 DEF Live, TypeInv, TypeOK, Existing
<1>5. \A x \in Plans : Live(x) /\ slot[x] = s => x = p
  BY DEF ReplanWrite, LiveIn
<1>6. LiveUnique'
  BY <1>4, <1>5 DEF SlotInv, LiveUnique
<1>7. TxnSlot(w)'
  BY DEF ReplanWrite, End, Idle, TxnSlot, TypeInv, TypeOK
<1>8. ASSUME NEW v \in Workers \ {w}
      PROVE  TxnSlot(v)'
  <2>1. txn'[v] = txn[v]
    BY DEF ReplanWrite, End, TypeInv, TypeOK
  <2>2. \A x \in Existing : slot'[x] = slot[x] /\ parent'[x] = parent[x]
    BY <1>1, <1>2 DEF Existing, TypeInv, TypeOK
  <2>3. ASSUME txn[v].pc = "rep_locked"
        PROVE  Live(txn[v].plan) /\ Live(txn[v].plan)' /\ slot[txn[v].plan] # s
    <3>1. txn[v].plan \in Existing /\ InForce(txn[v].plan)
      BY <2>3 DEF TypeInv, TxnBound, LineageInv, ReplanStillValid
    <3>2. txn[v].plan # p /\ txn[v].plan # q
      BY <1>2, <2>3, <3>1 DEF ReplanWrite, LockInv, RowLocks, ForUpdate, RowsHeld
    <3> QED BY <1>1, <1>5, <2>1, <3>1, <3>2
        DEF Live, InForce, Existing, TypeInv, TypeOK
  <2>4. txn[v].pc = "pub_written" => txn[v].slot # s
    BY DEF ReplanWrite, IndexSettled
  <2>5. txn[v].pc = "rep_locked" => txn[v].slot # s
    BY <2>3 DEF SlotInv, OwnSlot
  <2>6. txn[v].pc = "gen_checked" => txn[v].slot # slot[p]
    BY <1>3, OtherSlot DEF ReplanWrite
  <2>7. parent'[q] = p /\ p # NoPlan /\ slot'[p] = slot[p] /\ slot'[q] = s
    BY <1>1, <1>2, <1>3, NullAssumption DEF TypeInv, TypeOK
  <2>8. ASSUME txn[v].pc \in {"pub_written", "gen_checked", "rep_locked"},
               NEW x \in Plans, Live(x)' /\ slot'[x] = txn[v].slot
        PROVE  \/ Live(x) /\ slot[x] = txn[v].slot /\ x \in Existing
               \/ /\ txn[v].pc = "gen_checked"
                  /\ parent'[x] # NoPlan /\ slot'[parent'[x]] # slot'[x]
    <3>1. CASE x = q
      BY <2>4, <2>5, <2>6, <2>7, <2>8, <3>1
    <3>2. CASE x # q
      BY <1>4, <2>8, <3>2
    <3> QED BY <3>1, <3>2
  <2> QED BY <2>1, <2>2, <2>3, <2>8, OthersShrink
<1> QED BY <1>6, <1>7, <1>8, SlotInvJoin

LEMMA SlotStep == AllInv /\ SlotInv /\ [Next]_vars => SlotInv'
<1> SUFFICES ASSUME AllInv, SlotInv, [Next]_vars
             PROVE  SlotInv'
  OBVIOUS
<1>1. ASSUME NEW w \in Workers, Request(w)
      PROVE  SlotInv'
  BY <1>1, ReadsAndLocksSlots DEF Request
<1>2. ASSUME NEW w \in Workers, Step(w)
      PROVE  SlotInv'
  BY <1>2, EndKeepsSlots, GenerateInsertSlots, PublishCommitSlots, ReplanWriteSlots,
     ReadsAndLocksSlots
  DEF Step, GenerateIndexClash, PublishAlertClash, ReplanIndexClash, Replies
<1>3. ASSUME Deadlock
      PROVE  SlotInv'
  BY <1>3, EndKeepsSlots DEF Deadlock, DeadlockVictim, Replies
<1>4. ASSUME NEW p \in Plans, Archive(p)
      PROVE  SlotInv'
  BY <1>4, ArchiveSlots
<1>5. ASSUME UNCHANGED <<planVars, lineageVars, txn>>
      PROVE  SlotInv'
  BY <1>5 DEF SlotInv, OwnSlot, CascadeComplete, LiveUnique, OnlyMovedReplansClash,
              LiveIn, Live, planVars, lineageVars
<1> QED BY <1>1, <1>2, <1>3, <1>4, <1>5 DEF Next, Acknowledge, Dismiss, vars

LEMMA SlotInvHolds == Spec => []SlotInv
<1>1. Init => AllInv /\ SlotInv
  <2>1. Init => SlotInv
    BY DEF Init, Idle, SlotInv, OwnSlot, CascadeComplete, LiveUnique, OnlyMovedReplansClash, Live
  <2> QED BY <2>1, TypeInit, LineageInit DEF AllInv
<1>2. AllInv /\ SlotInv /\ [Next]_vars => (AllInv /\ SlotInv)'
  BY TypeStep, LockStep, LineageStep, SlotStep DEF AllInv
<1> QED BY <1>1, <1>2, PTL DEF Spec

\* At most one plan is live for a scope and period.
THEOREM OneLivePlanPerSlot == Spec => []LiveUnique
BY SlotInvHolds, PTL DEF SlotInv

\* The unique index never refuses a replan that stays in its slot, and refuses
\* a generate only for a replan that moved in after its check.
THEOREM AdvisoryLockSuffices == Spec => []OnlyMovedReplansClash
BY SlotInvHolds, PTL DEF SlotInv

-----------------------------------------------------------------------------
(* The transactions of VisitPlans implement the steps of PlanSlots: each   *)
(* commit is one step of the abstract lifecycle, and every read, lock and  *)
(* failed request is a stuttering step of it.                              *)

\* A publish archives plans of its own slot, and a row that does not exist
\* yet is not archived.
CascadeOwnSlot ==
  \A w \in Workers : txn[w].pc = "pub_written" =>
    \A q \in txn[w].cascade : slot[q] = txn[w].slot /\ q # txn[w].plan

AbsentOpen == \A p \in Plans : status[p] = "absent" => ~archivedAt[p]

MapInv == CascadeOwnSlot /\ AbsentOpen

-----------------------------------------------------------------------------
(* MapInv is an invariant.                                                 *)

LEMMA OpenStep ==
  ASSUME AllInv, MapInv, [Next]_vars
  PROVE  AbsentOpen'
<1> USE DEF AllInv
<1>1. ASSUME NEW w \in Workers, GenerateInsert(w)
      PROVE  AbsentOpen'
  BY <1>1 DEF GenerateInsert, MapInv, AbsentOpen, TypeInv, TypeOK
<1>2. ASSUME NEW w \in Workers, PublishCommit(w)
      PROVE  AbsentOpen'
  <2>1. txn[w].plan \in Existing /\ txn[w].cascade \subseteq Existing
    BY <1>2 DEF PublishCommit, TypeInv, TxnBound
  <2> QED BY <1>2, <2>1 DEF PublishCommit, MapInv, AbsentOpen, Existing, TypeInv, TypeOK
<1>3. ASSUME NEW w \in Workers, NEW s \in Slots, ReplanWrite(w, s)
      PROVE  AbsentOpen'
  <2> DEFINE p == txn[w].plan
  <2>1. PICK q \in Plans :
          /\ status' = [status EXCEPT ![p] = "archived", ![q] = "draft"]
          /\ archivedAt' = [archivedAt EXCEPT ![p] = TRUE]
    BY <1>3 DEF ReplanWrite
  <2>2. p \in Plans
    BY <1>3 DEF ReplanWrite, TypeInv, TxnBound, Existing
  <2> QED BY <2>1, <2>2 DEF MapInv, AbsentOpen, TypeInv, TypeOK
<1>4. ASSUME NEW p \in Plans, Archive(p)
      PROVE  AbsentOpen'
  BY <1>4 DEF Archive, MapInv, AbsentOpen, TypeInv, TypeOK
<1>5. ASSUME UNCHANGED planVars
      PROVE  AbsentOpen'
  BY <1>5 DEF MapInv, AbsentOpen, planVars
<1> QED BY <1>1, <1>2, <1>3, <1>4, <1>5
    DEF Next, Request, Step, Deadlock, GenerateLock, GenerateIndexClash, PublishRead,
        PublishLock, PublishWrite, PublishAlertClash, ReplanRow, ReplanLock,
        ReplanIndexClash, DeadlockVictim, Acknowledge, Dismiss, vars

\* The transactions of others keep what they said if the slots stay.
LEMMA CascadeKept ==
  ASSUME AllInv, MapInv, \A q \in Existing : slot'[q] = slot[q],
         \A v \in Workers : txn'[v] = txn[v] \/ txn'[v].pc # "pub_written"
  PROVE  CascadeOwnSlot'
BY DEF AllInv, TypeInv, TxnBound, MapInv, CascadeOwnSlot

LEMMA CascadeStep ==
  ASSUME AllInv, SlotInv, MapInv, [Next]_vars
  PROVE  CascadeOwnSlot'
<1> USE DEF AllInv
<1>1. ASSUME NEW w \in Workers, PublishWrite(w)
      PROVE  CascadeOwnSlot'
  <2> DEFINE p == txn[w].plan
  <2>1. /\ txn'[w].plan = p /\ txn'[w].slot = txn[w].slot
        /\ txn'[w].cascade = Cascade(p)
        /\ \A v \in Workers \ {w} : txn'[v] = txn[v]
    BY <1>1 DEF PublishWrite, TypeInv, TypeOK, Txn
  <2>2. txn[w].slot = slot[p]
    BY <1>1 DEF PublishWrite, SlotInv, OwnSlot
  <2>3. slot' = slot
    BY <1>1 DEF PublishWrite, planVars
  <2> QED BY <2>1, <2>2, <2>3 DEF MapInv, CascadeOwnSlot, Cascade, LiveIn
<1>2. ASSUME NEW w \in Workers,
             GenerateInsert(w) \/ \E s \in Slots : ReplanWrite(w, s)
      PROVE  CascadeOwnSlot'
  <2>1. \A v \in Workers : txn'[v] = txn[v] \/ txn'[v].pc # "pub_written"
    BY <1>2 DEF GenerateInsert, ReplanWrite, End, Idle, TypeInv, TypeOK
  <2>2. \A q \in Existing : slot'[q] = slot[q]
    BY <1>2 DEF GenerateInsert, ReplanWrite, InsertDraft, Existing, TypeInv, TypeOK
  <2> QED BY <2>1, <2>2, CascadeKept
<1>3. ASSUME slot' = slot,
             \A v \in Workers : txn'[v] = txn[v] \/ txn'[v].pc # "pub_written"
      PROVE  CascadeOwnSlot'
  BY <1>3, CascadeKept
<1>4. ASSUME NEW w \in Workers, Request(w)
      PROVE  CascadeOwnSlot'
  <2>1. ASSUME NEW s \in Slots, GenerateLock(w, s)
        PROVE  CascadeOwnSlot'
    BY <1>3, <2>1 DEF GenerateLock, Idle, planVars, TypeInv, TypeOK
  <2>2. ASSUME NEW p \in Plans, PublishRead(w, p)
        PROVE  CascadeOwnSlot'
    BY <1>3, <2>2 DEF PublishRead, Idle, planVars, TypeInv, TypeOK
  <2>3. ASSUME NEW p \in Plans, NEW a \in Alerts \cup {NoAlert}, ReplanRow(w, p, a)
        PROVE  CascadeOwnSlot'
    BY <1>3, <2>3 DEF ReplanRow, Idle, planVars, TypeInv, TypeOK
  <2> QED BY <1>4, <2>1, <2>2, <2>3 DEF Request
<1>5. ASSUME NEW w \in Workers, NEW r \in Replies, End(w, r), slot' = slot
      PROVE  CascadeOwnSlot'
  BY <1>3, <1>5 DEF End, Idle, TypeInv, TypeOK
<1>6. ASSUME NEW w \in Workers,
             \/ PublishLock(w) \/ ReplanLock(w)
      PROVE  CascadeOwnSlot'
  BY <1>3, <1>6 DEF PublishLock, ReplanLock, planVars, TypeInv, TypeOK, Txn
<1>7. ASSUME NEW w \in Workers,
             \/ GenerateIndexClash(w) \/ PublishAlertClash(w) \/ PublishCommit(w)
             \/ \E s \in Slots : ReplanIndexClash(w, s)
      PROVE  CascadeOwnSlot'
  BY <1>5, <1>7
  DEF GenerateIndexClash, PublishAlertClash, PublishCommit, ReplanIndexClash,
      Replies, planVars
<1>8. ASSUME Deadlock
      PROVE  CascadeOwnSlot'
  BY <1>5, <1>8 DEF Deadlock, DeadlockVictim, Replies, planVars
<1>9. ASSUME UNCHANGED <<slot, txn>>
      PROVE  CascadeOwnSlot'
  BY <1>3, <1>9
<1> QED BY <1>1, <1>2, <1>4, <1>6, <1>7, <1>8, <1>9
    DEF Next, Step, Archive, Acknowledge, Dismiss, planVars, vars

LEMMA MapInvHolds == Spec => [](AllInv /\ SlotInv /\ MapInv)
<1>1. Init => AllInv /\ SlotInv /\ MapInv
  <2>1. Init => SlotInv /\ MapInv
    BY DEF Init, Idle, SlotInv, OwnSlot, CascadeComplete, LiveUnique,
           OnlyMovedReplansClash, Live, MapInv, CascadeOwnSlot, AbsentOpen
  <2> QED BY <2>1, TypeInit, LineageInit DEF AllInv
<1>2. AllInv /\ SlotInv /\ MapInv /\ [Next]_vars => (AllInv /\ SlotInv /\ MapInv)'
  BY TypeStep, LockStep, LineageStep, SlotStep, OpenStep, CascadeStep DEF AllInv, MapInv
<1> QED BY <1>1, <1>2, PTL DEF Spec

-----------------------------------------------------------------------------
(* The holder of a slot, before and after a step.                          *)

LEMMA HolderNow ==
  ASSUME LiveUnique, NEW s \in Slots
  PROVE  /\ LiveIn(s) = {} => Holder[s] = NoPlan
         /\ \A p \in LiveIn(s) : Holder[s] = p
<1>1. \A p, q \in LiveIn(s) : p = q
  BY DEF LiveUnique, LiveIn
<1> QED BY <1>1 DEF Holder

\* A function that names the live plan of each slot is the holder.
LEMMA HolderAfter ==
  ASSUME LiveUnique', NEW h, h = [s \in Slots |-> h[s]],
         \A s \in Slots : \/ h[s] = NoPlan /\ LiveIn(s)' = {}
                          \/ h[s] \in LiveIn(s)'
  PROVE  Holder' = h
<1>1. ASSUME NEW s \in Slots
      PROVE  Holder'[s] = h[s]
  <2>1. \A p, q \in LiveIn(s)' : p = q
    BY DEF LiveUnique, LiveIn
  <2> QED BY <2>1 DEF Holder
<1>2. Holder' = [s \in Slots |-> Holder'[s]]
  BY DEF Holder
<1> QED BY <1>1, <1>2

LEMMA HolderFunction == Holder = [s \in Slots |-> Holder[s]]
BY DEF Holder

LEMMA Stutters ==
  ASSUME UNCHANGED planVars, UNCHANGED supersededBy
  PROVE  UNCHANGED Lifecycle!slotVars
BY DEF Lifecycle!slotVars, Holder, LiveIn, Live, planVars

\* The live plan of one slot changes to p, or to none.
LEMMA OneSlotChanges ==
  ASSUME LiveUnique, LiveUnique', NEW s \in Slots, NEW p \in Plans \cup {NoPlan},
         LiveIn(s)' = {p} \ {NoPlan},
         \A t \in Slots \ {s} : LiveIn(t)' = LiveIn(t)
  PROVE  Holder' = [Holder EXCEPT ![s] = p]
<1> DEFINE h == [Holder EXCEPT ![s] = p]
<1>1. h = [t \in Slots |-> h[t]]
  BY HolderFunction
<1>2. \A t \in Slots : h[t] = IF t = s THEN p ELSE Holder[t]
  BY HolderFunction
<1> HIDE DEF h
<1>3. ASSUME NEW t \in Slots
      PROVE  (h[t] = NoPlan /\ LiveIn(t)' = {}) \/ h[t] \in LiveIn(t)'
  <2>1. (Holder[t] = NoPlan /\ LiveIn(t) = {}) \/ Holder[t] \in LiveIn(t)
    BY HolderNow
  <2>2. CASE t = s
    BY <1>2, <2>2
  <2>3. CASE t # s
    <3>1. LiveIn(t)' = LiveIn(t) /\ h[t] = Holder[t]
      BY <1>2, <2>3
    <3> QED BY <2>1, <3>1
  <2> QED BY <2>2, <2>3
<1>4. Holder' = h
  BY <1>1, <1>3, HolderAfter
<1> QED BY <1>4 DEF h

-----------------------------------------------------------------------------
(* Each commit is a step of the abstract lifecycle.                        *)

LEMMA GenerateDrafts ==
  ASSUME AllInv, SlotInv, MapInv, LiveUnique', NEW w \in Workers, GenerateInsert(w)
  PROVE  Lifecycle!SlotStep
<1>1. PICK s \in Slots : s = txn[w].slot /\ LiveIn(s) = {}
  BY DEF GenerateInsert, AllInv, TypeInv, TxnBound
<1>2. PICK p \in Plans : /\ InsertDraft(p, s)
                         /\ status' = [status EXCEPT ![p] = "draft"]
  BY <1>1 DEF GenerateInsert
<1>3. /\ slot[p] = NoSlot /\ ~Live(p)
      /\ slot' = [slot EXCEPT ![p] = s]
  BY <1>2 DEF InsertDraft, Live, AllInv, TypeInv, RowsBound
<1>4. \A q \in Plans : Live(q)' <=> Live(q) \/ q = p
  BY <1>2 DEF GenerateInsert, InsertDraft, MapInv, AbsentOpen, Live, AllInv, TypeInv, TypeOK
<1>5. \A q \in Plans : slot'[q] = IF q = p THEN s ELSE slot[q]
  BY <1>3 DEF AllInv, TypeInv, TypeOK
<1>6. ASSUME NEW t \in Slots
      PROVE  LiveIn(t)' = IF t = s THEN {p} ELSE LiveIn(t)
  BY <1>1, <1>3, <1>4, <1>5 DEF LiveIn
<1>7. Holder[s] = NoPlan
  BY <1>1, HolderNow DEF SlotInv
<1>8. Holder' = [Holder EXCEPT ![s] = p]
  BY <1>1, <1>6, NullAssumption, OneSlotChanges DEF SlotInv
<1>9. supersededBy' = supersededBy
  BY DEF GenerateInsert
<1>10. Lifecycle!Draft(s, p)
  BY <1>3, <1>7, <1>8, <1>9 DEF Lifecycle!Draft
<1> QED BY <1>1, <1>10 DEF Lifecycle!SlotStep

\* A publish installs its plan, unless the plan it waited for archived it: then
\* the slot is left to nobody.
LEMMA PublishInstalls ==
  ASSUME AllInv, SlotInv, MapInv, LiveUnique', NEW w \in Workers, PublishCommit(w)
  PROVE  Lifecycle!SlotStep
<1>1. PICK p \in Plans, s \in Slots :
        /\ p = txn[w].plan /\ s = slot[p]
        /\ p \in Existing /\ txn[w].slot = s
  <2> DEFINE x == txn[w].plan
  <2>1. x \in Plans /\ x \in Existing /\ slot[x] \in Slots /\ txn[w].slot = slot[x]
    BY DEF PublishCommit, AllInv, TypeInv, TxnBound, RowsBound, Existing, SlotInv, OwnSlot
  <2> QED BY <2>1
<1>2. slot' = slot /\ supersededBy' = supersededBy
  BY DEF PublishCommit, lineageVars
<1>3. \A q \in txn[w].cascade : q \in Plans /\ slot[q] = s /\ q # p
  BY <1>1 DEF PublishCommit, MapInv, CascadeOwnSlot, AllInv, TypeInv, TxnBound, Existing
<1>4. \A q \in Plans : Live(q)' <=>
        \/ q = p /\ ~archivedAt[p]
        \/ q # p /\ q \notin txn[w].cascade /\ Live(q)
  BY <1>1, <1>3 DEF PublishCommit, Live, AllInv, TypeInv, TypeOK
<1>5. \A q \in Plans : Live(q) /\ slot[q] = s => q \in txn[w].cascade \cup {p}
  BY <1>1 DEF PublishCommit, SlotInv, CascadeComplete
<1>6. LiveIn(s)' = IF archivedAt[p] THEN {} ELSE {p}
  BY <1>1, <1>2, <1>4, <1>5 DEF LiveIn
<1>7. \A t \in Slots \ {s} : LiveIn(t)' = LiveIn(t)
  BY <1>1, <1>2, <1>3, <1>4 DEF LiveIn
<1>8. CASE archivedAt[p]
  <2>1. Holder' = [Holder EXCEPT ![s] = NoPlan]
    BY <1>1, <1>6, <1>7, <1>8, OneSlotChanges DEF SlotInv
  <2> QED BY <1>1, <1>2, <2>1 DEF Lifecycle!SlotStep, Lifecycle!Vacate
<1>9. CASE ~archivedAt[p]
  <2>1. Holder' = [Holder EXCEPT ![s] = p]
    BY <1>1, <1>6, <1>7, <1>9, OneSlotChanges, NullAssumption DEF SlotInv
  <2>2. supersededBy[p] = NoPlan
    BY <1>9 DEF AllInv, LineageInv, LineageHead
  <2>3. Lifecycle!Install(s, p)
    BY <1>1, <1>2, <2>1, <2>2 DEF Lifecycle!Install
  <2> QED BY <1>1, <2>3 DEF Lifecycle!SlotStep
<1> QED BY <1>8, <1>9

\* Archiving a live plan frees its slot; archiving another changes nothing.
LEMMA ArchiveVacates ==
  ASSUME AllInv, SlotInv, MapInv, LiveUnique', NEW p \in Plans, Archive(p)
  PROVE  Lifecycle!SlotStep \/ UNCHANGED Lifecycle!slotVars
<1>1. PICK s \in Slots : s = slot[p] /\ UNCHANGED <<slot, supersededBy>>
  BY DEF Archive, lineageVars, AllInv, TypeInv, RowsBound
<1>2. \A q \in Plans : Live(q)' <=> Live(q) /\ q # p
  BY DEF Archive, Live, AllInv, TypeInv, TypeOK
<1>3. CASE Live(p)
  <2>1. LiveIn(s)' = {} /\ \A t \in Slots \ {s} : LiveIn(t)' = LiveIn(t)
    BY <1>1, <1>2, <1>3 DEF LiveIn, SlotInv, LiveUnique
  <2>2. Holder' = [Holder EXCEPT ![s] = NoPlan]
    BY <1>1, <2>1, OneSlotChanges DEF SlotInv
  <2> QED BY <1>1, <2>2 DEF Lifecycle!SlotStep, Lifecycle!Vacate
<1>4. CASE ~Live(p)
  <2>1. ASSUME NEW t \in Slots
        PROVE  (Holder[t] = NoPlan /\ LiveIn(t)' = {}) \/ Holder[t] \in LiveIn(t)'
    <3>1. LiveIn(t)' = LiveIn(t)
      BY <1>1, <1>2, <1>4 DEF LiveIn
    <3> QED BY <3>1, HolderNow DEF SlotInv
  <2>2. Holder' = Holder
    BY <2>1, HolderFunction, HolderAfter
  <2> QED BY <1>1, <2>2 DEF Lifecycle!slotVars
<1> QED BY <1>3, <1>4

\* A replan hands its slot, or one that is free, to the child.
LEMMA ReplanSupersedes ==
  ASSUME AllInv, SlotInv, MapInv, LiveUnique', NEW w \in Workers, NEW t \in Slots,
         ReplanWrite(w, t)
  PROVE  Lifecycle!SlotStep
<1>0. PICK p \in Plans, s \in Slots :
        p = txn[w].plan /\ s = slot[p] /\ p \in Existing
  <2> DEFINE x == txn[w].plan
  <2>1. x \in Plans /\ x \in Existing /\ slot[x] \in Slots
    BY DEF ReplanWrite, AllInv, TypeInv, TxnBound, RowsBound, Existing
  <2> QED BY <2>1
<1>1. PICK q \in Plans :
        /\ InsertDraft(q, t)
        /\ status' = [status EXCEPT ![p] = "archived", ![q] = "draft"]
        /\ archivedAt' = [archivedAt EXCEPT ![p] = TRUE]
        /\ supersededBy' = [supersededBy EXCEPT ![p] = q]
  BY <1>0 DEF ReplanWrite
<1>2. /\ slot[q] = NoSlot /\ q \notin Existing
      /\ slot' = [slot EXCEPT ![q] = t]
  BY <1>1 DEF InsertDraft, Existing, AllInv, TypeInv, RowsBound
<1>3. p # q
  BY <1>0, <1>2
<1>4. Live(p) /\ supersededBy[p] = NoPlan
  BY <1>0 DEF ReplanWrite, AllInv, LineageInv, ReplanStillValid, InForce, Live
<1>5. \A x \in Plans : Live(x)' <=> x = q \/ (x # p /\ Live(x))
  BY <1>1, <1>2, <1>3 DEF MapInv, AbsentOpen, Live, Existing, AllInv, TypeInv, TypeOK
<1>6. \A x \in Plans : slot'[x] = IF x = q THEN t ELSE slot[x]
  BY <1>2 DEF AllInv, TypeInv, TypeOK
<1>7. ~Live(q)
  BY <1>2 DEF Live, Existing
<1>8. LiveIn(t) \ {p} = {}
  BY <1>0 DEF ReplanWrite
<1>9. LiveIn(s) = {p}
  BY <1>0, <1>4 DEF LiveIn, SlotInv, LiveUnique
<1>10. Holder[s] = p
  BY <1>3, <1>9, HolderNow DEF SlotInv
<1>11. t = s \/ Holder[t] = NoPlan
  <2>1. t # s => LiveIn(t) = {}
    BY <1>0, <1>8 DEF LiveIn
  <2> QED BY <2>1, HolderNow DEF SlotInv
<1>12. \A u \in Slots : LiveIn(u)' = IF u = t THEN {q} ELSE IF u = s THEN {} ELSE LiveIn(u)
  <2>1. LiveIn(t)' = {q}
    BY <1>0, <1>5, <1>6, <1>8 DEF LiveIn
  <2>2. s # t => LiveIn(s)' = {}
    BY <1>0, <1>5, <1>6, <1>9 DEF LiveIn
  <2>3. \A u \in Slots \ {s, t} : LiveIn(u)' = LiveIn(u)
    BY <1>0, <1>5, <1>6, <1>7 DEF LiveIn
  <2> QED BY <2>1, <2>2, <2>3
<1>13. Holder' = [[Holder EXCEPT ![s] = NoPlan] EXCEPT ![t] = q]
  <2> DEFINE h == [[Holder EXCEPT ![s] = NoPlan] EXCEPT ![t] = q]
  <2>1. h = [u \in Slots |-> h[u]]
    BY HolderFunction
  <2>2. \A u \in Slots :
          h[u] = IF u = t THEN q ELSE IF u = s THEN NoPlan ELSE Holder[u]
    BY <1>3, HolderFunction
  <2> HIDE DEF h
  <2>3. ASSUME NEW u \in Slots
        PROVE  (h[u] = NoPlan /\ LiveIn(u)' = {}) \/ h[u] \in LiveIn(u)'
    <3>1. (Holder[u] = NoPlan /\ LiveIn(u) = {}) \/ Holder[u] \in LiveIn(u)
      BY HolderNow DEF SlotInv
    <3>2. LiveIn(u)' = IF u = t THEN {q} ELSE IF u = s THEN {} ELSE LiveIn(u)
      BY <1>12
    <3> QED BY <2>2, <3>1, <3>2
  <2>4. Holder' = h
    BY <2>1, <2>3, HolderAfter
  <2> QED BY <2>4 DEF h
<1>14. Lifecycle!Supersede(s, p, t, q)
  BY <1>1, <1>2, <1>4, <1>10, <1>11, <1>13 DEF Lifecycle!Supersede
<1> QED BY <1>1, <1>14 DEF Lifecycle!SlotStep

-----------------------------------------------------------------------------
LEMMA EveryStepMaps ==
  AllInv /\ SlotInv /\ MapInv /\ LiveUnique' /\ [Next]_vars
    => [Lifecycle!SlotStep]_(Lifecycle!slotVars)
<1> SUFFICES ASSUME AllInv, SlotInv, MapInv, LiveUnique', [Next]_vars
             PROVE  Lifecycle!SlotStep \/ UNCHANGED Lifecycle!slotVars
  OBVIOUS
<1>1. ASSUME UNCHANGED planVars, UNCHANGED supersededBy
      PROVE  UNCHANGED Lifecycle!slotVars
  BY <1>1, Stutters
<1>2. ASSUME NEW w \in Workers, Request(w)
      PROVE  UNCHANGED Lifecycle!slotVars
  BY <1>1, <1>2 DEF Request, GenerateLock, PublishRead, ReplanRow, lineageVars
<1>3. ASSUME NEW w \in Workers, Step(w)
      PROVE  Lifecycle!SlotStep \/ UNCHANGED Lifecycle!slotVars
  BY <1>1, <1>3, GenerateDrafts, PublishInstalls, ReplanSupersedes
  DEF Step, GenerateIndexClash, PublishLock, PublishWrite, PublishAlertClash,
      ReplanLock, ReplanIndexClash, lineageVars
<1>4. ASSUME Deadlock
      PROVE  UNCHANGED Lifecycle!slotVars
  BY <1>1, <1>4 DEF Deadlock, DeadlockVictim, lineageVars
<1>5. ASSUME NEW p \in Plans, Archive(p)
      PROVE  Lifecycle!SlotStep \/ UNCHANGED Lifecycle!slotVars
  BY <1>5, ArchiveVacates
<1>6. ASSUME UNCHANGED <<planVars, lineageVars>>
      PROVE  UNCHANGED Lifecycle!slotVars
  BY <1>1, <1>6 DEF lineageVars
<1> QED BY <1>2, <1>3, <1>4, <1>5, <1>6 DEF Next, Acknowledge, Dismiss, vars

\* Whatever requests run at once, and whichever fail, visit_plans goes through
\* the steps of PlanSlots: a slot changes hands one plan at a time, and a plan
\* that was superseded once never holds it again.
THEOREM LifecycleImplemented == Spec => SlotsChangeHands
<1>1. Init => Lifecycle!Empty
  BY DEF Init, Lifecycle!Empty, Holder, LiveIn, Live
<1>2. AllInv /\ SlotInv /\ MapInv /\ (AllInv /\ SlotInv /\ MapInv)' /\ [Next]_vars
        => [Lifecycle!SlotStep]_(Lifecycle!slotVars)
  BY EveryStepMaps DEF SlotInv
<1> QED BY <1>1, <1>2, MapInvHolds, PTL DEF Spec, SlotsChangeHands, Lifecycle!SlotSpec

-----------------------------------------------------------------------------
(* Requests that do not overlap in time leave one plan at most with stops  *)
(* on a day: what a publish has found to collide is what collides when it  *)
(* commits, for nobody else has written meanwhile.                         *)

\* The stops of a plan are in its window.
StopsInWindow ==
  \A p \in Plans, d \in Days :
    stop[p][d] = "planned" => slot[p] \in Slots /\ d \in DaysOf(slot[p])

OneInFlight == \A v, w \in Workers : txn[v] # Idle /\ txn[w] # Idle => v = w

HitsComplete ==
  \A w \in Workers : txn[w].pc = "pub_written" =>
    Colliding(txn[w].plan) \subseteq txn[w].hits

SerialInv == serial => OneInFlight /\ HitsComplete /\ OneVigente

LEMMA StopsStep ==
  ASSUME AllInv, StopsInWindow, [Next]_vars
  PROVE  StopsInWindow'
<1> USE DEF AllInv
<1>1. ASSUME NEW p \in Plans, NEW s \in Slots, InsertDraft(p, s)
      PROVE  StopsInWindow'
  BY <1>1 DEF InsertDraft, StopsInWindow, TypeInv, TypeOK, StopStates
<1>2. ASSUME NEW w \in Workers, GenerateInsert(w)
      PROVE  StopsInWindow'
  <2>1. txn[w].slot \in Slots
    BY <1>2 DEF GenerateInsert, TypeInv, TxnBound
  <2> QED BY <1>1, <1>2, <2>1 DEF GenerateInsert
<1>3. ASSUME NEW w \in Workers, NEW s \in Slots, ReplanWrite(w, s)
      PROVE  StopsInWindow'
  BY <1>1, <1>3 DEF ReplanWrite
<1>4. ASSUME NEW w \in Workers, PublishCommit(w)
      PROVE  StopsInWindow'
  <2>1. slot' = slot
    BY <1>4 DEF PublishCommit
  <2>2. \A p \in Plans, d \in Days : stop'[p][d] = "planned" => stop[p][d] = "planned"
    BY <1>4 DEF PublishCommit, Reschedule
  <2> QED BY <2>1, <2>2 DEF StopsInWindow
<1>5. ASSUME UNCHANGED <<slot, stop>>
      PROVE  StopsInWindow'
  BY <1>5 DEF StopsInWindow
<1>6. ASSUME NEW w \in Workers, Step(w)
      PROVE  StopsInWindow'
  BY <1>2, <1>3, <1>4, <1>5, <1>6
  DEF Step, GenerateIndexClash, PublishLock, PublishWrite, PublishAlertClash, ReplanLock,
      ReplanIndexClash, planVars
<1>7. ASSUME NEW w \in Workers, Request(w)
      PROVE  StopsInWindow'
  BY <1>5, <1>7 DEF Request, GenerateLock, PublishRead, ReplanRow, planVars
<1>8. ASSUME Deadlock \/ (\E p \in Plans : Archive(p))
             \/ (\E a \in Alerts : Acknowledge(a) \/ Dismiss(a)) \/ UNCHANGED vars
      PROVE  StopsInWindow'
  BY <1>5, <1>8
  DEF Deadlock, DeadlockVictim, Archive, Acknowledge, Dismiss, planVars, vars
<1> QED BY <1>6, <1>7, <1>8 DEF Next

\* A step after which no more plans are in force than before, with the stops
\* they had.
LEMMA NoneComesInForce ==
  ASSUME AllInv, StopsInWindow, OneVigente,
         \A p \in Plans : InForce(p)' => /\ InForce(p)
                                         /\ slot'[p] = slot[p] /\ stop'[p] = stop[p]
  PROVE  OneVigente'
BY DEF OneVigente

\* A step of a request in flight, and one that starts or answers no request.
LEMMA OthersIdle ==
  ASSUME AllInv, OneInFlight, NEW w \in Workers, NEW v \in Workers,
         txn[w].pc # "idle", txn[v].pc # "idle"
  PROVE  v = w
BY DEF OneInFlight, Idle

LEMMA PublishCommitVigente ==
  ASSUME AllInv, SlotInv, LiveUnique', StopsInWindow, StopsInWindow', OneVigente,
         HitsComplete, NEW w \in Workers, PublishCommit(w),
         NEW p \in Plans, p = txn[w].plan
  PROVE  OneVigente'
<1> USE DEF AllInv
<1>1. slot' = slot
  BY DEF PublishCommit
<1>2. ASSUME NEW q \in Plans, q # p, InForce(q)'
      PROVE  InForce(q)
  BY <1>1, <1>2 DEF PublishCommit, InForce, TypeInv, TypeOK
<1>3. \A q \in Plans, d \in Days : stop'[q][d] = "planned" => stop[q][d] = "planned"
  BY DEF PublishCommit, Reschedule
<1>4. ASSUME NEW q \in Plans, q # p, InForce(p)', InForce(q)', slot[q][1] = slot[p][1],
             NEW d \in Days, stop'[p][d] = "planned", stop'[q][d] = "planned"
      PROVE  FALSE
  <2>1. slot[q] # slot[p]
    <3>1. Live(p)' /\ Live(q)'
      BY <1>4 DEF InForce, Live
    <3> QED BY <1>1, <1>4, <3>1 DEF LiveUnique
  <2>2. /\ slot[p] \in Slots /\ slot[q] \in Slots
        /\ d \in Window(slot[p], slot[q])
    BY <1>1, <1>3, <1>4 DEF StopsInWindow, Window
  <2>3. q \in Colliding(p)
    BY <1>2, <1>4, <2>1, <2>2, NullAssumption DEF Colliding, Slots
  <2>4. q \in txn[w].hits
    BY <2>3 DEF PublishCommit, HitsComplete
  <2>5. stop'[q][d] # "planned"
    BY <2>2, <2>4 DEF PublishCommit, Reschedule
  <2> QED BY <1>4, <2>5
<1>5. ASSUME NEW x \in Plans, NEW y \in Plans, NEW d \in Days,
             InForce(x)', InForce(y)', slot'[x][1] = slot'[y][1],
             stop'[x][d] = "planned", stop'[y][d] = "planned", x # y
      PROVE  FALSE
  <2>1. CASE x = p
    BY <1>1, <1>4, <1>5, <2>1
  <2>2. CASE y = p
    BY <1>1, <1>4, <1>5, <2>2
  <2>3. CASE x # p /\ y # p
    BY <1>1, <1>2, <1>3, <1>5, <2>3 DEF OneVigente
  <2> QED BY <2>1, <2>2, <2>3
<1> QED BY <1>5 DEF OneVigente

LEMMA SerialStep ==
  ASSUME AllInv, SlotInv, LiveUnique', StopsInWindow, StopsInWindow', SerialInv,
         [MCNext]_<<vars, serial>>
  PROVE  SerialInv'
<1> USE DEF AllInv
<1> SUFFICES ASSUME serial'
             PROVE  OneInFlight' /\ HitsComplete' /\ OneVigente'
  BY DEF SerialInv
<1>1. serial /\ [Next]_vars /\ OneInFlight /\ HitsComplete /\ OneVigente
  BY DEF MCNext, vars, SerialInv
<1>2. OneInFlight'
  BY <1>1 DEF MCNext, OneInFlight, vars
\* A publish that has written is not overtaken by one that brings plans in force.
<1>3. ASSUME UNCHANGED slot, \A p \in Plans : InForce(p)' => InForce(p),
             \A w \in Workers : txn'[w].pc = "pub_written" =>
               \/ txn'[w] = txn[w]
               \/ txn'[w].hits = Colliding(txn'[w].plan)
      PROVE  HitsComplete'
  <2> SUFFICES ASSUME NEW w \in Workers, txn'[w].pc = "pub_written",
                      NEW q \in Colliding(txn[w].plan)'
               PROVE  q \in txn'[w].hits
    BY DEF HitsComplete
  <2>1. q \in Colliding(txn'[w].plan)
    BY <1>3 DEF Colliding
  <2> QED BY <1>1, <1>3, <2>1 DEF HitsComplete
<1>4. ASSUME NEW w \in Workers, txn[w].pc \notin {"idle", "pub_written"},
             \E r \in Replies : End(w, r)
      PROVE  HitsComplete'
  BY <1>1, <1>4, OthersIdle DEF End, Idle, HitsComplete, TypeInv, TypeOK
<1>5. ASSUME NEW w \in Workers, Step(w)
      PROVE  HitsComplete' /\ OneVigente'
  <2>1. CASE GenerateInsert(w)
    <3>1. HitsComplete'
      BY <1>4, <2>1 DEF GenerateInsert, Replies
    <3>2. \A p \in Plans : InForce(p)' => /\ InForce(p)
                                          /\ slot'[p] = slot[p] /\ stop'[p] = stop[p]
      BY <2>1 DEF GenerateInsert, InsertDraft, InForce, TypeInv, TypeOK
    <3> QED BY <1>1, <3>1, <3>2, NoneComesInForce
  <2>2. ASSUME NEW s \in Slots, ReplanWrite(w, s)
        PROVE  HitsComplete' /\ OneVigente'
    <3>1. HitsComplete'
      BY <1>4, <2>2 DEF ReplanWrite, Replies
    <3>2. txn[w].plan \in Plans
      BY <2>2 DEF ReplanWrite, TypeInv, TypeOK, TxnBound, Existing
    <3>3. \A p \in Plans : InForce(p)' => /\ InForce(p)
                                          /\ slot'[p] = slot[p] /\ stop'[p] = stop[p]
      BY <2>2, <3>2 DEF ReplanWrite, InsertDraft, InForce, TypeInv, TypeOK
    <3> QED BY <1>1, <3>1, <3>3, NoneComesInForce
  <2>3. CASE PublishCommit(w)
    <3>1. HitsComplete'
      BY <1>1, <2>3, OthersIdle DEF PublishCommit, End, Idle, HitsComplete, TypeInv, TypeOK
    <3>2. txn[w].plan \in Plans
      BY <2>3 DEF PublishCommit, TypeInv, TypeOK, TxnBound, Existing
    <3> QED BY <1>1, <2>3, <3>1, <3>2, PublishCommitVigente
  <2>4. CASE \/ GenerateIndexClash(w) \/ PublishAlertClash(w)
             \/ \E s \in Slots : ReplanIndexClash(w, s)
    <3>1. UNCHANGED <<planVars, stop>> /\ HitsComplete'
      BY <1>4, <2>4 DEF GenerateIndexClash, PublishAlertClash, ReplanIndexClash, Replies
    <3> QED BY <1>1, <3>1, NoneComesInForce DEF planVars, InForce
  <2>5. CASE PublishLock(w) \/ PublishWrite(w) \/ ReplanLock(w)
    <3>1. UNCHANGED <<planVars, stop>>
      BY <2>5 DEF PublishLock, PublishWrite, ReplanLock
    <3>2. ASSUME NEW v \in Workers, txn'[v].pc = "pub_written"
          PROVE  txn'[v] = txn[v] \/ txn'[v].hits = Colliding(txn'[v].plan)
      <4>1. CASE PublishLock(w)
        BY <3>2, <4>1 DEF PublishLock, TypeInv, TypeOK, Txn
      <4>2. CASE PublishWrite(w)
        <5>1. \/ v # w /\ txn'[v] = txn[v]
              \/ /\ v = w /\ txn'[w].plan = txn[w].plan
                 /\ txn'[w].hits = Colliding(txn[w].plan)
          BY <4>2 DEF PublishWrite, TypeInv, TypeOK, Txn
        <5> QED BY <5>1
      <4>3. CASE ReplanLock(w)
        BY <3>2, <4>3 DEF ReplanLock, TypeInv, TypeOK, Txn
      <4> QED BY <2>5, <4>1, <4>2, <4>3
    <3>3. HitsComplete'
      BY <1>1, <1>3, <3>1, <3>2 DEF planVars, InForce
    <3> QED BY <1>1, <3>1, <3>3, NoneComesInForce DEF planVars, InForce
  <2> QED BY <1>5, <2>1, <2>2, <2>3, <2>4, <2>5 DEF Step
<1>6. ASSUME NEW w \in Workers, Request(w)
      PROVE  HitsComplete' /\ OneVigente'
  <2>1. UNCHANGED <<planVars, stop>>
    BY <1>6 DEF Request, GenerateLock, PublishRead, ReplanRow
  <2>2. \A v \in Workers : txn'[v].pc = "pub_written" => txn'[v] = txn[v]
    <3>1. PICK t : txn' = [txn EXCEPT ![w] = t] /\ t.pc # "pub_written"
      <4>1. ASSUME NEW s \in Slots, GenerateLock(w, s)
            PROVE  \E t : txn' = [txn EXCEPT ![w] = t] /\ t.pc # "pub_written"
        <5> DEFINE t == [Idle EXCEPT !.pc = "gen_checked", !.slot = s]
        <5>1. txn' = [txn EXCEPT ![w] = t] /\ t.pc # "pub_written"
          BY <4>1 DEF GenerateLock, Idle
        <5> QED BY <5>1
      <4>2. ASSUME NEW p \in Plans, PublishRead(w, p)
            PROVE  \E t : txn' = [txn EXCEPT ![w] = t] /\ t.pc # "pub_written"
        <5> DEFINE t == [Idle EXCEPT !.pc = "pub_read", !.plan = p, !.slot = slot[p]]
        <5>1. txn' = [txn EXCEPT ![w] = t] /\ t.pc # "pub_written"
          BY <4>2 DEF PublishRead, Idle
        <5> QED BY <5>1
      <4>3. ASSUME NEW p \in Plans, NEW a \in Alerts \cup {NoAlert}, ReplanRow(w, p, a)
            PROVE  \E t : txn' = [txn EXCEPT ![w] = t] /\ t.pc # "pub_written"
        <5> DEFINE t == [Idle EXCEPT !.pc = "rep_row", !.plan = p, !.alert = a]
        <5>1. txn' = [txn EXCEPT ![w] = t] /\ t.pc # "pub_written"
          BY <4>3 DEF ReplanRow, Idle
        <5> QED BY <5>1
      <4> QED BY <1>6, <4>1, <4>2, <4>3 DEF Request
    <3> QED BY <3>1 DEF TypeInv, TypeOK
  <2>3. HitsComplete'
    BY <1>3, <2>1, <2>2 DEF planVars, InForce
  <2> QED BY <1>1, <2>1, <2>3, NoneComesInForce DEF planVars, InForce
<1>7. ASSUME Deadlock
      PROVE  HitsComplete' /\ OneVigente'
  <2>1. UNCHANGED <<planVars, stop>>
    BY <1>7 DEF Deadlock, DeadlockVictim
  <2>2. \A v \in Workers : txn'[v].pc = "pub_written" => txn'[v] = txn[v]
    BY <1>7 DEF Deadlock, DeadlockVictim, End, Idle, TypeInv, TypeOK
  <2>3. HitsComplete'
    BY <1>3, <2>1, <2>2 DEF planVars, InForce
  <2> QED BY <1>1, <2>1, <2>3, NoneComesInForce DEF planVars, InForce
<1>8. ASSUME NEW p \in Plans, Archive(p)
      PROVE  HitsComplete' /\ OneVigente'
  <2>1. UNCHANGED <<slot, stop, txn>> /\ \A q \in Plans : InForce(q)' => InForce(q)
    BY <1>8 DEF Archive, InForce, TypeInv, TypeOK
  <2> QED BY <1>1, <1>3, <2>1, NoneComesInForce
<1>9. ASSUME UNCHANGED <<planVars, stop, txn>>
      PROVE  HitsComplete' /\ OneVigente'
  BY <1>1, <1>3, <1>9, NoneComesInForce DEF planVars, InForce
<1> QED BY <1>1, <1>2, <1>5, <1>6, <1>7, <1>8, <1>9
        DEF Next, Acknowledge, Dismiss, vars

\* When requests do not overlap in time, the cascade and the conflict detector
\* leave one plan with planned stops on a day, whatever windows plans have
\* (visitPlans.publish, conflictDetector.detectAndRecordConflicts).
THEOREM SerialRequestsAgree == MCSpec => []SerialOneVigente
<1>1. MCSpec => Spec
  <2>1. MCInit => Init
    BY DEF MCInit
  <2>2. [MCNext]_<<vars, serial>> => [Next]_vars
    BY DEF MCNext, vars
  <2> QED BY <2>1, <2>2, PTL DEF MCSpec, Spec
<1>2. Spec => [](AllInv /\ SlotInv)
  BY LineageInvHolds, SlotInvHolds, PTL DEF AllInv
<1>3. MCInit => StopsInWindow /\ SerialInv
  BY DEF MCInit, Init, Idle, StopsInWindow, SerialInv, OneInFlight, HitsComplete,
         OneVigente, InForce
<1>4. /\ AllInv /\ SlotInv /\ AllInv' /\ SlotInv' /\ StopsInWindow /\ SerialInv
      /\ [MCNext]_<<vars, serial>>
      => StopsInWindow' /\ SerialInv'
  <2> SUFFICES ASSUME AllInv, SlotInv, SlotInv', StopsInWindow, SerialInv,
                      [MCNext]_<<vars, serial>>
               PROVE  StopsInWindow' /\ SerialInv'
    OBVIOUS
  <2>1. [Next]_vars
    BY DEF MCNext, vars
  <2>2. StopsInWindow'
    BY <2>1, StopsStep
  <2>3. LiveUnique'
    BY DEF SlotInv
  <2> QED BY <2>2, <2>3, SerialStep
<1>5. SerialInv => SerialOneVigente
  BY DEF SerialInv, SerialOneVigente
<1> QED BY <1>1, <1>2, <1>3, <1>4, <1>5, PTL DEF MCSpec

=============================================================================
