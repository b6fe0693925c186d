----------------------------- MODULE VisitPlans -----------------------------
(***************************************************************************)
(* The life of a visit plan: generate, publish, archive and replan, with   *)
(* the conflict alerts that publishing raises.  Every request is a         *)
(* Postgres transaction run by a server worker under READ COMMITTED, so a  *)
(* request is cut where another transaction can come in: at a read that is *)
(* used later, at an advisory or row lock it may wait for, at the commit.  *)
(*                                                                         *)
(* The table visit_plans is a set of functions on plan ids, one for each   *)
(* column the lifecycle depends on.  A stop of the table                   *)
(* visit_plan_assignments stands for all the rows of a plan on one day.    *)
(***************************************************************************)
EXTENDS Integers, FiniteSets

CONSTANTS
  Plans,       \* ids of visit_plans rows; also bounds how many are created
  NoPlan,      \* NULL in parent_plan_id and superseded_by_plan_id
  Alerts,      \* ids of plan_conflict_alerts rows; bounds how many are raised
  NoAlert,     \* a replan that was not started from an alert
  Scopes,      \* values of scope_hash
  Periods,     \* the [from, to] windows that are requested, days being integers
  Days,        \* every day of those windows
  NoSlot,      \* the slot of a plan id that is not in use
  Workers,     \* requests that can be in flight at once
  MaxVersion   \* bound on the length of a lineage (1: no replan)

ASSUME NullAssumption ==
  /\ NoPlan \notin Plans
  /\ NoAlert \notin Alerts
  /\ NoSlot \notin Scopes \X Periods

ASSUME PeriodAssumption ==
  /\ Days \subseteq Int
  /\ \A pd \in Periods : {pd.from, pd.to} \subseteq Days /\ pd.from <= pd.to

ASSUME BoundAssumption == MaxVersion \in Nat \ {0}

VARIABLES
  status,        \* visit_plans.status, "absent" for an id not yet inserted
  slot,          \* <<scope_hash, period>>
  archivedAt,    \* archived_at IS NOT NULL
  parent,        \* parent_plan_id
  supersededBy,  \* superseded_by_plan_id
  version,       \* version
  root,          \* the plan a lineage started from (the recursive query's root)
  stop,          \* state of a plan's stops on each day
  alert,         \* the table plan_conflict_alerts
  txn,           \* what each worker's transaction has read, locked and written
  reply          \* how the last request of each worker ended

planVars    == <<status, slot, archivedAt>>
lineageVars == <<parent, supersededBy, version, root>>
vars == <<planVars, lineageVars, stop, alert, txn, reply>>

-----------------------------------------------------------------------------
Slots == Scopes \X Periods

Statuses == {"absent", "draft", "published", "archived"}

StopStates == {"none", "planned", "rescheduled"}

AlertRow == [new : Plans, old : Plans, resolution : Plans \cup {NoPlan},
             status : {"pending", "acknowledged", "reoptimized", "dismissed"}]

ASSUME AlertAssumption == NoAlert \notin AlertRow

Txn == [pc : {"idle", "pub_read", "pub_locked", "pub_written",
              "gen_checked", "rep_row", "rep_locked"},
        plan : Plans \cup {NoPlan}, slot : Slots \cup {NoSlot},
        alert : Alerts \cup {NoAlert}, version : Nat,
        cascade : SUBSET Plans, hits : SUBSET Plans]

\* A worker with no request in flight.
Idle == [pc |-> "idle", plan |-> NoPlan, slot |-> NoSlot, alert |-> NoAlert,
         version |-> 0, cascade |-> {}, hits |-> {}]

\* "index" is a unique_violation on visit_plans and "alert" one on
\* plan_conflict_alerts; both reach the client as a 500, as "deadlock" does.
Replies == {"none", "ok", "index", "alert", "deadlock"}

TypeOK ==
  /\ status \in [Plans -> Statuses]
  /\ slot \in [Plans -> Slots \cup {NoSlot}]
  /\ archivedAt \in [Plans -> BOOLEAN]
  /\ parent \in [Plans -> Plans \cup {NoPlan}]
  /\ supersededBy \in [Plans -> Plans \cup {NoPlan}]
  /\ version \in [Plans -> Nat]
  /\ root \in [Plans -> Plans \cup {NoPlan}]
  /\ stop \in [Plans -> [Days -> StopStates]]
  /\ alert \in [Alerts -> AlertRow \cup {NoAlert}]
  /\ txn \in [Workers -> Txn]
  /\ reply \in [Workers -> Replies]

-----------------------------------------------------------------------------
(* Rows and locks.                                                         *)

\* The rows of the partial unique index idx_visit_plans_scope_period_unique.
Live(p) == status[p] \in {"draft", "published"} /\ ~archivedAt[p]

\* Mutant: archived_at is not looked at.
InForceByStatus(p) == status[p] = "published"

InForce(p) == status[p] = "published" /\ ~archivedAt[p]

LiveIn(s) == {p \in Plans : slot[p] = s /\ Live(p)}

DaysOf(s) == {d \in Days : s[2].from <= d /\ d <= s[2].to}

\* overlapWindow: the days two windows share.
Window(s, t) == DaysOf(s) \cap DaysOf(t)

\* pg_advisory_xact_lock on md5(scope_hash|period_start|period_end).
HoldsSlot(w, s) ==
  /\ txn[w].pc \in {"pub_locked", "pub_written", "gen_checked", "rep_locked"}
  /\ txn[w].slot = s

\* Mutant: the advisory lock is not taken.
SlotNotLocked(w, s) == TRUE

SlotFree(w, s) == \A v \in Workers \ {w} : ~HoldsSlot(v, s)

\* Mutant: the parent is read without FOR UPDATE.
RowsHeldNoForUpdate(w) ==
  IF txn[w].pc = "pub_written" THEN txn[w].cascade \cup {txn[w].plan} ELSE {}

\* visit_plans rows that a transaction has updated or selected FOR UPDATE.
RowsHeld(w) ==
  CASE txn[w].pc = "pub_written" -> txn[w].cascade \cup {txn[w].plan}
    [] txn[w].pc \in {"rep_row", "rep_locked"} -> {txn[w].plan}
    [] OTHER -> {}

RowsFree(w, rows) == \A v \in Workers \ {w} : RowsHeld(v) \cap rows = {}

\* The foreign key of an alert holds a KEY SHARE lock on the plan it is about,
\* which only FOR UPDATE conflicts with.
KeyShare(w) == IF txn[w].pc = "pub_written" THEN txn[w].hits ELSE {}

ForUpdate(w) == IF txn[w].pc \in {"rep_row", "rep_locked"} THEN {txn[w].plan} ELSE {}

\* Mutant: publish archives nothing.
CascadeNothing(p) == {}

\* What publishing p archives: every other live plan of its slot.
Cascade(p) == LiveIn(slot[p]) \ {p}

\* Mutant: windows that share one day only do not collide.
CollidingStrict(p) ==
  {q \in Plans \ {p} : /\ slot[q] # NoSlot
                       /\ slot[q][1] = slot[p][1]
                       /\ slot[q] # slot[p]
                       /\ InForce(q)
                       /\ Cardinality(Window(slot[p], slot[q])) > 1}

\* What publishing p collides with: plans in force of the same scope whose
\* window overlaps and is not the same one.
Colliding(p) ==
  {q \in Plans \ {p} : /\ slot[q] # NoSlot
                       /\ slot[q][1] = slot[p][1]
                       /\ slot[q] # slot[p]
                       /\ InForce(q)
                       /\ Window(slot[p], slot[q]) # {}}

\* Stop rows that another publish has rescheduled and not yet committed.
StopsFree(w, p, hits) ==
  \A v \in Workers \ {w} : txn[v].pc = "pub_written" =>
    \A q \in hits \cap txn[v].hits :
      Window(slot[p], slot[q]) \cap Window(txn[v].slot, slot[q]) = {}

PendingAlert(p, q) ==
  \E a \in Alerts : /\ alert[a] # NoAlert
                    /\ alert[a].new = p /\ alert[a].old = q
                    /\ alert[a].status = "pending"

FreeAlerts == {a \in Alerts : alert[a] = NoAlert}

\* Bounds: a request starts only if the ids it may need are left, counting
\* those of the requests in flight (a publish meets one plan at most when
\* there are two windows).
InFlight(pcs) == {v \in Workers : txn[v].pc \in pcs}

PlanIdLeft ==
  Cardinality({p \in Plans : status[p] = "absent"})
    > Cardinality(InFlight({"gen_checked", "rep_row", "rep_locked"}))

AlertIdLeft ==
  Cardinality(FreeAlerts)
    > Cardinality(InFlight({"pub_read", "pub_locked", "pub_written"}))

End(w, r) ==
  /\ txn' = [txn EXCEPT ![w] = Idle]
  /\ reply' = [reply EXCEPT ![w] = r]

-----------------------------------------------------------------------------
Init ==
  /\ status = [p \in Plans |-> "absent"]
  /\ slot = [p \in Plans |-> NoSlot]
  /\ archivedAt = [p \in Plans |-> FALSE]
  /\ parent = [p \in Plans |-> NoPlan]
  /\ supersededBy = [p \in Plans |-> NoPlan]
  /\ version = [p \in Plans |-> 0]
  /\ root = [p \in Plans |-> NoPlan]
  /\ stop = [p \in Plans |-> [d \in Days |-> "none"]]
  /\ alert = [a \in Alerts |-> NoAlert]
  /\ txn = [w \in Workers |-> Idle]
  /\ reply = [w \in Workers |-> "none"]

\* A new visit_plans row in status draft with one planned stop for each day.
InsertDraft(p, s) ==
  /\ status[p] = "absent"
  /\ slot' = [slot EXCEPT ![p] = s]
  /\ stop' = [stop EXCEPT ![p] =
                [d \in Days |-> IF d \in DaysOf(s) THEN "planned" ELSE "none"]]

-----------------------------------------------------------------------------
(* planGenerator.generate                                                  *)

\* Takes the advisory lock and finds no live plan (otherwise 409: no step).
GenerateLock(w, s) ==
  /\ txn[w] = Idle
  /\ SlotFree(w, s)
  /\ LiveIn(s) = {}
  /\ PlanIdLeft
  /\ txn' = [txn EXCEPT ![w] = [Idle EXCEPT !.pc = "gen_checked", !.slot = s]]
  /\ reply' = [reply EXCEPT ![w] = "none"]
  /\ UNCHANGED <<planVars, lineageVars, stop, alert>>

GenerateInsert(w) ==
  /\ txn[w].pc = "gen_checked"
  /\ LiveIn(txn[w].slot) = {}
  /\ \E p \in Plans :
       /\ InsertDraft(p, txn[w].slot)
       /\ status' = [status EXCEPT ![p] = "draft"]
       /\ version' = [version EXCEPT ![p] = 1]
       /\ root' = [root EXCEPT ![p] = p]
  /\ End(w, "ok")
  /\ UNCHANGED <<archivedAt, parent, supersededBy, alert>>

\* The INSERT meets a live row that was not there when the lock was taken.
GenerateIndexClash(w) ==
  /\ txn[w].pc = "gen_checked"
  /\ LiveIn(txn[w].slot) # {}
  /\ End(w, "index")
  /\ UNCHANGED <<planVars, lineageVars, stop, alert>>

-----------------------------------------------------------------------------
(* visitPlans.publish                                                      *)

\* Reads the row without locking it and tests the status it read.
PublishRead(w, p) ==
  /\ txn[w] = Idle
  /\ status[p] \in {"draft", "published"}
  /\ AlertIdLeft
  /\ txn' = [txn EXCEPT ![w] = [Idle EXCEPT !.pc = "pub_read", !.plan = p,
                                            !.slot = slot[p]]]
  /\ reply' = [reply EXCEPT ![w] = "none"]
  /\ UNCHANGED <<planVars, lineageVars, stop, alert>>

PublishLock(w) ==
  /\ txn[w].pc = "pub_read"
  /\ SlotFree(w, txn[w].slot)
  /\ txn' = [txn EXCEPT ![w].pc = "pub_locked"]
  /\ UNCHANGED <<planVars, lineageVars, stop, alert, reply>>

\* The UPDATEs and INSERTs of publish, not yet visible to other transactions.
PublishWrite(w) ==
  LET p == txn[w].plan
      hits == Colliding(p)
  IN  /\ txn[w].pc = "pub_locked"
      /\ RowsFree(w, Cascade(p) \cup {p})
      /\ \A v \in Workers \ {w} : ForUpdate(v) \cap hits = {}
      /\ StopsFree(w, p, hits)
      /\ \A q \in hits : ~PendingAlert(p, q)
      /\ txn' = [txn EXCEPT ![w] = [@ EXCEPT !.pc = "pub_written",
                                               !.cascade = Cascade(p),
                                               !.hits = hits]]
      /\ UNCHANGED <<planVars, lineageVars, stop, alert, reply>>

\* The alert INSERT breaks idx_pca_unique_pending.  The error is caught, but
\* Postgres has aborted the transaction: the next query of publish fails and
\* everything rolls back.
PublishAlertClash(w) ==
  LET p == txn[w].plan
  IN  /\ txn[w].pc = "pub_locked"
      /\ RowsFree(w, Cascade(p) \cup {p})
      /\ \E q \in Colliding(p) : PendingAlert(p, q)
      /\ End(w, "alert")
      /\ UNCHANGED <<planVars, lineageVars, stop, alert>>

RaiseAlerts(p, hits) ==
  \E id \in [hits -> FreeAlerts] :
    /\ \A q, r \in hits : id[q] = id[r] => q = r
    /\ alert' = [a \in Alerts |->
         IF \E q \in hits : id[q] = a
         THEN [new |-> p, old |-> CHOOSE q \in hits : id[q] = a,
               resolution |-> NoPlan, status |-> "pending"]
         ELSE alert[a]]

\* detectAndRecordConflicts: the colliding plan loses its stops in the window.
Reschedule(p, hits) ==
  stop' = [q \in Plans |-> [d \in Days |->
    IF q \in hits /\ d \in Window(slot[p], slot[q]) /\ stop[q][d] = "planned"
    THEN "rescheduled" ELSE stop[q][d]]]

PublishCommit(w) ==
  LET p == txn[w].plan
  IN  /\ txn[w].pc = "pub_written"
      /\ status' = [q \in Plans |-> IF q = p THEN "published"
                                    ELSE IF q \in txn[w].cascade THEN "archived"
                                    ELSE status[q]]
      /\ archivedAt' = [q \in Plans |-> archivedAt[q] \/ q \in txn[w].cascade]
      /\ Reschedule(p, txn[w].hits)
      /\ RaiseAlerts(p, txn[w].hits)
      /\ End(w, "ok")
      /\ UNCHANGED <<slot, lineageVars>>

-----------------------------------------------------------------------------
(* visitPlans.archive: no transaction, and archived_at is not stamped.     *)

Archive(p) ==
  /\ status[p] # "absent"
  /\ \A v \in Workers : p \notin RowsHeld(v)
  /\ status' = [status EXCEPT ![p] = "archived"]
  /\ UNCHANGED <<slot, archivedAt, lineageVars, stop, alert, txn, reply>>

-----------------------------------------------------------------------------
(* replanWithHistory.generate                                              *)

\* planConflictAlerts.reoptimize starts a replan of the conflicting plan; the
\* alert is read before the transaction and tested again only by its UPDATE.
FromAlert(a, p) ==
  a # NoAlert => /\ alert[a] # NoAlert
                 /\ alert[a].old = p
                 /\ alert[a].status \in {"pending", "acknowledged"}

\* SELECT ... FOR UPDATE of the parent, which must be in force.
ReplanRow(w, p, a) ==
  /\ txn[w] = Idle
  /\ RowsFree(w, {p})
  /\ \A v \in Workers \ {w} : p \notin KeyShare(v)
  /\ InForce(p)
  /\ version[p] < MaxVersion
  /\ PlanIdLeft
  /\ FromAlert(a, p)
  /\ txn' = [txn EXCEPT ![w] = [Idle EXCEPT !.pc = "rep_row", !.plan = p,
                                            !.alert = a]]
  /\ reply' = [reply EXCEPT ![w] = "none"]
  /\ UNCHANGED <<planVars, lineageVars, stop, alert>>

Lineage(p) == {q \in Plans : status[q] # "absent" /\ root[q] = root[p]}

\* nextLineageVersion: one more than the largest version of the lineage.
NextVersion(p, v) ==
  /\ v \in {version[q] + 1 : q \in Lineage(p)}
  /\ \A q \in Lineage(p) : version[q] < v

\* The advisory lock of the PARENT's slot, then the reads of the build.
ReplanLock(w) ==
  LET p == txn[w].plan
  IN  /\ txn[w].pc = "rep_row"
      /\ SlotFree(w, slot[p])
      /\ \E v \in {version[q] + 1 : q \in Lineage(p)} :
           /\ NextVersion(p, v)
           /\ txn' = [txn EXCEPT ![w] = [@ EXCEPT !.pc = "rep_locked",
                                                    !.slot = slot[p],
                                                    !.version = v]]
      /\ UNCHANGED <<planVars, lineageVars, stop, alert, reply>>

\* An INSERT waits for a transaction that has written to the same index entry.
IndexSettled(w, s) ==
  \A v \in Workers \ {w} : ~(txn[v].pc = "pub_written" /\ txn[v].slot = s)

\* Mutant: a status that pca_status_check does not have.
ResolveAlertAsResolved(a, q) ==
  alert' = IF a # NoAlert /\ alert[a].status = "pending"
           THEN [alert EXCEPT ![a] = [@ EXCEPT !.status = "resolved",
                                               !.resolution = q]]
           ELSE alert

\* Mutant: the replan answers every alert about the plan.
ResolveEveryAlert(a, q) ==
  alert' = [b \in Alerts |->
              IF a # NoAlert /\ alert[b] # NoAlert /\ alert[b].old = alert[a].old
              THEN [alert[b] EXCEPT !.status = "reoptimized", !.resolution = q]
              ELSE alert[b]]

ResolveAlert(a, q) ==
  alert' = IF a # NoAlert /\ alert[a].status = "pending"
           THEN [alert EXCEPT ![a] = [@ EXCEPT !.status = "reoptimized",
                                               !.resolution = q]]
           ELSE alert

\* Archives the parent, inserts the child draft, links the two, resolves the
\* alert and commits.  The child's window is resolved anew, and its scope is
\* the reps that have stops: its slot need not be the parent's.
ReplanWrite(w, s) ==
  LET p == txn[w].plan
  IN  /\ txn[w].pc = "rep_locked"
      /\ IndexSettled(w, s)
      /\ LiveIn(s) \ {p} = {}
      /\ \E q \in Plans :
           /\ InsertDraft(q, s)
           /\ status' = [status EXCEPT ![p] = "archived", ![q] = "draft"]
           /\ archivedAt' = [archivedAt EXCEPT ![p] = TRUE]
           /\ parent' = [parent EXCEPT ![q] = p]
           /\ supersededBy' = [supersededBy EXCEPT ![p] = q]
           /\ version' = [version EXCEPT ![q] = txn[w].version]
           /\ root' = [root EXCEPT ![q] = root[p]]
           /\ ResolveAlert(txn[w].alert, q)
      /\ End(w, "ok")

ReplanIndexClash(w, s) ==
  /\ txn[w].pc = "rep_locked"
  /\ IndexSettled(w, s)
  /\ LiveIn(s) \ {txn[w].plan} # {}
  /\ End(w, "index")
  /\ UNCHANGED <<planVars, lineageVars, stop, alert>>

-----------------------------------------------------------------------------
\* Mutant: nobody breaks the cycle.
NoDeadlockVictim(w, v) == FALSE /\ UNCHANGED vars

\* replan locks the row and then the slot, publish the slot and then the row.
\* Postgres finds the cycle and rolls one of the two back.
DeadlockVictim(w, v) ==
  /\ txn[w].pc = "pub_locked" /\ txn[v].pc = "rep_row"
  /\ txn[v].plan \in Cascade(txn[w].plan) \cup {txn[w].plan}
  /\ \E u \in {w, v} : End(u, "deadlock")
  /\ UNCHANGED <<planVars, lineageVars, stop, alert>>

(* planConflictAlerts.acknowledge and dismiss: guarded single UPDATEs.     *)
Acknowledge(a) ==
  /\ alert[a] # NoAlert
  /\ alert[a].status = "pending"
  /\ alert' = [alert EXCEPT ![a].status = "acknowledged"]
  /\ UNCHANGED <<planVars, lineageVars, stop, txn, reply>>

Dismiss(a) ==
  /\ alert[a] # NoAlert
  /\ alert[a].status \in {"pending", "acknowledged"}
  /\ alert' = [alert EXCEPT ![a].status = "dismissed"]
  /\ UNCHANGED <<planVars, lineageVars, stop, txn, reply>>

-----------------------------------------------------------------------------
Step(w) ==
  \/ GenerateInsert(w) \/ GenerateIndexClash(w)
  \/ PublishLock(w) \/ PublishWrite(w) \/ PublishAlertClash(w) \/ PublishCommit(w)
  \/ ReplanLock(w)
  \/ \E s \in Slots : ReplanWrite(w, s) \/ ReplanIndexClash(w, s)

Deadlock == \E w, v \in Workers : DeadlockVictim(w, v)

Request(w) ==
  \/ \E s \in Slots : GenerateLock(w, s)
  \/ \E p \in Plans : PublishRead(w, p)
  \/ \E p \in Plans, a \in Alerts \cup {NoAlert} : ReplanRow(w, p, a)

Next ==
  \/ \E w \in Workers : Request(w) \/ Step(w)
  \/ Deadlock
  \/ \E p \in Plans : Archive(p)
  \/ \E a \in Alerts : Acknowledge(a) \/ Dismiss(a)

Spec == Init /\ [][Next]_vars

\* A transaction in flight runs on, and Postgres queues lock waiters in order:
\* one that can be served again and again is served.
FairSpec == Spec /\ WF_vars(Deadlock) /\ \A w \in Workers : SF_vars(Step(w))

-----------------------------------------------------------------------------
(* Properties.                                                             *)

\* A plan and the one that superseded it point at each other, belong to one
\* lineage, and the version grows along the link (086_visit_plans_lineage).
\* As superseded_by holds one id, no plan is replanned twice.
LineageLinked ==
  \A p, q \in Plans :
    /\ parent[q] = p => supersededBy[p] = q
    /\ supersededBy[p] = q => /\ parent[q] = p
                              /\ root[q] = root[p]
                              /\ version[q] = version[p] + 1

\* A lineage has one plan that nothing superseded, so that "the current
\* version" means something; every other plan of it is out of force for good.
LineageHead ==
  \A p, q \in Plans :
    /\ status[p] # "absent" /\ status[q] # "absent" /\ root[p] = root[q] =>
         \/ p = q
         \/ supersededBy[p] # NoPlan \/ supersededBy[q] # NoPlan
    /\ supersededBy[p] # NoPlan => archivedAt[p]

\* What a waiting replan will write is still right when it writes it: its
\* parent is in force and its version exceeds every one of the lineage.
ReplanStillValid ==
  \A w \in Workers : txn[w].pc \in {"rep_row", "rep_locked"} =>
    /\ InForce(txn[w].plan)
    /\ supersededBy[txn[w].plan] = NoPlan
    /\ txn[w].pc = "rep_locked" =>
         \A q \in Lineage(txn[w].plan) : version[q] < txn[w].version

\* One live plan at most for a scope and period, whatever is generated,
\* published, archived and replanned at once: no UPDATE or INSERT that the
\* code lets through trips idx_visit_plans_scope_period_unique.
LiveUnique ==
  \A p, q \in Plans : Live(p) /\ Live(q) /\ slot[p] = slot[q] => p = q

\* The advisory lock makes the unique index a second line of defence, as the
\* comment in planGenerator.generate says: the only live plan a generate can
\* meet after its check is a replan that moved there from another slot, and a
\* replan that stays in its slot meets none.
OnlyMovedReplansClash ==
  \A w \in Workers :
    /\ txn[w].pc = "gen_checked" =>
         \A q \in LiveIn(txn[w].slot) :
           parent[q] # NoPlan /\ slot[parent[q]] # slot[q]
    /\ txn[w].pc = "rep_locked" => LiveIn(txn[w].slot) = {txn[w].plan}

\* A reoptimized alert names the replan of the plan it was raised about, and
\* one replan answers one alert: two managers cannot both resolve it.
AlertsResolvedOnce ==
  \A a, b \in Alerts :
    alert[a] # NoAlert /\ alert[a].status = "reoptimized" =>
      /\ alert[a].resolution = supersededBy[alert[a].old]
      /\ alert[a].resolution # NoPlan
      /\ alert[b] # NoAlert /\ alert[b].resolution = alert[a].resolution => a = b

\* No lock cycle but the one Postgres breaks is possible, so a request that
\* has started ends, with a result or an error.
RequestsEnd == \A w \in Workers : txn[w].pc # "idle" ~> txn[w].pc = "idle"

\* listAssignmentsForUser and the alerts engine read a scope's stops of a day
\* from every published plan: at most one plan may have any
\* (visitPlans.publish: "1 plan vigente por rep+dia").
OneVigente ==
  \A p, q \in Plans : \A d \in Days :
    /\ InForce(p) /\ InForce(q) /\ slot[p][1] = slot[q][1]
    /\ stop[p][d] = "planned" /\ stop[q][d] = "planned"
    => p = q

\* visitPlans.publish: "a concurrent publish of two drafts must not leave both
\* in 'published'".
OnePublished ==
  \A p, q \in Plans :
    status[p] = "published" /\ status[q] = "published" /\ slot[p] = slot[q]
    => p = q

\* conflictDetector: the index makes a second publish of the same plan safe,
\* "that's fine"; migration 087: it "prevents duplicates if conflictDetector
\* runs twice (e.g. publish retry)".
PublishRetrySucceeds == \A w \in Workers : reply[w] # "alert"

-----------------------------------------------------------------------------
(* The abstract specification of the lifecycle.                            *)

\* The live plan of each slot (there is one at most: LiveUnique).
Holder ==
  [s \in Slots |-> IF LiveIn(s) = {} THEN NoPlan ELSE CHOOSE p \in LiveIn(s) : TRUE]

Lifecycle == INSTANCE PlanSlots WITH holder <- Holder, home <- slot, succ <- supersededBy

\* Through every interleaving of transactions, what a reader of visit_plans
\* sees is a slot that changes hands one plan at a time, and a plan that was
\* superseded once, by one plan, and never comes back: a publish that waited,
\* or a second replan, cannot revive or supersede it again.
SlotsChangeHands == Lifecycle!SlotSpec

=============================================================================
