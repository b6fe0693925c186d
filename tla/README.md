# Verification of the Marzam field-sales platform

This directory holds TLA+ models of the parts of the platform that carry its own
logic: what happens when several managers, reps, workers and processes act on
the same Postgres tables at once, and the algorithms that build a plan. Every
definition is translated from the code under `src/`; `PROJECT.json` ("map")
gives the lines of each.

## 1. The system

The backend is an Express application (`src/src/app.js`, deployed as serverless
functions, so there are many processes and any of them can die) over Postgres
through Knex. Browsers of managers and reps talk to it by REST and one SSE
stream. Everything shared is in Postgres; the isolation level is READ COMMITTED
and the only mutual exclusion is row locks, unique indexes and advisory locks.

| Component | State it keeps | Operations | Module |
|---|---|---|---|
| Visit plan lifecycle (`modules/visit-plans`, `plan-conflict-alerts`) | `visit_plans` (status, scope, period, lineage), stops, `plan_conflict_alerts` | generate, publish, archive, replan, acknowledge / dismiss / reoptimize an alert | `VisitPlans`, `PlanSlots` |
| Plan building (`planGenerator`, `utils/*`) | none | assign stops to reps and days, order them, lay out the day | `PlanAssignment`, `RouteSolver`, `DayTimetable` |
| Routes matrix (`services/routesMatrix`) | daily spend row, cache of arcs | reserve, call, settle; cached lookup, chunks, estimates, purge | `RoutesBudget`, `MatrixCache` |
| Route Optimization (`services/routeOptimization`, `pricing`) | monthly ledger with tiers | call with retries, settle | `OptimizationSpend` |
| Day of a plan (`visitPlans.service`, `intradayReoptimizer`) | the rows of one day: order, rep, status, start | start, deviate, reassign, resequence, reoptimize | `PlanDay` |
| Visits and territory assignments (`modules/visits`, `assignments`, `verifications`) | visits, assignments, stops, verifications | submit; create, status, reassign, add / remove stops | `FieldVisits` |
| Imports (`modules/imports`) | `import_jobs` (status, cursor, heartbeat, totals) | register, worker tick | `ImportWorker` |
| BigQuery sync (`modules/bq-sync`) | checkpoints, destination tables | run all jobs with timeouts and skips | `SyncRuns` |
| Live bus (`modules/live`) | outbox table, an in-memory buffer per process | publish, subscribe with replay | `LiveBus` |
| Review queue (`modules/review`, `visits`, `pharmacies`) | `review_queue_items`, status of the pharmacies | raise a flag, report a candidate, decide on one item or several | `ReviewQueue` |
| Invitations and password resets (`modules/invitations`, `services/mailer`) | `user_invitations`, two flags of the user | issue a link, mail it, use it | `InvitationLinks` |
| Alerts, onboarding, sessions, quotas | one table each with a status column | a few transitions each | none (section 9) |

How they interact: a manager generates a plan, for which plan building reads
matrices (budget, cache) or asks the optimization service (ledger); publishing it
archives its siblings and reschedules what it collides with; on the day the reps'
rows are started, deviated, reassigned and reoptimized while visits are
submitted; the changes are published on the live bus; cron ticks import
spreadsheets and synchronise the source database meanwhile.

Hard behaviours: transactions that read before they lock; two lock orders;
locks keyed by something other than what they protect; unique violations inside
transactions; retries after a lost answer; workers that die, are taken for dead,
or go on after they were given up; two clocks around midnight and the end of a
month; streams that break between a read and a registration; indices shifted by
cuts, chunks and deduplication; deadlines that fall inside an algorithm.
`PROJECT.json` ("hazards") has the list line by line with the properties that
would catch each.

## 2. How the runs are organised

A component that is checked on its own has one module and one `.cfg`. The others
share runs through modules that put components side by side:

* `MCPlanning` (`planning.cfg`): what a plan is built with.
* `MCFieldDay` (`field_day.cfg`): what acts on a working day.
* `MCProgress` (`progress.cfg`): the liveness properties.

In each, a variable `part` chooses one component at the start; the others stay
at an initial state in which nothing is under way. The parts write different
tables, so a behaviour of one is not changed by steps of another, and the run is
the union of the separate state spaces rather than their product. `part`, the
inputs and the symmetry sets are all that these modules add. The components that
theorems are about are extended, under names that do not clash (`AssignSpec`,
`DaySpec`, `BusSpec`), so that the properties a run lists are the very
definitions the theorems state; the others are instances. Each module has one
type invariant; `vp_core` checks that of its component, and those of the parts of
`planning` and `field_day` were checked with them and are proved (section 6), which
says more than their runs did.

| Run | Expect | Properties |
|---|---|---|
| `vp_core` | pass | `TypeOK` `LineageLinked` `LineageHead` `ReplanStillValid` `LiveUnique` `OnlyMovedReplansClash` `AlertsResolvedOnce` `SerialOneVigente` `SlotsChangeHands` |
| `planning` | pass | budget: `OverrunBounded` `SpendAccounted`; ledger: `MonthPriced`; matrix: `AnswersMatch` `OffersAnswers`; assignment: `DayFits` `PlannedOnce` `ShortOnlyIfFull`; solver: `EveryStopOnce` `NoDearerThanNearest` `NoReversalHelps` `SwapsPayOff`; timetable: `LunchKept` `BordersApart` |
| `field_day` | pass | imports: `NothingSkipped` `OneTick` `CountedOnce` `EndedIsFinal`; day: `LocksRespected` `BrokenRepFreed`; visits: `OneVisitADay` `StopsResolvedByVisits` `VisitsVerified`; bus: `DuplicatesBounded` `BufferSeen`; reports: `ReviewsAgree`; links: `LinksHonoured` |
| `progress` | pass | `RequestsEnd` `JobsEnd` `SourceReaches` `DeliveredWhileOpen` |
| `vp_two_vigente` `vp_two_published` `vp_retry` `iw_resume` `lb_replay` `stops_kept` `last_stop` `sync_override` | violation | one property each (section 8) |

Deadlock checking is off except in `lb_replay`: when the bounds are used up, or
everything has ended, nothing is left to do.

## 3. Plans

### VisitPlans

Models `visitPlans.publish` and `archive`, `planGenerator.generate`,
`conflictDetector`, `replanWithHistory.generate` and the answers to an alert.

*State.* `visit_plans` is one function per column the lifecycle depends on
(`status`, `slot` = scope and period, `archivedAt`, `parent`, `supersededBy`,
`version`); `root` is the root that the recursive lineage query computes. `stop`
gives, for each plan and day, the state of the plan's rows of that day. `alert`
is `plan_conflict_alerts`. `txn` is what each worker's open transaction has read
and locked; locks are derived from it (`HoldsSlot`, `RowsHeld`, `KeyShare`).

*Actions.* A transaction is cut where another can come in. Publish:
`PublishRead` (unlocked SELECT and checks), `PublishLock` (advisory lock),
`PublishWrite` (cascade, update, conflicts: written but not visible),
`PublishCommit`, or `PublishAlertClash`, where the swallowed unique violation
has aborted the transaction. Generate: `GenerateLock`, then `GenerateInsert` or
`GenerateIndexClash`. Replan: `ReplanRow` (FOR UPDATE), `ReplanLock` (advisory
lock of the parent's slot and the reads of the build), `ReplanWrite` or
`ReplanIndexClash`. `Archive`, `Acknowledge` and `Dismiss` are single UPDATEs.
`DeadlockVictim` is Postgres rolling one of two transactions back.

*Abstractions.* Requests refused by ownership, 404 or 409 make no step. All
stops of a plan on one day share a state; the single rows are PlanDay's. What a
replan leaves out because it was visited recently is data. Its window and scope
are computed anew, so the slot of the child is any slot. The daily quota of
plans is left out.

*Bounds.* Ids of plans and alerts are finite; `PlanIdLeft` and `AlertIdLeft`
stop requests that might need more, counting those in flight, so no request in
progress is ever stuck for want of an id. `AlertIdLeft` counts one conflict per
publish, which is exact for the two windows of `MCPeriods` and one scope.
`MaxVersion` bounds a lineage. Windows are [1,2] and [2,2]: one shared day and
one that is not, which is what a weekly plan inside a monthly one is. Nearly
all the guards compare two plans of one scope, so one scope is enough. `vp_core`
has 3 plans, 3 alerts, 2 workers and lineages of 3; `serial`, chosen at the
start, restricts half of its behaviours to requests that do not overlap in time,
and there `SerialOneVigente` says that cascade and detector leave one plan with
planned stops on each day.

### PlanSlots

What readers of `visit_plans` rely on, without locks or transactions: who holds
a slot, for which slot a plan was made, who superseded it; steps `Draft`,
`Install`, `Supersede`, `Vacate`. `VisitPlans` implements it under the mapping
`Lifecycle` (holder = the live plan of a slot, home = the slot of a row that
exists, succ = `supersededBy`): `SlotsChangeHands`, checked in `vp_core` and
proved.

### Plan building

*PlanAssignment* is `assignByGreedy` and `balanceByVarianceSwap`: the rungs of
client and prospect classes, day by day, nearest stop first under the caps, the
backfill, the reps without a home (centroid or none), open routes, caution
zones; then single transfers from the longest day to the shortest. Points are on
a line with rounded minutes. The k-means partition is an input, as is the target
per class. Inputs (`AssignmentInputs`): five homes/centroid settings, four
layouts of five stops, three partitions, caution, targets, tight and loose caps,
open routes, balancing: every combination, two reps and two days. A stop takes the
same time (`Service`) wherever it is added up; in the code it may differ by stop. `AssignSizes`
and `AssignRequests` say what any request is: reps and days numbered from 1, a
point for each stop, caps and targets that are natural numbers. `Balance` removes
the moved stop twice when it succeeds (finding 7), exactly as the code does, so
what is proved about it holds in spite of the loss.

*RouteSolver* is `multiStart.solve` with its five seeds, `twoOptImprove`,
`orOptImprove` and `threeOptImprove` row by row, and `softWindowSwap`. The
deadline may pass between any two rows. The tier is an input, so that four stops
reach every kernel that in the code needs more. Seven matrices, with and without
missing arcs, none symmetric; four settings of windows. `SolverRequests` and
`SolverSizes` say what any request is: a stop at least, minutes on every arc
(`Inf` where one is missing), a rank and a pair of times for each stop, limits of
passes that allow one.

*DayTimetable* is `sequenceAndMaterialize` for a rep and a day: which sequence
and which matrix it uses, the lunch break placed on a simulated walk and taken
on the real one, border legs, and the case in which the code throws
(a homeless rep's virtual depot with a fetched matrix: phase "crashed"). An arc without a figure of the matrix is any answer: the route that is asked
for at the spot and the estimate, with or without the factor of a caution zone, are
folded into it. Up to
three stops, with and without matrix (full, with gaps, none), home, break, open
route, persistence, optimizer order. `DayRequests` and `TravelTimes` say what a
day to sequence is: minutes on every arc that is not missing, and answers that
are minutes.

### Google services

*RoutesBudget* is `assertWithinBudget` and `recordSpend` around a call. `spend`
and `rejected` are the columns of `routes_api_spend`; `day` is the clock, and
each call remembers its two readings: `key`, the lock key computed by the
process, and `row`, the CURRENT_DATE fixed at BEGIN. `granted` and `late` are
history variables. Actions: `ReserveKey`, `ReserveBegin`, `ReserveRead` (lock,
then SELECT), `Reserve` or `Refuse` and `CountRejection`; `Answer`; `SettleKey`,
`SettleBegin`, `Settle`; `Fail` at any point; `Midnight`. A transaction begins
within a day of its key: the pool gives up long before. UTC is assumed as the
session time zone. Three calls are the smallest number that reaches the worst
case (two readers of a row under different keys and a third let through before).

*MatrixCache* is `computeMatrixCached`, `computeMatrix`, `persistPolyline` and
the purge: one lookup for all pairs, deduplication by geohash cell, chunks of
destinations, any part of a chunk missing from the answer, estimates when a call
fails, a budget refusal that throws out of the whole request, the write-back that
may fail, the projection back to pairs. A figure is the two points, the day it
was measured and what its seconds are: a drive, an estimate, or the 0 that
`computeMatrix` takes for an element that comes back without a duration. Such an
element is flagged and cached like a drive, and so it is in the model: `NoRoute` are
the pairs of cells it may happen to. `OffersAnswers` therefore says that estimates
stay apart from what Google answered, in the rows and by the flags, and that a row
is offered no longer than it may live; it does not say that every row is a drive
(section 8). Points `a` and `c` share a cell, and from `A` to `B` there may be no
route. Two requests over two days and chunks of two elements make rows lapse and
requests overlap. `computeMatrix`
would split without end with more origins than `MaxElements`; no caller passes
that many and the model assumes it. `MatrixQueries` says that a query is two
lists of points.

*OptimizationSpend* is `optimizeTours`, its retries and `recordOptimizationSpend`
with `piecewiseCost`. A row stands for its month. The row is dated at BEGIN, the
month that is summed is read under the lock; `straddled` marks months in which
the two differ. Prices are integers in a table of three bands per SKU, crossed by
calls of two or three shipments; `Unrecorded` is a settlement that fails or dies
with its process (it is not awaited).

## 4. The day

### PlanDay

The rows of `visit_plan_assignments` of one plan and day. `row` holds visitor,
`route_order`, status and whether the stop was started; `inForce` says whether
the plan is still published; `req` is what each request has read, holds and is
about to write. `start` and `deviate` are a read and an UPDATE by id;
`reassign` reads outside its transaction, moves the row, resequences the day of
both reps row by row under row locks and commits; `resequenceUser` asks (`ResequenceAsk`)
and then resequences the day of one rep in the same way; the three triggers of
`intradayReoptimizer` (breakdown, urgent, manual) lock the plan and then each row
of the day, place what is released and write. `Archive` and `Reschedule` are the
publish or replan of another plan reaching this day; `DeadlockVictim` breaks
cycles of row locks. `writes` and `todo` are total functions on the rows: what a
transaction would leave in each, and the order it still has to give it.
`Placements` is any way to give what is released to the reps who may take it (the
code's order comes from the solver). A stop goes to a rep whose headroom is within
`Near` units of the largest: the score of the code weighs headroom by 0.6 and adds up
to 8 for nearness, which makes up for 13 minutes, less than a unit of 20. Two requests of any kind, three rows, two reps, an urgent
stop, one stop without coordinates, room for every placement, one soft-locked
stop per rep. Minutes are units; the order the solver finds is any.

### FieldVisits

`assignments.service` (create, updateStatus, reassign, addStops, removeStop),
`visits.service.submit` and the verifications both write, on one day. Each
request is a read step (the checks) and write steps; submit is cut into insert,
count and commit, and its inserts wait for unique indexes (`EntryFree`) and its
updates for row locks as Postgres makes them. Two requests, two assignments, two
pharmacies, two visitors, one idempotency key. Leads and the external-data mode
of the services are left out, and the review items are ReviewQueue's.

### ReviewQueue

What reps report about pharmacies and what reviewers make of it. `item` is
`review_queue_items`, `place` the status and verification of the pharmacies,
`review` the requests. `RaiseFlag` is the part of `visits.submit` that enqueues an
outcome, `CreateCandidate` the insert of a new pharmacy and its item. `Resolve` reads
the items without a lock and tests them (`Resolvable`; `resolve` is `batchResolve`
of one item); `LockItem` waits for one row after the other, `ApplySideEffects` for
the pharmacies, `CommitReview` makes all visible and `RollBackReview` nothing. Two
requests can each hold a row the other one waits for; the rollback of one is then
Postgres' deadlock detector.

`ReviewsAgree` relates the two tables: a pharmacy is verified as soon as an item of
it is approved, with the status that an approved item asks for, and is untouched
until then. `met` is history: the items that two open requests have read as pending.
Such an item may be left "rejected" by the second one, while the pharmacy has what
the first one approved: the code orders nothing there, and the property says no more
than it gives. Nothing is wrong outside of that, although requests on several items
refuse, wait, overlap in part and roll back. Three items, two pharmacies of which one
is known, two requests: one item that both want, and one for each alone.

### InvitationLinks

`createInvitation`, `requestPasswordReset`, `completeActivation` and
`completePasswordReset`. `links` are the rows of `user_invitations` in the order of
their insertion, so that a token is a position; `account` has the two flags of a
user that a link changes. Issuing is `ReadUser`, `Supersede`, `InsertLink`,
`MailLink`, and for invitations `RecordDelivery`: five statements, no transaction,
and `DieIssuing` between any two. Using is `FindLink` (404 and 410), then hashing, then
`SetPassword`, which marks the link without a second look; `Expire` at any point.

`LinksHonoured` is "one-shot policy" as far as the code carries it. `raced` and
`shared` are history. Calls that issue links of one user and purpose and overlap in
time may leave two open, and `RecordDelivery` then overwrites "superseded"; the next
call on its own closes both. Calls that use one link and overlap both set their
password. Nobody else changes accounts in the model, hence "the account has been
changed" to the end of time. Two calls of each kind, one user, both purposes, two
links.

### ImportWorker

Models `registerJob` and `runWorkerTick` with the batch processors. `job` is
`import_jobs`: status, `cursor`, `good` and `bad` rows; `fresh` says whether
`last_heartbeat_at` is younger than the TTL. `tick` is what each running tick
holds in memory, `stored` the target table. `kind` says what happens to the rows
of each chunk: stored, partly invalid, all invalid, all skipped, failing in
silence (a caught error has aborted the transaction and COMMIT rolls it back), or
throwing. `garbled` are the jobs whose file the parser throws on. Actions:
`RegisterJob`; `Claim` (SELECT FOR UPDATE SKIP LOCKED and its UPDATE);
`Download`, `DownloadFails`, `ParseThrows`; `ChunkBegin` and `ChunkCommit`,
`ChunkRollsBack` or `ChunkThrows`, so that two ticks can both find a row missing;
`Beat`; `EndTick`, the only step that writes cursor and totals;
`HeartbeatExpires`; `Crash`.

`punctual` says that no live tick is silent for the TTL. With the defaults, a TTL
of five minutes and a `maxDuration` of 300 s in `vercel.json`, that is so; a
shorter TTL or a hosting that does not kill does not give it. `Hostings` are the
cases an instance covers: `field_day` has both, with a file of three chunks (a
first, a middle, a last) of all six kinds, two ticks and a crash. Jobs affect
each other only through the order of claims, which `progress` has two jobs for.

### SyncRuns

`runAll`: jobs in order, the skip of those whose checkpoint is fresh, the
timeout that gives up waiting without stopping the job, checkpoints, and the
function cut off by the platform. One record of the source stands for all, and what
it comes to in the destination is a set of columns: `dest` holds, for each, the
version it was set from and the job that set it last. `Inserts` says which job
inserts the row of a column, `Writers` which jobs set it from the source, over
whatever another job has left there (`Brought`): `prospect_scored` inserts a pharmacy,
`cuadro_basico` an employee whose name `hierarchy` overwrites too,
`clients_ecatepec` a column of the rows of `detalle_mostrador`. `Carried` are the
columns that a job fills from rows of its own once these are written
(`CarriedOver`): `detalle_mostrador` overrides the pareto class of a pharmacy by
that of the Marzam client. A job without the row it updates warns and goes on.

A job that returns `failed`, or whose row failed, is recorded as "ok". A late job
(`LateGoesOn`) may write an old version after a newer one, or a default over the value
that should override it. Which job sets a column last may differ from run to run,
because each job is passed over by a checkpoint of its own; `SourceReaches` claims
no more of such a column than that the value with the last word comes back, and
finding 4 is what the code's comment says beyond that. `Hour` passes between runs: a
run lasts 300 s at most. That `hierarchy` inserts the row of a supervisor who is in
no other table is left out.

### LiveBus

The outbox with its trigger, `pg_notify`, local emit, the buffer of recent events
and the SSE endpoint. `subscribe` is cut at its awaits: `Listen`, the scope,
`ReplayQuery`, `RegisterReplayed` or `RegisterBuffered`. Faults: a connection or
process that dies, a LISTEN that is lost or fails, a query that fails, a
notification whose row cannot be read. Both clients: with `Last-Event-ID`
(live-ops) and without (my-route). Two processes, one browser, two events, one
fault, a buffer of one.

## 5. Liveness and fairness

`progress` checks four leads-to properties, each under the fairness of its part:

* `RequestsEnd` (2 plans, 2 alerts, 2 requests): weak fairness of Postgres'
  deadlock detector and strong fairness of each transaction's steps, because a
  lock waiter is queued in order, so one that can be served again and again is
  served. Nothing is assumed of users. Without the detector replan and publish
  block each other for ever.
* `JobsEnd` (2 jobs of 2 chunks, either perhaps unreadable, 2 ticks, 2 crashes):
  heartbeats age and live ticks run on (weak); the cron keeps claiming, and a job
  that is claimable again and again is claimed (strong): two minutes between
  ticks is less than the TTL, so an unreadable file, which is claimed again each
  time its heartbeat expires, leaves ticks to younger jobs. That holds for up to
  two unreadable files at a time; three would take every tick. A tick reaches its
  first chunk before the soft timeout again and again (strong).
* `SourceReaches` (2 jobs over 3 columns, one of which both set and one of which the
  second carries over, a TTL of 2 hours, 2 versions, a fault): the cron of every six hours
  fires, a run goes on, a late job ends (weak), and hours pass (strong, because
  `Hour` is enabled between runs only: a run is over in minutes, so it is enabled
  again and again). It says <>[] of the versions: from some time on every column is
  set from the last version, and no late job undoes it; and []<> of who sets them:
  the value of the job with the last word comes back each time. Faults are finite: a
  first job that exceeded its time at every run would take the 300 s of the function
  from those behind it.
* `DeliveredWhileOpen` (2 processes, 1 event, 2 faults): a publisher that has
  inserted emits, and a notification that was sent is delivered or dropped with
  its connection (weak). Browsers need not reconnect.

## 6. What is proved

`tlapm` checks these for all values of the constants. Each module of proofs
extends the module of the component, so a theorem is about the definitions the
runs check; every inductive invariant was checked with TLC on the instance of
its run before it was proved.

Assumptions, all named in the modules that declare the constants: null values
lie outside their sets; windows lie within the calendar; costs are positive and
bounded, prices start at 0 and do not fall with the volume; the sets of calls,
assignments, pharmacies, rows, reps and days are finite (`FiniteCalls`,
`FiniteAssumption`, `DayIds`, `AssignSizes`); a request for a plan is well formed
(`AssignRequests`), and so are a day to sequence (`DayRequests`, `TravelTimes`)
and a query to the matrix (`MatrixQueries`, `MatrixSizes`); the ids browsers hold are timestamps, above all ids of the
outbox (`BusClock`); a route has a stop and its matrix a cost for every arc
(`SolverSizes`, `SolverRequests`); known pharmacies are pharmacies, and the
outcomes that raise an item are those of the code (`KnownAssumption`,
`FlagAssumption`).

*VisitPlansProofs.*

* `TypeCorrect`. `TypeOK` alone is not inductive: a step that indexes a table by
  an id it read earlier needs to know the row still exists, so `TypeInv` adds
  `TxnBound` (what an open transaction knows refers to existing rows) and
  `RowsBound` (an unused id is referenced nowhere). `LockInv` says that two
  transactions hold neither the same slot nor the same row.
* `LineageIsLinked`, `LineageHasOneHead`, `ReplanReadsStayValid`. A replan holds
  its parent's row from the moment it tests that it is in force, the parent is
  the head of its lineage, and every other member is archived, so nobody can
  extend the lineage meanwhile.
* `AlertsAnsweredOnce`. `AlertInv` has three parts: a reoptimized alert names the
  plan that superseded its own, any other names none (`Answered`); one plan
  answers one alert (`AnswerUnique`); a replan in flight for an alert is about the
  alert's plan (`FromOwnAlert`). The lock on the parent's row makes them hold: two
  answers to alerts of one plan wait for its row, and the second finds it
  superseded.
* `OneLivePlanPerSlot`, `AdvisoryLockSuffices`. A generate that has found its slot
  empty and a publish that has archived its siblings hold the slot's lock; the
  only writer that enters a slot without its lock is a replan whose window moved,
  and that one is tested by the unique index.
* `LifecycleImplemented`: `Spec => SlotsChangeHands`, the refinement to `PlanSlots`.
  Besides the invariants above it needs `MapInv`: a publish that has written
  archives only plans of its own slot other than its own plan
  (`CascadeOwnSlot`), and a row that does not exist yet is not archived
  (`AbsentOpen`); that the publish archives all that is live in the slot comes
  from the slot invariant. Each step changes the holder of one slot at most
  (`OneSlotChanges`), of two when a replan moves.
* `SerialRequestsAgree`, about the runs in which requests do not overlap: there
  what a publish has found to collide is all that collides (`HitsComplete`), so
  that its commit leaves one plan with stops on each day. It is the counterpart of
  finding 1: the property is lost through overlap alone.

*SpendProofs* (budget, ledger, matrix).

* `TypeCorrect`, `BudgetBounds`. The invariant adds up what was let through and
  what the readers in flight are about to add (`RoomLeft`). A row has at most two
  readers, because its lock key is that of the day or of the day before
  (`KeyNearRow`) and readers with one key exclude each other (`LockExclusive`);
  the second of them has seen all but the first one's cost, hence the budget plus
  one call. Without a straggler there is one reader, and the budget itself holds
  (`CleanDay`).
* `NoSpendLost`. `SpendAccounted` equates each row with a sum over the calls.
  `Booked` adds to the invariant that a call before its reservation, or its
  settlement, is counted in no day's sum (`Unbooked`); a booking then changes one
  sum by one term (`FiniteInduction`).
* `LedgerTyped`, `MonthsArePriced`. `LedgerInv` adds that one settlement at most
  has read and not written (`OneReader`), and that what it has read is the volume
  of its month still (`ReadCurrent`); the cost it adds is the difference of two
  prices (`Increment`), and the sum telescopes. A month in which a settlement
  begun in it is priced after its end is excluded (`straddled`): there the
  property is false.
* `MatrixTyped`, `MatrixInPlace`, `EstimatesApart`. `CacheInv` says what each
  request holds at each of its steps (`Sound`): its lists of deduplicated cells
  hold cells of its own points (`DistinctType`, `EndsType`: folds), so each has a
  point that stands for it (`FirstInCell`); a result is about the cells at its two
  places (`Placed`), because the index within a chunk is moved by what the chunks
  before it have taken (`ChunkPlaces`), and flagged as what it is (`Marked`).
  `RowsSound` says that a row is an answer about its cells, a drive or the 0 of a pair
  without a route; it may be written a day after it was measured, by a request that
  ran over midnight, hence the one in `at + Ttl + 1`, which the strict test of `InDate`
  makes up for.

*ImportWorkerProofs.*

* `TypeCorrect`, `JobsHaveOneTick`, `EndedJobsStay`, `NothingIsSkipped`. `OneTick`
  is not inductive without the heartbeat: `Alone` adds that the heartbeat of a
  job with a tick is fresh, so that nobody can claim it. `NothingSkipped` needs
  the same of what each tick has counted in memory (`TicksAccounted`), because
  `EndTick` writes that over the row whatever it holds; it does not need `Alone`,
  so it holds on every hosting. `StepFrame` says once what a step may do to
  cursors and totals.
* `TotalsAreRight`: by `Alone` no chunk is counted as rolled back because of
  another tick, so each one is counted for its kind (`CountCounted`), and a
  longer prefix has one more member (`PrefixGrows`).

*FieldProofs.* For visits: `FieldRowsTyped`, `VisitsAreOnce`, `StopsAgreeWithVisits`,
`EveryVisitVerified`, from one invariant: `FieldTyping` (with `CompletesOwn`: the
assignment a submission completes is that of its stop), `EntriesApart` (the
entries of the two unique indexes, of committed visits and of open transactions,
are distinct: they wait for each other), and the two properties about stops and
verifications themselves, which every step of every request keeps.

For reports: `ReviewTyped`, `DecisionsAgree`. `ReviewsAgree` speaks of what is
committed; `ReviewInv` adds what open requests are about to write. An item a request
works on is pending or the two requests that worked on it are in `met`
(`WorkedItems`, `WorkersMeet`); what it will write in a pharmacy comes from an item of
that pharmacy that it has applied, and for each item it has applied there is
something it will write (`WrittenByItems`), so that the commit of a batch
that touches a pharmacy twice leaves the status of one of its items.

For links: `LinksTyped`, `LinksAreOneShot`, for any number of links. `LinksHonoured`
alone is not inductive, since a call inserts its link long after it has closed the
others: `LinksInv` adds that a link which came in between belongs to a call that
overlapped (`OverlapsKnown`), that a call records the delivery of its own link
(`OwnLinks`), and that a password is about to be set with a link that was not used
yet and that no other call holds, or else the link is `shared` (`UsesInOrder`).

*LiveBusProofs.* `BusTyped`, `DuplicatesStayBounded`, `NothingBetweenBufferAndHandler`.
The bound on duplicates is a balance: what a process has buffered of an event,
what is still on its way to it as notifications, and what its listener has been
sent account for its LISTENs and its own emit (`BufferAccounted`), and a stream
has got at most what its process has buffered since (`StreamAccounted`). The
other parts say why no other source adds to it: an id that was not given out yet
is in nobody's hands (`FutureUnknown`), a replay after a timestamp id is empty
(`ReplayEmpty`, where `BusClock` is used), a durable event has its outbox row
(`DurableNeedsOutbox`).

*PlanDayProofs.* `DayTyped`, and the two action properties `ReoptRespectsLocks`
and `BrokenRepIsFreed`. A reoptimization writes what it computed from the rows it
loaded; `Loaded` says that once it has every row of the day locked the rows are
still those, and its plan is still in force. `OnRows` keeps what a
transaction writes within what it has locked, `UrgentOnce` keeps the urgent stop
out of the day until its request inserts it.

*PlanBuildingProofs.* `AssignmentTyped`, `NoDayTooLong`, `StopsPlannedOnce`,
`ShortfallsAreReal`, about every input of any size, from `BuildInv`: the cells run
over days, reps and rungs (`RequestTyped`, `Greedy`), the minutes a day is charged
cover its estimate (`UsedCovers`), a stop that was refused is still refused later
because days only grow (`RefusedStay`: inserting never shortens, by the triangle
inequality of the rounded minutes, `MinutesTriangle`), a class reported short has
only refused stops left (`ShortRefused`), and the stop that a balance step moves is
nowhere else (`MovesApart`). The double splice of `Balance` only shortens the long
day, so caps and uniqueness survive it; that no stop is lost does not
(`stops_kept`).

For `DayTimetable`: `TimetableTyped`, `LunchIsKept`, `BorderLegsApart`, from
`TableInv`. `OnSchedule` compares the walk with the simulation the break was
planned on: stop by stop they differ by the break alone as long as every leg is
one of the matrix, and the simulated arrival at a stop is the one before plus a
leg (`SimArrivals`, from `SumWith`), so the first stop that is reached too late
without a break is the one it was planned for. `BreakSet`, `BreakTaken` and
`BreakPlanned` follow the break from its plan to its row; `BorderLegs` says which
legs are in the one sum of drive minutes and not in the other at each stop.

For `RouteSolver`: `SolverTyped`, `RoutesKeepStops`, `RoutesNoDearer`,
`RouteSwapsPayOff`, `NoReversalLeft`, about any number of stops, any matrix and any moment of the
deadline, from `SolverInv`. That a move keeps every stop (`ReversedTour`,
`MovedTour`, `ReconnectedTours`) is an argument about pieces: a route is cut into
runs of consecutive places (`Cut`, `CutRoute`), and runs that are turned or joined
in another order hold the same stops (`TurnRun`, `JoinRuns`). `RowsFit` and
`MovesFit` say that no row and no move of a kernel points outside the route, so that
every candidate is a tour (`CandidatesFit`). A row is a fold over its moves in
which the route never gets dearer (`RowImproves`). The starting routes
are tours because the chain of nearest stops ends with each stop once
(`ChainExists`, `ChainIs`, by induction on the stops left). `CostsKept` follows the
comparison with nearest neighbour through the seeds: the first seed starts from it,
what replaces a best route is cheaper, and if the first seed gave nothing, nearest
neighbour has an arc missing and nothing is dearer. `SwapsKept` compares with the
order that came in, not with the swap before, which is why 5% does not compound.
`NoReversalLeft` follows 2-opt through a pass: if no row has improved the route so
far, no reversal that begins at one of those rows is cheaper (`RowsTried`, with
`RowTries`: a fold that returns the route it began with has refused each of its
moves); a pass without an improvement has tried all rows. A pass that still
improves may be the last one allowed; then nothing follows, and the history
`gaveUp` says so. A route of fewer than three stops is not touched by 2-opt, which is
why the property asks for three.

*FiniteInduction* is what the others needed and the library's operators could not
give: induction over a finite set stated with a set of sets instead of an
operator (`SetInduction`), hence greatest and least elements, and what
`SumFunctionOnSet` does when one value changes or an element is added (`SumWith`,
`SumOfSame`, `SumIsNat`); and that a fold over the places of a sequence exists and
stays in any set its steps do not leave (`FoldInside`, `FoldRuns`), with the step
given as a function of place and value.

*Only model-checked.*

* The liveness properties `RequestsEnd`, `JobsEnd`, `SourceReaches` and
  `DeliveredWhileOpen`: ENABLED and fairness are beyond the prover. Nothing
  is proved about `SyncRuns`, of which the runs claim nothing else that holds. Every other
  property of a passing run is a theorem.
* That a recursive function computes what it should for every input would need
  induction over data; the theorems use what the definitions unfold to.

## 7. What the runs show, and with which bounds

Each property of a passing run fails when one plausible slip is made in the code
it is about: `PROJECT.json` ("mutants") has one for each, and the mutated
definitions stand beside the originals with the comment "Mutant". Bounds were
chosen by that: two actors for races of two, a third where a property bounds how
many may slip through, and inputs that reach every branch. All actions of all
modules fire.

What holds is often narrower than what one would hope for, and says so:

* `OverrunBounded`: a day lets through its budget plus one call, because of
  midnight.
* `OneVigente` holds only of requests that do not overlap in time.
* `OneTick`, `CountedOnce` hold on a hosting that kills a tick in time.
* `DuplicatesBounded`: a stream gets an event once per LISTEN of its process,
  and once more of its own process.
* `MonthPriced` excludes straddled months.
* `OffersAnswers` counts the 0 of a pair without a route as an answer.
* `SourceReaches`: a column that two jobs set has the right value again and again, not
  for ever.
* `NoReversalHelps` is about tiers that end with 2-opt, three stops at least, and
  solvers that had their time and whose 2-opt was not cut short by its passes.
* `ReviewsAgree` excuses the decision on an item that two requests had read as
  pending; `LinksHonoured` excuses links whose calls overlapped.
* `LunchAsPlanned` (in `LunchKept`) is about previews with a full matrix: with
  routes or estimates in it the walk and the simulation differ.

## 8. Findings

1. Two overlapping publishes leave two plans in force on one day (`vp_two_vigente`).
2. A publish that waited for the lock republishes a plan archived meanwhile (`vp_two_published`).
3. Publishing again while an alert is pending fails with a 500 (`vp_retry`).
4. A prospect job that is late puts its default over the pareto class that `detalle_mostrador` has set, and as that job is fresh the default stands until its checkpoint lapses (`sync_override`).
5. An import that breaks off at its soft timeout is not resumed by the next tick, but by the first one after its heartbeat has expired (`iw_resume`).
6. A browser that reconnects with the id of the last event it got is not sent what it missed: the id is a timestamp, the outbox ids are small (`lb_replay`).
7. With `PLAN_ENABLE_BALANCE` the balance step loses stops: two names of one array are spliced (`stops_kept`).
8. The last two stops of an assignment, submitted at once, leave it open (`last_stop`).

`PROJECT.json` ("findings") quotes the comment or test each one contradicts.

Seen while modelling, and not runs of their own:

* Visits: no code sets `visit_plan_assignments.status` to done or in_progress
  (only a backfill of migration 060); a started stop can still be rescheduled by
  a publish, although `conflictDetector` says started stops are not touched. A
  retry of a submission meets the once-a-day test, and its 409, before the
  idempotency lookup. `removeStop` with an old read deletes a completed stop.
  `visit-client.js` posts visits without the photo that submit requires. A
  reassignment leaves its verifications with the old rep.
* Day: an urgent row stays at `route_order` 9999 when its rep has nothing
  released; rows that were skipped, deviated or rescheduled count as released.
* Plan building: a homeless rep's virtual depot makes line 1146 of
  `planGenerator` read the `lat` of null when a matrix is fetched.
* Routes matrix: a polyline refetch that fails replaces a cached duration by an
  estimate in the answer; a refusal in a later chunk discards chunks already
  paid for. A pair that comes back without a route is answered, and kept for a week,
  as 0 s "fresh", although lines 13-16 promise an estimate for ROUTE_NOT_FOUND
  (`FetchChunk`, `OffersAnswers`).
* Routes budget: each successful call is charged twice. Line 222 says that the
  settlement does not add the full cost again, but neither caller passes
  `estimatedReservedUsd`, so it does (line 391; `Settle`).
* Optimization: a 200 whose body cannot be read is retried, which is billed
  again; settlements are not awaited.
* Synchronisation: a job that returns `failed` is recorded as a success; the TTL
  equals the period of the cron, so that a job may run at every second tick only;
  a job may be passed over as fresh just after the one it depends on has brought
  rows.

## 9. Not modelled, and why

* *Alerts*: what they raise and when is in SQL aggregates that a model would
  restate. (Rule 6 reads `pharmacy_onboarding`, a table no code writes.)
* *Onboarding, visit sessions, quotas*: each reads a row, tests it and writes it by
  id, without lock, transaction or retry. The races this leaves open (two active
  sessions, a submission over a decision, a quota exceeded by concurrent
  requests) are visible in single functions; there is no protocol between steps
  whose outcome a model could establish.
* *Tracking, presence, rate limit*: append-only rows and atomic upserts.
* *Offline queue of the browser*: no page loads it; only the unused `rep.js` does.
* Of modelled components: candidate loading and targets (SQL), the k-means
  partition and `planEngine.resolveWindow` in plan building; `computeRoute`,
  which uses the same budget guard for one route; `distributeWave`,
  `reorderStops`, check-in and photos of assignments; leads of visits; a manager's
  direct change of a pharmacy; lists, texts and the bulk loop of invitations; who may see an event on the live bus; row translation, sales and their view,
  and the purge of the synchronisation.
* *Reporting, analytics, territories, permissions*: CRUD and read-only SQL. *The
  web interface*: rendering. *Migrations, seeds, scripts*: data loading; their
  constraints appear in the modules of the tables they constrain.

## 10. What could come next

Two overlapping windows of three plans in `vp_core` with two scopes;
`planEngine.resolveWindow` against a reference definition over bounded dates.
