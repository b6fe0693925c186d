----------------------------- MODULE MCProgress -----------------------------
(***************************************************************************)
(* What must happen, under the fairness of each component: the requests on *)
(* visit plans, the import worker, the runs that synchronise the source    *)
(* database and the live bus. They share no state: a behaviour is one of a *)
(* single component, chosen at the start, and the others stay at an        *)
(* initial state in which nothing is under way.                            *)
(***************************************************************************)
EXTENDS LiveBus

CONSTANTS
  Plans, NoPlan, Alerts, NoAlert, Scopes, NoSlot, Requests, MaxVersion,
  Jobs, Chunks, Kinds, Ticks, NoJob, Hostings, MaxCrashes,
  Runs, LastJob, Ttl, MaxSource, MaxFailures, Never

VARIABLES
  part,
  status, slot, archivedAt, parent, supersededBy, version, root, stop, alert, txn, reply,
  punctual, kind, garbled, job, stored, tick, crashes,
  source, dest, age, run, late, failures

MCDays == 1..2

MCPeriods == {[from |-> 1, to |-> 2], [from |-> 2, to |-> 2]}

V == INSTANCE VisitPlans WITH Workers <- Requests, Periods <- MCPeriods, Days <- MCDays

\* The first job inserts a row; the second overwrites one of its columns, and
\* another with what it carries over from a row of its own.
MCColumns == {"name", "pareto", "client"}

MCInserts == [c \in MCColumns |-> IF c = "client" THEN 2 ELSE 1]

MCWriters == [name |-> {1, 2}, pareto |-> {1}, client |-> {2}]

MCCarried == [pareto |-> "client"]

I == INSTANCE ImportWorker WITH Workers <- Ticks

S == INSTANCE SyncRuns WITH Columns <- MCColumns, Inserts <- MCInserts, Writers <- MCWriters,
                           Carried <- MCCarried, MaxFaults <- MaxFailures, faults <- failures

planVars == <<status, slot, archivedAt, parent, supersededBy, version, root, stop, alert, txn, reply>>

importVars == <<punctual, kind, garbled, job, stored, tick, crashes>>

syncVars == <<source, dest, age, run, late, failures>>

MCInit ==
  /\ part \in {"plans", "imports", "sync", "bus"}
  /\ V!Init
  /\ I!Init /\ (part # "imports" => punctual /\ garbled = {} /\ \A j \in Jobs, c \in 1..Chunks : kind[j][c] = "mixed")
  /\ S!Init
  /\ BusInit /\ (part # "bus" => hasOutbox)

MCNext ==
  \/ part = "plans"   /\ V!Next /\ UNCHANGED <<part, importVars, syncVars, liveVars>>
  \/ part = "imports" /\ I!Next /\ UNCHANGED <<part, planVars, syncVars, liveVars>>
  \/ part = "sync"    /\ S!Next /\ UNCHANGED <<part, planVars, importVars, liveVars>>
  \/ part = "bus"     /\ BusNext /\ UNCHANGED <<part, planVars, importVars, syncVars>>

MCSpec ==
  /\ MCInit /\ [][MCNext]_<<part, planVars, importVars, syncVars, liveVars>>
  /\ WF_planVars(V!Deadlock) /\ \A w \in Requests : SF_planVars(V!Step(w))
  /\ \A j \in Jobs :
       WF_importVars(I!HeartbeatExpires(j)) /\ SF_importVars(\E w \in Ticks : I!Claim(w, j))
  /\ \A w \in Ticks :
       /\ WF_importVars(I!Download(w) \/ I!DownloadFails(w) \/ I!ParseThrows(w))
       /\ SF_importVars(I!ChunkBegin(w))
       /\ WF_importVars(I!Process(w))
  /\ SF_syncVars(part = "sync" /\ S!Hour)
  /\ WF_syncVars(part = "sync" /\ \E r \in Runs : S!Start(r))
  /\ \A r \in Runs :
       WF_syncVars(part = "sync" /\ S!InTime(r)) /\ WF_syncVars(part = "sync" /\ S!LateEnds(r))
  /\ Fairness

\* Every request on a plan is answered.
RequestsEnd == V!RequestsEnd

\* Every readable spreadsheet is imported to its end.
JobsEnd == I!JobsEnd

\* Every column comes to be set from what the source holds, and the overriding
\* value comes back.
SourceReaches == part = "sync" => S!SourceReaches
=============================================================================
