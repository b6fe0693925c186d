------------------------------ MODULE SyncRuns ------------------------------
(***************************************************************************)
(* The synchronisation with the source database (modules/bq-sync): a run   *)
(* of the worker takes the jobs in their order, passes over those that     *)
(* succeeded less than a Ttl ago, and goes on after a job that throws or   *)
(* exceeds its time.  A job that exceeded it is not stopped: it still      *)
(* writes what it has read while later jobs, or later runs, are at work.   *)
(* The function may be cut off between any two steps.                      *)
(*                                                                         *)
(* What one record of the source (a pharmacy, an employee) comes to in the *)
(* destination is a set of columns, each with the job that set it last and *)
(* the version of the record it was set from.  A column belongs to the row *)
(* that one job inserts; other jobs fill it or overwrite it if the row is  *)
(* there, and without the row it is a warning, not an error.  Some columns *)
(* are carried over from a job's own rows once these are written (the      *)
(* pareto class of a pharmacy, from the row of the Marzam client).  The    *)
(* tables of the destination and of the checkpoints exist; the worker      *)
(* never forces a run.                                                     *)
(***************************************************************************)
EXTENDS Integers, FiniteSetsExt

CONSTANTS
  Runs,       \* calls of the worker that may be under way at once
  LastJob,    \* the jobs are 1..LastJob, in the order of JOB_RUNNERS
  Columns,    \* columns of the record's rows
  Inserts,    \* the job that inserts the row of each column
  Writers,    \* the jobs that set each column from the source
  Carried,    \* for the columns carried over: the column they are taken from, in a row
              \* of the job that carries it over
  Ttl,        \* CHECKPOINT_TTL_MS, in hours
  MaxSource,  \* bound on the versions of the record
  MaxFaults,  \* bound on what goes wrong
  Never       \* no checkpoint with a success

JobRunners == 1..LastJob

VARIABLES
  source,  \* version of the record at the source (0: none yet)
  dest,    \* who set each column last (0: nobody), and from which version
  age,     \* hours since last_success_at of each job
  run,     \* what each run is at
  late,    \* jobs that exceeded their time and still run, by run
  faults

syncVars == <<source, dest, age, run, late, faults>>

Versions == 0..MaxSource

Idle == [pc |-> "idle", job |-> 1, snap |-> 0]

TypeOK ==
  /\ source \in Versions
  /\ dest \in [Columns -> [by : 0..LastJob, version : Versions]]
  /\ age \in [JobRunners -> 0..Ttl \cup {Never}]
  /\ run \in [Runs -> [pc : {"idle", "next", "begun", "fetched", "written", "carried"},
                       job : 1..(LastJob + 1), snap : Versions]]
  /\ late \in [Runs -> SUBSET [pc : {"fetched", "written"}, job : JobRunners, snap : Versions]]
  /\ faults \in 0..MaxFaults

Init ==
  /\ source = 0
  /\ dest = [c \in Columns |-> [by |-> 0, version |-> 0]]
  /\ age = [j \in JobRunners |-> Never]
  /\ run = [r \in Runs |-> Idle]
  /\ late = [r \in Runs |-> {}]
  /\ faults = 0

-----------------------------------------------------------------------------
(* What a job writes.                                                      *)

RowThere(c) == \E d \in Columns : Inserts[d] = Inserts[c] /\ dest[d].version # 0

\* The record as a job read it, in every column the job sets, over whatever
\* another job has left there; where the row is another's and missing, a warning.
Brought(j, snap) ==
  [c \in Columns |->
     IF snap # 0 /\ j \in Writers[c] /\ (j = Inserts[c] \/ RowThere(c))
       THEN [by |-> j, version |-> snap]
     ELSE dest[c]]

\* Once its rows are written a job carries some of them over, as they now are.
CarriedOver(j) ==
  [c \in Columns |->
     IF /\ c \in DOMAIN Carried
        /\ Inserts[Carried[c]] = j
        /\ dest[Carried[c]].version # 0
        /\ RowThere(c)
       THEN [by |-> j, version |-> dest[Carried[c]].version]
     ELSE dest[c]]

-----------------------------------------------------------------------------
SourceChanges ==
  /\ source < MaxSource
  /\ source' = source + 1
  /\ UNCHANGED <<dest, age, run, late, faults>>

\* An hour on, beyond Ttl hours nothing is told apart.  A run is over in minutes
\* (maxDuration): the hours pass between runs.
Hour ==
  /\ \A r \in Runs : run[r].pc = "idle"
  /\ \E j \in JobRunners : age[j] \in 0..(Ttl - 1)
  /\ age' = [j \in JobRunners |-> IF age[j] \in 0..(Ttl - 1) THEN age[j] + 1 ELSE age[j]]
  /\ UNCHANGED <<source, dest, run, late, faults>>

Fault == faults < MaxFaults /\ faults' = faults + 1

-----------------------------------------------------------------------------
(* A run.                                                                  *)

\* The cron of every six hours.
Start(r) ==
  /\ run[r].pc = "idle"
  /\ run' = [run EXCEPT ![r] = [Idle EXCEPT !.pc = "next"]]
  /\ UNCHANGED <<source, dest, age, late, faults>>

At(r, pc) == run[r].pc = pc /\ run[r].job \in JobRunners

\* Mutant: a success never grows old.
FreshForEver(j) == age[j] # Never

Fresh(j) == age[j] \in 0..(Ttl - 1)

NextJob(r) == run' = [run EXCEPT ![r] = [Idle EXCEPT !.pc = "next", !.job = run[r].job + 1]]

Skip(r) ==
  /\ At(r, "next")
  /\ Fresh(run[r].job)
  /\ NextJob(r)
  /\ UNCHANGED <<source, dest, age, late, faults>>

Begin(r) ==
  /\ At(r, "next")
  /\ ~Fresh(run[r].job)
  /\ run' = [run EXCEPT ![r].pc = "begun"]
  /\ UNCHANGED <<source, dest, age, late, faults>>

\* fetchAll reads the whole source before the first row is written.
Fetch(r) ==
  /\ At(r, "begun")
  /\ run' = [run EXCEPT ![r].pc = "fetched", ![r].snap = source]
  /\ UNCHANGED <<source, dest, age, late, faults>>

Write(r) ==
  /\ At(r, "fetched")
  /\ dest' = Brought(run[r].job, run[r].snap)
  /\ run' = [run EXCEPT ![r].pc = "written"]
  /\ UNCHANGED <<source, age, late, faults>>

\* The transaction of the record's row failed, or a limit left the record out.
WriteWithout(r) ==
  /\ At(r, "fetched")
  /\ Fault
  /\ run' = [run EXCEPT ![r].pc = "written"]
  /\ UNCHANGED <<source, dest, age, late>>

CarryOver(r) ==
  /\ At(r, "written")
  /\ dest' = CarriedOver(run[r].job)
  /\ run' = [run EXCEPT ![r].pc = "carried"]
  /\ UNCHANGED <<source, age, late, faults>>

\* The job returned: checkpoint "ok", whatever status it returned.
Complete(r) ==
  /\ At(r, "carried")
  /\ age' = [age EXCEPT ![run[r].job] = 0]
  /\ NextJob(r)
  /\ UNCHANGED <<source, dest, late, faults>>

\* A required column is missing at the source, which is returned, not thrown.
Drifted(r) ==
  /\ At(r, "fetched")
  /\ Fault
  /\ age' = [age EXCEPT ![run[r].job] = 0]
  /\ NextJob(r)
  /\ UNCHANGED <<source, dest, late>>

\* The job throws, or its checkpoint cannot be written: last_success_at stays.
Fail(r) ==
  /\ run[r].pc \in {"begun", "fetched", "written", "carried"}
  /\ Fault
  /\ NextJob(r)
  /\ UNCHANGED <<source, dest, age, late>>

\* withTimeout gives up waiting; the job goes on.
TimeOut(r) ==
  /\ At(r, "fetched") \/ At(r, "written")
  /\ Fault
  /\ late' = [late EXCEPT ![r] = @ \cup {run[r]}]
  /\ NextJob(r)
  /\ UNCHANGED <<source, dest, age>>

\* A job that is late writes its rows, then carries them over.
LateGoesOn(r) ==
  /\ \E e \in late[r] :
       \/ /\ e.pc = "fetched"
          /\ dest' = Brought(e.job, e.snap)
          /\ late' = [late EXCEPT ![r] = (@ \ {e}) \cup {[e EXCEPT !.pc = "written"]}]
       \/ /\ e.pc = "written"
          /\ dest' = CarriedOver(e.job)
          /\ late' = [late EXCEPT ![r] = @ \ {e}]
  /\ UNCHANGED <<source, age, run, faults>>

\* Or it is gone with its process, or throws.
LateGone(r) ==
  /\ \E e \in late[r] : late' = [late EXCEPT ![r] = @ \ {e}]
  /\ UNCHANGED <<source, dest, age, run, faults>>

Finish(r) ==
  /\ run[r].pc = "next"
  /\ run[r].job > LastJob
  /\ run' = [run EXCEPT ![r] = Idle]
  /\ UNCHANGED <<source, dest, age, late, faults>>

\* The platform cuts the function off, late jobs and all.
Cut(r) ==
  /\ run[r].pc # "idle"
  /\ Fault
  /\ run' = [run EXCEPT ![r] = Idle]
  /\ late' = [late EXCEPT ![r] = {}]
  /\ UNCHANGED <<source, dest, age>>

InTime(r) ==
  Skip(r) \/ Begin(r) \/ Fetch(r) \/ Write(r) \/ CarryOver(r) \/ Complete(r) \/ Finish(r)

LateEnds(r) == LateGoesOn(r) \/ LateGone(r)

Next ==
  \/ SourceChanges \/ Hour
  \/ \E r \in Runs :
       \/ Start(r) \/ InTime(r) \/ LateEnds(r)
       \/ WriteWithout(r) \/ Drifted(r) \/ Fail(r) \/ TimeOut(r) \/ Cut(r)

\* Time passes, for hours lie between the runs of the cron; it fires, a run goes
\* on, and a late job ends.
Fairness ==
  /\ SF_syncVars(Hour)
  /\ WF_syncVars(\E r \in Runs : Start(r))
  /\ \A r \in Runs : WF_syncVars(InTime(r)) /\ WF_syncVars(LateEnds(r))

Spec == Init /\ [][Next]_syncVars /\ Fairness

-----------------------------------------------------------------------------
\* The job that has the last word on a column.
Overrider(c) == IF c \in DOMAIN Carried THEN Inserts[Carried[c]] ELSE Max(Writers[c])

\* When the source and the faults have come to rest, every column comes to be
\* set from what the source holds and stays so, whoever sets it: although a job
\* is passed over because it was "ok" with rows missing, or before the row was
\* there, and although a late job puts back what a later run had replaced.  Of a
\* column that several jobs set, the value of the one that has the last word
\* comes back again and again; it need not stay (see OverriddenAtRest).
SourceReaches ==
  /\ <>[](\A c \in Columns : dest[c].version = source)
  /\ \A c \in Columns : []<>(source # 0 => dest[c].by = Overrider(c))

\* What the job that inserts the row leaves in such a column is a default "if
\* detalle_mostrador hasn't run yet", and will be overridden (syncProspectScored
\* 297-300): once the overriding job has succeeded and has its own row of the
\* record, the default does not stand when no run is under way.
OverriddenAtRest ==
  (\A r \in Runs : run[r].pc = "idle" /\ late[r] = {}) =>
    \A c \in DOMAIN Carried :
      age[Overrider(c)] # Never /\ RowThere(Carried[c]) /\ RowThere(c)
        => dest[c].by = Overrider(c)
=============================================================================
