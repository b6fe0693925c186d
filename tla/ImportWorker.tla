---------------------------- MODULE ImportWorker ----------------------------
(***************************************************************************)
(* The queue of spreadsheet imports (modules/imports).  A cron tick claims *)
(* the oldest job that is pending, or processing with a heartbeat older    *)
(* than IMPORT_JOB_TTL_MIN, processes chunks of rows, each in a            *)
(* transaction of its own, and writes cursor and totals once, at its end.  *)
(* A tick may die anywhere, and one that is only slow may be taken for     *)
(* dead and carry on next to its successor.                                *)
(*                                                                         *)
(* A chunk stands for its rows; its kind says what happens to them.        *)
(***************************************************************************)
EXTENDS Integers, FiniteSets

CONSTANTS
  Jobs,       \* import_jobs ids, integers in the order of created_at
  Chunks,     \* chunks of each file
  Kinds,      \* kinds of chunks that files may have
  Workers,    \* ticks that can run at once
  NoJob,
  Hostings,   \* whether the hosting kills a tick before its heartbeat expires
  MaxCrashes  \* bound on the ticks that die

ASSUME JobAssumption == Jobs \subseteq Nat /\ NoJob \notin Jobs

ASSUME ChunkAssumption == Chunks \in Nat \ {0} /\ MaxCrashes \in Nat

ASSUME HostingAssumption == Hostings \subseteq BOOLEAN

\* clean:   every row is stored
\* mixed:   some rows are stored, some are found invalid
\* invalid: every row is found invalid
\* skipped: every row is skipped, its client missing or unknown
\* silent:  the queries of a row fail, the errors are caught and counted, and
\*          COMMIT rolls the aborted transaction back without an error
\* throws:  a query fails outside the try, or follows there one that failed
ASSUME KindAssumption ==
  Kinds \subseteq {"clean", "mixed", "invalid", "skipped", "silent", "throws"}

VARIABLES
  punctual,  \* no live tick is silent for IMPORT_JOB_TTL_MIN (never changes)
  kind,      \* what each chunk of each file is (never changes)
  garbled,   \* jobs whose file the parser throws on (never changes)
  job,       \* the rows of import_jobs
  stored,    \* chunks whose rows are in the target table, by job
  tick,      \* what each running tick has read and counted
  crashes

vars == <<punctual, kind, garbled, job, stored, tick, crashes>>

-----------------------------------------------------------------------------
Finished == {"done", "partial", "failed"}

\* good is rows_inserted + rows_updated, bad is rows_failed.
Job == [status : {"absent", "pending", "processing"} \cup Finished,
        fresh : BOOLEAN, cursor : 0..Chunks, good : Nat, bad : Nat]

Tick == [pc : {"idle", "claimed", "loop", "chunk", "beat"},
         job : Jobs \cup {NoJob}, cursor : 0..Chunks, good : Nat, bad : Nat,
         known : BOOLEAN]

Idle == [pc |-> "idle", job |-> NoJob, cursor |-> 0, good |-> 0, bad |-> 0,
         known |-> FALSE]

TypeOK ==
  /\ punctual \in BOOLEAN
  /\ kind \in [Jobs -> [1..Chunks -> Kinds]]
  /\ garbled \in SUBSET Jobs
  /\ job \in [Jobs -> Job]
  /\ stored \in [Jobs -> SUBSET (1..Chunks)]
  /\ tick \in [Workers -> Tick]
  /\ crashes \in 0..MaxCrashes

Init ==
  /\ punctual \in Hostings
  /\ kind \in [Jobs -> [1..Chunks -> Kinds]]
  /\ garbled \in SUBSET Jobs
  /\ job = [j \in Jobs |-> [status |-> "absent", fresh |-> FALSE, cursor |-> 0,
                            good |-> 0, bad |-> 0]]
  /\ stored = [j \in Jobs |-> {}]
  /\ tick = [w \in Workers |-> Idle]
  /\ crashes = 0

RegisterJob(j) ==
  /\ job[j].status = "absent"
  /\ \A i \in Jobs : i < j => job[i].status # "absent"
  /\ job' = [job EXCEPT ![j].status = "pending"]
  /\ UNCHANGED <<punctual, kind, garbled, stored, tick, crashes>>

-----------------------------------------------------------------------------
\* Mutant: a job that is being processed is claimed whatever its heartbeat.
ClaimableAnyway(j) == job[j].status \in {"pending", "processing"}

\* Mutant: a job that was interrupted is not taken up again.
ClaimableIfPending(j) == job[j].status = "pending"

Claimable(j) ==
  \/ job[j].status = "pending"
  \/ job[j].status = "processing" /\ ~job[j].fresh

\* The oldest claimable job; SKIP LOCKED may pass over one that a live tick is
\* just updating.  SELECT and UPDATE commit at once: the row lock does not
\* outlive the claim.
Claim(w, j) ==
  /\ tick[w] = Idle
  /\ Claimable(j)
  /\ \A i \in Jobs :
       i < j /\ Claimable(i) => \E v \in Workers : tick[v].job = i
  /\ job' = [job EXCEPT ![j] = [@ EXCEPT !.status = "processing", !.fresh = TRUE]]
  /\ tick' = [tick EXCEPT ![w] = [Idle EXCEPT !.pc = "claimed", !.job = j,
                !.cursor = job[j].cursor, !.good = job[j].good,
                !.bad = job[j].bad]]
  /\ UNCHANGED <<punctual, kind, garbled, stored, crashes>>

\* The heartbeat of a job in processing turns five minutes old.
HeartbeatExpires(j) ==
  /\ job[j].status = "processing" /\ job[j].fresh
  /\ punctual => \A w \in Workers : tick[w].job # j
  /\ job' = [job EXCEPT ![j].fresh = FALSE]
  /\ UNCHANGED <<punctual, kind, garbled, stored, tick, crashes>>

GiveUp(w) ==
  /\ job' = [job EXCEPT ![tick[w].job].status = "failed"]
  /\ tick' = [tick EXCEPT ![w] = Idle]

Download(w) ==
  /\ tick[w].pc = "claimed"
  /\ tick[w].job \notin garbled
  /\ tick' = [tick EXCEPT ![w].pc = "loop"]
  /\ UNCHANGED <<punctual, kind, garbled, job, stored, crashes>>

DownloadFails(w) ==
  /\ tick[w].pc = "claimed"
  /\ GiveUp(w)
  /\ UNCHANGED <<punctual, kind, garbled, stored, crashes>>

\* The parser throws and nothing catches it: the job stays in processing.
ParseThrows(w) ==
  /\ tick[w].pc = "claimed"
  /\ tick[w].job \in garbled
  /\ tick' = [tick EXCEPT ![w] = Idle]
  /\ UNCHANGED <<punctual, kind, garbled, job, stored, crashes>>

-----------------------------------------------------------------------------
Current(w) == tick[w].cursor + 1

\* The rows of the chunk are looked up: update those that exist, insert others.
ChunkBegin(w) ==
  /\ tick[w].pc = "loop"
  /\ tick[w].cursor < Chunks
  /\ tick' = [tick EXCEPT ![w] = [@ EXCEPT !.pc = "chunk",
                !.known = Current(w) \in stored[tick[w].job]]]
  /\ UNCHANGED <<punctual, kind, garbled, job, stored, crashes>>

\* A row that another tick has inserted since it was looked up is inserted
\* again: unique_violation, except where the INSERT says ON CONFLICT.
Clash(w) == ~tick[w].known /\ Current(w) \in stored[tick[w].job]

\* What the chunk adds to the totals, when it does not throw.
Counts(k) ==
  CASE k = "clean"   -> [good |-> 1, bad |-> 0]
    [] k = "invalid" -> [good |-> 0, bad |-> 1]
    [] k = "skipped" -> [good |-> 0, bad |-> 0]
    [] OTHER         -> [good |-> 1, bad |-> 1]

\* Mutant: the cursor advances by the chunk size, past a shorter last chunk.
CountByChunkSize(w, k) ==
  [tick[w] EXCEPT !.pc = "beat",
                  !.cursor = IF @ + 1 = Chunks THEN @ + 2 ELSE @ + 1,
                  !.good = @ + Counts(k).good, !.bad = @ + Counts(k).bad]

Count(w, k) ==
  [tick[w] EXCEPT !.pc = "beat", !.cursor = @ + 1,
                  !.good = @ + Counts(k).good, !.bad = @ + Counts(k).bad]

ChunkCommit(w) ==
  LET j == tick[w].job
      k == kind[j][Current(w)]
  IN  /\ tick[w].pc = "chunk"
      /\ k \notin {"silent", "throws"}
      /\ stored' = IF k \in {"invalid", "skipped"} THEN stored
                   ELSE [stored EXCEPT ![j] = @ \cup {Current(w)}]
      /\ tick' = [tick EXCEPT ![w] = Count(w, k)]
      /\ UNCHANGED <<punctual, kind, garbled, job, crashes>>

\* Mutant: errors that were caught are not counted.
SilentlyGood(w) == Count(w, "clean")

RolledBack(w) == Count(w, "silent")

\* The transaction is aborted but the callback returns: nothing is stored and
\* the rows that preceded the failing one are counted as if they were.
ChunkRollsBack(w) ==
  /\ tick[w].pc = "chunk"
  /\ \/ kind[tick[w].job][Current(w)] = "silent"
     \/ Clash(w)
  /\ tick' = [tick EXCEPT ![w] = RolledBack(w)]
  /\ UNCHANGED <<punctual, kind, garbled, job, stored, crashes>>

\* processBatch or the transaction throws, for its rows or for a lost
\* connection or a deadlock: the job is failed, its cursor not written.
ChunkThrows(w) ==
  /\ tick[w].pc = "chunk"
  /\ GiveUp(w)
  /\ UNCHANGED <<punctual, kind, garbled, stored, crashes>>

\* Best effort: a failure of this UPDATE is ignored.
Beat(w) ==
  /\ tick[w].pc = "beat"
  /\ job' \in {job, [job EXCEPT ![tick[w].job].fresh = TRUE]}
  /\ tick' = [tick EXCEPT ![w].pc = "loop"]
  /\ UNCHANGED <<punctual, kind, garbled, stored, crashes>>

\* The final status of a job whose rows have all been looked at.
Verdict(good, bad) ==
  CASE bad = 0             -> "done"
    [] bad > 0 /\ good > 0 -> "partial"
    [] OTHER               -> "failed"

\* Mutant: the cursor is not saved with the totals.
SavedTotalsOnly(w) ==
  LET t == tick[w]
  IN  [job[t.job] EXCEPT !.good = t.good, !.bad = t.bad,
        !.status = IF t.cursor = Chunks THEN Verdict(t.good, t.bad)
                                        ELSE "processing"]

Saved(w) ==
  LET t == tick[w]
  IN  [job[t.job] EXCEPT !.cursor = t.cursor, !.good = t.good, !.bad = t.bad,
        !.status = IF t.cursor = Chunks THEN Verdict(t.good, t.bad)
                                        ELSE "processing"]

\* The end of the file, or the soft timeout between two chunks.  The UPDATE is
\* by id: it does not ask whether the job is still this tick's.
EndTick(w) ==
  /\ tick[w].pc = "loop"
  /\ job' = [job EXCEPT ![tick[w].job] = Saved(w)]
  /\ tick' = [tick EXCEPT ![w] = Idle]
  /\ UNCHANGED <<punctual, kind, garbled, stored, crashes>>

\* The function is killed or loses its database.
Crash(w) ==
  /\ tick[w] # Idle
  /\ crashes < MaxCrashes
  /\ crashes' = crashes + 1
  /\ tick' = [tick EXCEPT ![w] = Idle]
  /\ UNCHANGED <<punctual, kind, garbled, job, stored>>

-----------------------------------------------------------------------------
Process(w) ==
  \/ ChunkCommit(w) \/ ChunkRollsBack(w) \/ ChunkThrows(w) \/ Beat(w)
  \/ tick[w].cursor = Chunks /\ EndTick(w)

Next ==
  \/ \E j \in Jobs : RegisterJob(j) \/ HeartbeatExpires(j)
  \/ \E w \in Workers, j \in Jobs : Claim(w, j)
  \/ \E w \in Workers :
       \/ Download(w) \/ DownloadFails(w) \/ ParseThrows(w)
       \/ ChunkBegin(w) \/ ChunkCommit(w) \/ ChunkRollsBack(w) \/ ChunkThrows(w)
       \/ Beat(w) \/ EndTick(w) \/ Crash(w)

Spec == Init /\ [][Next]_vars

\* The cron keeps ticking, more often than heartbeats expire, so that a job
\* which can be claimed again and again does not always lose to an older one.
\* A tick that is not killed runs on, and the soft timeout does not always
\* strike before the first chunk.
FairSpec ==
  /\ Spec
  /\ \A j \in Jobs :
       /\ WF_vars(HeartbeatExpires(j))
       /\ SF_vars(\E w \in Workers : Claim(w, j))
  /\ \A w \in Workers :
       /\ WF_vars(Download(w) \/ DownloadFails(w) \/ ParseThrows(w))
       /\ SF_vars(ChunkBegin(w))
       /\ WF_vars(Process(w))

-----------------------------------------------------------------------------
\* Every chunk up to the cursor is stored or accounted for.
Accounted(j, cursor, bad) ==
  \A c \in 1..Chunks :
    c <= cursor /\ c \notin stored[j] =>
      \/ kind[j][c] = "skipped"
      \/ kind[j][c] \in {"invalid", "silent"} /\ bad > 0

\* No row is skipped: whatever crashed, was repeated or was overtaken, the
\* chunks below a job's cursor are stored, or are ones that could not be, and
\* then a job reported done is one whose rows were skipped, never failed.
NothingSkipped ==
  \A j \in Jobs : Accounted(j, job[j].cursor, job[j].bad)

\* As long as live ticks beat in time, a job has one tick at most, and stays
\* in processing until that one ends it.
OneTick ==
  punctual => \A w \in Workers : tick[w] # Idle =>
    /\ job[tick[w].job].status = "processing"
    /\ \A v \in Workers : tick[v].job = tick[w].job => v = w

\* What the first n chunks of a file count for.
GoodChunks(j, n) == Cardinality({c \in 1..n : Counts(kind[j][c]).good = 1})

BadChunks(j, n) == Cardinality({c \in 1..n : Counts(kind[j][c]).bad = 1})

\* Then the totals count every chunk below the cursor once, however often
\* it was processed.
CountedOnce ==
  punctual => \A j \in Jobs :
    /\ job[j].good = GoodChunks(j, job[j].cursor)
    /\ job[j].bad = BadChunks(j, job[j].cursor)

\* And a job that has ended is not touched again.
EndedIsFinal ==
  [][punctual => \A j \in Jobs :
       job[j].status \in Finished => job'[j] = job[j]]_vars

\* A registered job with a readable file ends, though ticks are cut short by
\* time or crash and older jobs with unreadable files are tried for ever.
JobsEnd ==
  \A j \in Jobs :
    punctual /\ j \notin garbled /\ job[j].status = "pending"
      ~> job[j].status \in Finished

\* "Never blocks forever, leaves cursor behind so the next tick resumes"
\* (imports.service.js:107): a job that nobody is processing any more, though
\* no tick has died, can be claimed.
NextTickResumes ==
  punctual => \A j \in Jobs \ garbled :
    /\ job[j].status = "processing"
    /\ \A w \in Workers : tick[w].job # j
    => Claimable(j)

=============================================================================
