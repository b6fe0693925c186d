------------------------- MODULE ImportWorkerProofs -------------------------
(***************************************************************************)
(* Theorems about the import queue, for every number of jobs, chunks,      *)
(* ticks and crashes.                                                      *)
(***************************************************************************)
EXTENDS ImportWorker, FiniteSetTheorems, TLAPS

\* A tick that is not idle has a job, and has a chunk left when it is in one.
AtWork ==
  \A w \in Workers :
    /\ tick[w].pc = "idle" => tick[w] = Idle
    /\ tick[w].pc # "idle" => tick[w].job \in Jobs
    /\ tick[w].pc = "chunk" => tick[w].cursor < Chunks

TypeInv == TypeOK /\ AtWork

-----------------------------------------------------------------------------
\* What a tick counts for a chunk has its type.
LEMMA CountType ==
  ASSUME TypeInv, NEW w \in Workers, NEW k, tick[w].cursor < Chunks
  PROVE  /\ Count(w, k) \in Tick
         /\ Count(w, k).pc = "beat"
         /\ Count(w, k).job = tick[w].job
         /\ Count(w, k).cursor = tick[w].cursor + 1
         /\ Count(w, k).good = tick[w].good + Counts(k).good
         /\ Count(w, k).bad = tick[w].bad + Counts(k).bad
<1>. DEFINE t == tick[w]
            c == tick[w].cursor + 1
            g == tick[w].good + Counts(k).good
            b == tick[w].bad + Counts(k).bad
<1>1. t \in Tick
  BY DEF TypeInv, TypeOK
<1>2. Counts(k).good \in {0, 1} /\ Counts(k).bad \in {0, 1}
  BY DEF Counts
<1>3. c \in 0..Chunks /\ g \in Nat /\ b \in Nat
  BY <1>1, <1>2, ChunkAssumption DEF Tick
<1>4. Count(w, k) = [t EXCEPT !.pc = "beat", !.cursor = c,
                              !.good = g, !.bad = b]
  BY DEF Count
<1>. HIDE DEF t, c, g, b
<1>5. /\ Count(w, k) \in Tick /\ Count(w, k).pc = "beat"
      /\ Count(w, k).job = t.job /\ Count(w, k).cursor = c
      /\ Count(w, k).good = g /\ Count(w, k).bad = b
  BY <1>1, <1>3, <1>4 DEF Tick
<1>. QED
  BY <1>5 DEF t, c, g, b

\* The initial states have their types.
LEMMA InitTypeInv == Init => TypeInv
<1>1. Idle \in Tick
  BY ChunkAssumption DEF Idle, Tick
<1>. QED
  BY <1>1, ChunkAssumption, HostingAssumption, JobAssumption
  DEF Init, TypeInv, TypeOK, AtWork, Idle, Job, Finished

\* A tick that is given up, or dies, leaves the types alone.
LEMMA LeaveTypeInv ==
  ASSUME TypeInv, NEW w \in Workers, tick' = [tick EXCEPT ![w] = Idle],
         UNCHANGED <<punctual, kind, garbled, stored>>,
         job' \in [Jobs -> Job], crashes' \in 0..MaxCrashes
  PROVE  TypeInv'
<1>1. Idle \in Tick
  BY ChunkAssumption DEF Idle, Tick
<1>. QED
  BY <1>1 DEF TypeInv, TypeOK, AtWork, Idle

\* So does one that moves on to another step of its work.
LEMMA MoveTypeInv ==
  ASSUME TypeInv, NEW w \in Workers, NEW t \in Tick,
         tick' = [tick EXCEPT ![w] = t], t.pc # "idle", t.job \in Jobs,
         t.pc = "chunk" => t.cursor < Chunks,
         UNCHANGED <<punctual, kind, garbled, crashes>>,
         job' \in [Jobs -> Job], stored' \in [Jobs -> SUBSET (1..Chunks)]
  PROVE  TypeInv'
BY DEF TypeInv, TypeOK, AtWork

\* The row that a finished tick writes has its type.
LEMMA SavedType ==
  ASSUME TypeInv, NEW w \in Workers, tick[w].job \in Jobs
  PROVE  /\ Saved(w) \in Job
         /\ Saved(w).cursor = tick[w].cursor
         /\ Saved(w).good = tick[w].good
         /\ Saved(w).bad = tick[w].bad
<1>. DEFINE t == tick[w]
            r == job[t.job]
            s == IF t.cursor = Chunks THEN Verdict(t.good, t.bad)
                                      ELSE "processing"
<1>1. t \in Tick /\ r \in Job
  BY DEF TypeInv, TypeOK
<1>2. s \in {"processing"} \cup Finished
  BY DEF Verdict, Finished
<1>3. Saved(w) = [r EXCEPT !.cursor = t.cursor, !.good = t.good,
                           !.bad = t.bad, !.status = s]
  BY DEF Saved
<1>. HIDE DEF t, r, s
<1>4. /\ Saved(w) \in Job /\ Saved(w).cursor = t.cursor
      /\ Saved(w).good = t.good /\ Saved(w).bad = t.bad
  BY <1>1, <1>2, <1>3 DEF Tick, Job
<1>. QED
  BY <1>4 DEF t

\* No step spoils the types.
LEMMA NextTypeInv == TypeInv /\ [Next]_vars => TypeInv'
<1>. SUFFICES ASSUME TypeInv, [Next]_vars PROVE TypeInv'
  OBVIOUS
<1>0. \A w \in Workers : tick[w] \in Tick
  BY DEF TypeInv, TypeOK
<1>1. ASSUME NEW j \in Jobs, RegisterJob(j) PROVE TypeInv'
  BY <1>1 DEF RegisterJob, TypeInv, TypeOK, AtWork, Job
<1>2. ASSUME NEW j \in Jobs, HeartbeatExpires(j) PROVE TypeInv'
  BY <1>2 DEF HeartbeatExpires, TypeInv, TypeOK, AtWork, Job
<1>3. ASSUME NEW w \in Workers, NEW j \in Jobs, Claim(w, j) PROVE TypeInv'
  <2>1. job[j] \in Job
    BY DEF TypeInv, TypeOK
  <2>. DEFINE r == job[j]
              t == [Idle EXCEPT !.pc = "claimed", !.job = j,
                      !.cursor = r.cursor, !.good = r.good, !.bad = r.bad]
  <2>2. t \in Tick /\ t.pc = "claimed" /\ t.job = j
    <3>. HIDE DEF r
    <3>. QED
      BY <2>1 DEF Idle, Job, Tick, r
  <2>3. job' \in [Jobs -> Job]
    BY <1>3, <2>1 DEF Claim, TypeInv, TypeOK, Job
  <2>. QED
    <3>1. tick' = [tick EXCEPT ![w] = t]
      BY <1>3 DEF Claim
    <3>2. UNCHANGED <<punctual, kind, garbled, crashes, stored>>
      BY <1>3 DEF Claim
    <3>. HIDE DEF t
    <3>. QED
      BY <2>2, <2>3, <3>1, <3>2, MoveTypeInv DEF TypeInv, TypeOK
<1>4. ASSUME NEW w \in Workers, Download(w) PROVE TypeInv'
  BY <1>4 DEF Download, TypeInv, TypeOK, AtWork, Tick
<1>5. ASSUME NEW w \in Workers, tick[w].pc # "idle", GiveUp(w),
             UNCHANGED <<punctual, kind, garbled, stored, crashes>>
      PROVE  TypeInv'
  <2>1. job' \in [Jobs -> Job]
    BY <1>5 DEF GiveUp, TypeInv, TypeOK, Job, Finished
  <2>. QED
    BY <1>5, <2>1, LeaveTypeInv DEF GiveUp, TypeInv, TypeOK
<1>6. ASSUME NEW w \in Workers, ParseThrows(w) PROVE TypeInv'
  BY <1>6, LeaveTypeInv DEF ParseThrows, TypeInv, TypeOK
<1>7. ASSUME NEW w \in Workers, ChunkBegin(w) PROVE TypeInv'
  <2>. DEFINE r == tick[w]
              k == Current(w) \in stored[tick[w].job]
              t == [r EXCEPT !.pc = "chunk", !.known = k]
  <2>1. k \in BOOLEAN /\ r \in Tick
    BY <1>0
  <2>2. /\ t \in Tick /\ t.pc = "chunk" /\ t.job = r.job
        /\ t.cursor = r.cursor
    <3>. HIDE DEF r, k
    <3>. QED
      BY <2>1 DEF Tick
  <2>3. tick' = [tick EXCEPT ![w] = t]
    BY <1>7 DEF ChunkBegin
  <2>. HIDE DEF t
  <2>. QED
    BY <1>7, <2>2, <2>3, MoveTypeInv DEF ChunkBegin, TypeInv, TypeOK, AtWork
<1>8. ASSUME NEW w \in Workers, ChunkCommit(w) PROVE TypeInv'
  <2>1. tick[w].job \in Jobs /\ tick[w].cursor < Chunks
    BY <1>8 DEF ChunkCommit, TypeInv, AtWork
  <2>2. Current(w) \in 1..Chunks
    BY <1>0, <2>1, ChunkAssumption DEF Current, Tick
  <2>3. stored' \in [Jobs -> SUBSET (1..Chunks)]
    BY <1>8, <2>1, <2>2 DEF ChunkCommit, TypeInv, TypeOK
  <2>4. PICK k : tick' = [tick EXCEPT ![w] = Count(w, k)]
    BY <1>8 DEF ChunkCommit
  <2>5. /\ job' \in [Jobs -> Job]
        /\ UNCHANGED <<punctual, kind, garbled, crashes>>
    BY <1>8 DEF ChunkCommit, TypeInv, TypeOK
  <2>6. /\ Count(w, k) \in Tick /\ Count(w, k).pc = "beat"
        /\ Count(w, k).job = tick[w].job
    BY <2>1, CountType
  <2>. QED
    BY <2>1, <2>3, <2>4, <2>5, <2>6, MoveTypeInv
<1>9. ASSUME NEW w \in Workers, ChunkRollsBack(w) PROVE TypeInv'
  <2>1. tick[w].job \in Jobs /\ tick[w].cursor < Chunks
    BY <1>9 DEF ChunkRollsBack, TypeInv, AtWork
  <2>2. /\ tick' = [tick EXCEPT ![w] = Count(w, "silent")]
        /\ UNCHANGED <<punctual, kind, garbled, job, stored, crashes>>
    BY <1>9 DEF ChunkRollsBack, RolledBack
  <2>3. job' \in [Jobs -> Job] /\ stored' \in [Jobs -> SUBSET (1..Chunks)]
    BY <2>2 DEF TypeInv, TypeOK
  <2>4. /\ Count(w, "silent") \in Tick /\ Count(w, "silent").pc = "beat"
        /\ Count(w, "silent").job = tick[w].job
    BY <2>1, CountType
  <2>. QED
    BY <2>1, <2>2, <2>3, <2>4, MoveTypeInv
<1>10. ASSUME NEW w \in Workers, Beat(w) PROVE TypeInv'
  <2>. DEFINE t == [tick[w] EXCEPT !.pc = "loop"]
              r == [job[tick[w].job] EXCEPT !.fresh = TRUE]
  <2>0. tick[w].job \in Jobs
    BY <1>10 DEF Beat, TypeInv, AtWork
  <2>1. t \in Tick /\ t.pc = "loop" /\ t.job = tick[w].job
    BY <1>0 DEF Tick
  <2>2. r \in Job
    BY <2>0 DEF TypeInv, TypeOK, Job
  <2>3. job' = job \/ job' = [job EXCEPT ![tick[w].job] = r]
    BY <1>10 DEF Beat
  <2>4. tick' = [tick EXCEPT ![w] = t]
    BY <1>10 DEF Beat
  <2>. HIDE DEF t, r
  <2>5. job' \in [Jobs -> Job]
    BY <2>0, <2>2, <2>3 DEF TypeInv, TypeOK
  <2>. QED
    BY <1>10, <2>0, <2>1, <2>4, <2>5, MoveTypeInv DEF Beat, TypeInv, TypeOK
<1>11. ASSUME NEW w \in Workers, EndTick(w) PROVE TypeInv'
  BY <1>11, SavedType, LeaveTypeInv DEF EndTick, TypeInv, TypeOK, AtWork
<1>12. ASSUME NEW w \in Workers, Crash(w) PROVE TypeInv'
  <2>1. job' \in [Jobs -> Job] /\ crashes' \in 0..MaxCrashes
    BY <1>12, ChunkAssumption DEF Crash, TypeInv, TypeOK
  <2>2. /\ tick' = [tick EXCEPT ![w] = Idle]
        /\ UNCHANGED <<punctual, kind, garbled, stored>>
    BY <1>12 DEF Crash
  <2>. QED
    BY <2>1, <2>2, LeaveTypeInv
<1>13. CASE UNCHANGED vars
  BY <1>13 DEF vars, TypeInv, TypeOK, AtWork
<1>. QED
  BY <1>1, <1>2, <1>3, <1>4, <1>5, <1>6, <1>7, <1>8, <1>9, <1>10, <1>11, <1>12,
     <1>13 DEF Next, DownloadFails, ChunkThrows

\* The jobs and the ticks keep their types.
THEOREM TypeCorrect == Spec => []TypeOK
<1>1. TypeInv => TypeOK
  BY DEF TypeInv
<1>. QED
  BY <1>1, InitTypeInv, NextTypeInv, PTL DEF Spec

-----------------------------------------------------------------------------
\* OneTick, with what makes it last: the heartbeat of a job that a tick holds
\* is fresh, and nobody else stores the chunk that it has looked up.
HoldsAlone(w) ==
  /\ job[tick[w].job].status = "processing"
  /\ job[tick[w].job].fresh = TRUE
  /\ \A v \in Workers : tick[v].job = tick[w].job => v = w
  /\ tick[w].pc = "chunk" => ~Clash(w)

Alone == punctual => \A w \in Workers : tick[w].pc # "idle" => HoldsAlone(w)

\* A tick that ends, whatever it writes of its own job, leaves the others alone.
LEMMA LeaveAlone ==
  ASSUME TypeInv, Alone, NEW w \in Workers,
         tick' = [tick EXCEPT ![w] = Idle], UNCHANGED <<punctual, stored>>,
         \A j \in Jobs : j # tick[w].job => job'[j] = job[j]
  PROVE  Alone'
<1>. SUFFICES ASSUME punctual, NEW v \in Workers, tick'[v].pc # "idle"
              PROVE  HoldsAlone(v)'
  BY DEF Alone
<1>1. v # w /\ tick'[v] = tick[v] /\ tick[v].pc # "idle"
  BY DEF TypeInv, TypeOK, Idle
<1>2. HoldsAlone(v) /\ tick[v].job \in Jobs
  BY <1>1 DEF Alone, TypeInv, AtWork
<1>3. tick[v].job # tick[w].job
  BY <1>1, <1>2 DEF HoldsAlone
<1>4. job'[tick[v].job] = job[tick[v].job]
  BY <1>2, <1>3
<1>5. \A u \in Workers : tick'[u].job = tick[v].job => u = v
  BY <1>2, JobAssumption DEF HoldsAlone, TypeInv, TypeOK, Idle
<1>. QED
  BY <1>1, <1>2, <1>4, <1>5 DEF HoldsAlone, Clash, Current

\* So does one that goes on, and stores a chunk at most.
LEMMA MoveAlone ==
  ASSUME TypeInv, Alone, NEW w \in Workers, tick[w].pc # "idle",
         NEW t, t.job = tick[w].job, tick' = [tick EXCEPT ![w] = t],
         t.pc = "chunk" => ~Clash(w)', punctual' = punctual,
         \A j \in Jobs : j # tick[w].job => stored'[j] = stored[j],
         \A j \in Jobs : /\ job'[j].status = job[j].status
                         /\ job'[j].fresh \in {job[j].fresh, TRUE}
  PROVE  Alone'
<1>. SUFFICES ASSUME punctual, NEW v \in Workers, tick'[v].pc # "idle"
              PROVE  HoldsAlone(v)'
  BY DEF Alone
<1>0. \A u \in Workers : /\ tick'[u].job = tick[u].job
                         /\ u # w => tick'[u] = tick[u]
  BY DEF TypeInv, TypeOK
<1>1. tick[v].pc # "idle"
  BY <1>0
<1>2. HoldsAlone(v) /\ tick[v].job \in Jobs
  BY <1>1 DEF Alone, TypeInv, AtWork
<1>3. /\ job'[tick'[v].job].status = "processing"
      /\ job'[tick'[v].job].fresh = TRUE
  BY <1>0, <1>2 DEF HoldsAlone
<1>4. \A u \in Workers : tick'[u].job = tick'[v].job => u = v
  BY <1>0, <1>2 DEF HoldsAlone
<1>5. tick'[v].pc = "chunk" => ~Clash(v)'
  <2>1. CASE v = w
    BY <2>1 DEF TypeInv, TypeOK
  <2>2. CASE v # w
    <3>1. tick[v].job # tick[w].job
      BY <1>2, <2>2 DEF HoldsAlone
    <3>. QED
      BY <1>0, <1>2, <2>2, <3>1 DEF HoldsAlone, Clash, Current
  <2>. QED
    BY <2>1, <2>2
<1>. QED
  BY <1>3, <1>4, <1>5 DEF HoldsAlone

LEMMA InitAlone == Init => Alone
BY DEF Init, Alone, Idle

\* No step lets a second tick in.
LEMMA NextAlone == TypeInv /\ Alone /\ [Next]_vars => Alone'
<1>. SUFFICES ASSUME TypeInv, Alone, [Next]_vars PROVE Alone'
  OBVIOUS
<1>0. \A w \in Workers : tick[w] \in Tick
  BY DEF TypeInv, TypeOK
<1>1. ASSUME NEW j \in Jobs, RegisterJob(j) PROVE Alone'
  <2>1. ASSUME NEW w \in Workers, punctual, tick[w].pc # "idle"
        PROVE  job'[tick[w].job] = job[tick[w].job]
    BY <1>1, <2>1 DEF RegisterJob, Alone, HoldsAlone, TypeInv, TypeOK, AtWork
  <2>. QED
    BY <1>1, <2>1 DEF RegisterJob, Alone, HoldsAlone, Clash, Current
<1>2. ASSUME NEW j \in Jobs, HeartbeatExpires(j) PROVE Alone'
  <2>1. ASSUME NEW w \in Workers, punctual, tick[w].pc # "idle"
        PROVE  job'[tick[w].job] = job[tick[w].job]
    BY <1>2, <2>1 DEF HeartbeatExpires, TypeInv, TypeOK, AtWork
  <2>. QED
    BY <1>2, <2>1 DEF HeartbeatExpires, Alone, HoldsAlone, Clash, Current
<1>3. ASSUME NEW w \in Workers, NEW j \in Jobs, Claim(w, j) PROVE Alone'
  <2>. SUFFICES ASSUME punctual, NEW v \in Workers, tick'[v].pc # "idle"
                PROVE  HoldsAlone(v)'
    BY <1>3 DEF Alone, Claim
  <2>1. \A u \in Workers : tick[u].job # j
    <3>. SUFFICES ASSUME NEW u \in Workers, tick[u].job = j PROVE FALSE
      OBVIOUS
    <3>1. tick[u].pc # "idle"
      BY JobAssumption DEF TypeInv, AtWork, Idle
    <3>. QED
      BY <1>3, <3>1 DEF Alone, HoldsAlone, Claim, Claimable
  <2>2. /\ job'[j].status = "processing" /\ job'[j].fresh = TRUE
        /\ \A i \in Jobs : i # j => job'[i] = job[i]
    <3>1. job[j] \in Job
      BY DEF TypeInv, TypeOK
    <3>. QED
      BY <1>3, <3>1 DEF Claim, TypeInv, TypeOK, Job
  <2>3. /\ tick'[w].job = j /\ tick'[w].pc = "claimed"
        /\ \A u \in Workers : u # w => tick'[u] = tick[u]
    BY <1>3 DEF Claim, TypeInv, TypeOK, Idle
  <2>4. stored' = stored
    BY <1>3 DEF Claim
  <2>5. CASE v = w
    BY <2>1, <2>2, <2>3, <2>5 DEF HoldsAlone
  <2>6. CASE v # w
    <3>1. HoldsAlone(v) /\ tick[v].job \in Jobs /\ tick[v].job # j
      BY <2>1, <2>3, <2>6 DEF Alone, TypeInv, AtWork
    <3>. QED
      BY <2>2, <2>3, <2>4, <2>6, <3>1 DEF HoldsAlone, Clash, Current
  <2>. QED
    BY <2>5, <2>6
<1>4. ASSUME NEW w \in Workers, Download(w) PROVE Alone'
  <2>. DEFINE t == [tick[w] EXCEPT !.pc = "loop"]
  <2>1. t.job = tick[w].job /\ t.pc = "loop"
    BY <1>0 DEF Tick
  <2>2. tick' = [tick EXCEPT ![w] = t]
    BY <1>4 DEF Download
  <2>. HIDE DEF t
  <2>. QED
    BY <1>4, <2>1, <2>2, MoveAlone DEF Download
<1>5. ASSUME NEW w \in Workers, GiveUp(w), UNCHANGED <<punctual, stored>>
      PROVE  Alone'
  BY <1>5, LeaveAlone DEF GiveUp, TypeInv, TypeOK
<1>6. ASSUME NEW w \in Workers, ParseThrows(w) PROVE Alone'
  BY <1>6, LeaveAlone DEF ParseThrows
<1>7. ASSUME NEW w \in Workers, ChunkBegin(w) PROVE Alone'
  <2>. DEFINE k == Current(w) \in stored[tick[w].job]
              t == [tick[w] EXCEPT !.pc = "chunk", !.known = k]
  <2>1. t.job = tick[w].job /\ t.known = k /\ t.cursor = tick[w].cursor
    <3>. HIDE DEF k
    <3>. QED
      BY <1>0 DEF Tick
  <2>2. tick' = [tick EXCEPT ![w] = t]
    BY <1>7 DEF ChunkBegin
  <2>3. tick'[w] = t
    BY <2>2 DEF TypeInv, TypeOK
  <2>4. ~Clash(w)'
    BY <1>7, <2>1, <2>3, Zenon DEF Clash, Current, ChunkBegin
  <2>. HIDE DEF t
  <2>. QED
    BY <1>7, <2>1, <2>2, <2>4, MoveAlone DEF ChunkBegin
<1>8. ASSUME NEW w \in Workers, ChunkCommit(w) PROVE Alone'
  <2>1. PICK k : tick' = [tick EXCEPT ![w] = Count(w, k)]
    BY <1>8 DEF ChunkCommit
  <2>2. \A j \in Jobs : j # tick[w].job => stored'[j] = stored[j]
    BY <1>8 DEF ChunkCommit, TypeInv, TypeOK
  <2>3. Count(w, k).pc = "beat" /\ Count(w, k).job = tick[w].job
    BY <1>8, CountType DEF ChunkCommit, TypeInv, AtWork
  <2>. QED
    BY <1>8, <2>1, <2>2, <2>3, MoveAlone DEF ChunkCommit
<1>9. ASSUME NEW w \in Workers, ChunkRollsBack(w) PROVE Alone'
  <2>1. /\ Count(w, "silent").pc = "beat"
        /\ Count(w, "silent").job = tick[w].job
    BY <1>9, CountType DEF ChunkRollsBack, TypeInv, AtWork
  <2>. QED
    BY <1>9, <2>1, MoveAlone DEF ChunkRollsBack, RolledBack
<1>10. ASSUME NEW w \in Workers, Beat(w) PROVE Alone'
  <2>. DEFINE t == [tick[w] EXCEPT !.pc = "loop"]
  <2>1. t.job = tick[w].job /\ t.pc = "loop"
    BY <1>0 DEF Tick
  <2>2. tick' = [tick EXCEPT ![w] = t]
    BY <1>10 DEF Beat
  <2>3. \A j \in Jobs : /\ job'[j].status = job[j].status
                        /\ job'[j].fresh \in {job[j].fresh, TRUE}
    <3>. DEFINE r == [job[tick[w].job] EXCEPT !.fresh = TRUE]
    <3>1. tick[w].job \in Jobs
      BY <1>10 DEF Beat, TypeInv, AtWork
    <3>2. r.status = job[tick[w].job].status /\ r.fresh = TRUE
      BY <3>1 DEF TypeInv, TypeOK, Job
    <3>3. job' = job \/ job' = [job EXCEPT ![tick[w].job] = r]
      BY <1>10 DEF Beat
    <3>. HIDE DEF r
    <3>. QED
      BY <3>1, <3>2, <3>3 DEF TypeInv, TypeOK
  <2>. HIDE DEF t
  <2>. QED
    BY <1>10, <2>1, <2>2, <2>3, MoveAlone DEF Beat
<1>11. ASSUME NEW w \in Workers, EndTick(w) PROVE Alone'
  BY <1>11, LeaveAlone DEF EndTick, TypeInv, TypeOK
<1>12. ASSUME NEW w \in Workers, Crash(w) PROVE Alone'
  BY <1>12, LeaveAlone DEF Crash
<1>13. CASE UNCHANGED vars
  BY <1>13 DEF vars, Alone, HoldsAlone, Clash, Current
<1>. QED
  BY <1>1, <1>2, <1>3, <1>4, <1>5, <1>6, <1>7, <1>8, <1>9, <1>10, <1>11, <1>12,
     <1>13 DEF Next, DownloadFails, ChunkThrows

\* On a hosting that kills a tick before its heartbeat expires, a job has one
\* tick at most and stays in processing while it has it.
THEOREM JobsHaveOneTick == Spec => []OneTick
<1>1. TypeInv /\ Alone => OneTick
  BY DEF TypeInv, AtWork, Alone, HoldsAlone, OneTick
<1>. QED
  BY <1>1, InitTypeInv, NextTypeInv, InitAlone, NextAlone, PTL DEF Spec

\* There, a job that has ended is not touched again.
THEOREM EndedJobsStay == Spec => EndedIsFinal
<1>1. TypeInv /\ Alone /\ [Next]_vars =>
        (punctual => \A j \in Jobs :
           job[j].status \in Finished => job'[j] = job[j])
  <2>. SUFFICES ASSUME TypeInv, Alone, [Next]_vars, punctual, NEW j \in Jobs,
                       job[j].status \in Finished
                PROVE  job'[j] = job[j]
    OBVIOUS
  <2>1. ASSUME NEW w \in Workers, tick[w].pc # "idle" PROVE tick[w].job # j
    BY <2>1 DEF Alone, HoldsAlone, Finished
  <2>2. ASSUME NEW i \in Jobs, RegisterJob(i) \/ HeartbeatExpires(i)
        PROVE  job'[j] = job[j]
    BY <2>2 DEF RegisterJob, HeartbeatExpires, Finished, TypeInv, TypeOK
  <2>3. ASSUME NEW w \in Workers, NEW i \in Jobs, Claim(w, i)
        PROVE  job'[j] = job[j]
    BY <2>3 DEF Claim, Claimable, Finished, TypeInv, TypeOK
  <2>4. ASSUME NEW w \in Workers, tick[w].pc # "idle", GiveUp(w)
        PROVE  job'[j] = job[j]
    BY <2>1, <2>4 DEF GiveUp, TypeInv, TypeOK
  <2>5. ASSUME NEW w \in Workers, Beat(w) \/ EndTick(w) PROVE job'[j] = job[j]
    BY <2>1, <2>5 DEF Beat, EndTick, TypeInv, TypeOK
  <2>6. ASSUME NEW w \in Workers,
               \/ Download(w) \/ ParseThrows(w) \/ ChunkBegin(w)
               \/ ChunkCommit(w) \/ ChunkRollsBack(w) \/ Crash(w)
        PROVE  job'[j] = job[j]
    BY <2>6 DEF Download, ParseThrows, ChunkBegin, ChunkCommit,
                ChunkRollsBack, Crash
  <2>7. CASE UNCHANGED vars
    BY <2>7 DEF vars
  <2>. QED
    BY <2>2, <2>3, <2>4, <2>5, <2>6, <2>7
    DEF Next, DownloadFails, ChunkThrows
<1>. QED
  BY <1>1, InitTypeInv, NextTypeInv, InitAlone, NextAlone, PTL
  DEF Spec, EndedIsFinal

-----------------------------------------------------------------------------
\* What any step may do to cursors and totals.  SameWork: they are equal.
SameWork(t, u) == t.cursor = u.cursor /\ t.good = u.good /\ t.bad = u.bad

\* The chunk that w has just counted as one of kind k.
Looked(w, k) ==
  LET j == tick[w].job
      c == Current(w)
  IN  \/ k = kind[j][c] /\ (c \in stored'[j] \/ k \in {"invalid", "skipped"})
      \/ k = "silent" /\ (kind[j][c] = "silent" \/ Clash(w))

JobFrame(j) ==
  \/ SameWork(job'[j], job[j])
  \/ \E w \in Workers : /\ tick[w].pc # "idle" /\ tick[w].job = j
                        /\ SameWork(job'[j], tick[w])

TickFrame(w) ==
  \/ tick'[w].pc = "idle"
  \/ /\ tick[w].pc # "idle" /\ tick'[w].job = tick[w].job
     /\ SameWork(tick'[w], tick[w])
  \/ tick'[w].job \in Jobs /\ SameWork(tick'[w], job[tick'[w].job])
  \/ /\ tick[w].pc = "chunk"
     /\ \E k : tick'[w] = Count(w, k) /\ Looked(w, k)

Frame ==
  /\ UNCHANGED <<punctual, kind>>
  /\ \A j \in Jobs : stored[j] \subseteq stored'[j] /\ JobFrame(j)
  /\ \A w \in Workers : TickFrame(w)

\* Steps that leave the totals of the jobs alone, or replace one job's by its
\* tick's, and that change one tick, are within the frame.
LEMMA OneTickFrame ==
  ASSUME TypeInv, NEW w \in Workers, NEW t, tick' = [tick EXCEPT ![w] = t],
         TickFrame(w), UNCHANGED <<punctual, kind>>,
         \A j \in Jobs : stored[j] \subseteq stored'[j],
         \/ job' = job
         \/ \E j \in Jobs : \E r :
              /\ job' = [job EXCEPT ![j] = r]
              /\ \/ SameWork(r, job[j])
                 \/ /\ tick[w].pc # "idle" /\ tick[w].job = j
                    /\ SameWork(r, tick[w])
  PROVE  Frame
<1>1. ASSUME NEW v \in Workers, v # w PROVE TickFrame(v)
  <2>1. tick'[v] = tick[v]
    BY <1>1 DEF TypeInv, TypeOK
  <2>. QED
    BY <2>1 DEF TickFrame, SameWork
<1>2. ASSUME NEW j \in Jobs PROVE JobFrame(j)
  BY DEF TypeInv, TypeOK, JobFrame, SameWork
<1>. QED
  BY <1>1, <1>2 DEF Frame

LEMMA ManyJobsFrame ==
  ASSUME UNCHANGED <<punctual, kind, stored, tick>>,
         \A j \in Jobs : SameWork(job'[j], job[j])
  PROVE  Frame
BY DEF Frame, JobFrame, TickFrame, SameWork

\* Every step is within the frame.
LEMMA StepFrame == TypeInv /\ [Next]_vars => Frame
<1>. SUFFICES ASSUME TypeInv, [Next]_vars PROVE Frame
  OBVIOUS
<1>0. \A w \in Workers : tick[w] \in Tick
  BY DEF TypeInv, TypeOK
<1>1. ASSUME NEW j \in Jobs, RegisterJob(j) \/ HeartbeatExpires(j) PROVE Frame
  <2>1. job[j] \in Job
    BY DEF TypeInv, TypeOK
  <2>2. PICK r : job' = [job EXCEPT ![j] = r] /\ SameWork(r, job[j])
    BY <1>1, <2>1 DEF RegisterJob, HeartbeatExpires, SameWork, Job
  <2>3. \A i \in Jobs : SameWork(job'[i], job[i])
    BY <2>2 DEF TypeInv, TypeOK, SameWork
  <2>. QED
    BY <1>1, <2>3, ManyJobsFrame DEF RegisterJob, HeartbeatExpires
<1>2. ASSUME NEW w \in Workers, NEW j \in Jobs, Claim(w, j) PROVE Frame
  <2>. DEFINE r == job[j]
              t == [Idle EXCEPT !.pc = "claimed", !.job = j,
                      !.cursor = r.cursor, !.good = r.good, !.bad = r.bad]
              q == [r EXCEPT !.status = "processing", !.fresh = TRUE]
  <2>1. r \in Job
    BY DEF TypeInv, TypeOK
  <2>2. t.job = j /\ SameWork(t, r)
    BY DEF Idle, SameWork
  <2>3. SameWork(q, r)
    <3>. HIDE DEF r
    <3>. QED
      BY <2>1 DEF Job, SameWork
  <2>4. /\ tick' = [tick EXCEPT ![w] = t] /\ job' = [job EXCEPT ![j] = q]
        /\ UNCHANGED <<punctual, kind, stored>>
    BY <1>2 DEF Claim
  <2>. HIDE DEF t, q
  <2>5. TickFrame(w)
    BY <2>2, <2>4 DEF TickFrame, TypeInv, TypeOK
  <2>. QED
    BY <2>3, <2>4, <2>5, OneTickFrame
<1>a. Idle.pc = "idle"
  BY DEF Idle
<1>3. ASSUME NEW w \in Workers, NEW t, tick' = [tick EXCEPT ![w] = t],
             tick[w].pc # "idle", UNCHANGED <<punctual, kind, stored>>,
             \/ t.pc = "idle"
             \/ t.job = tick[w].job /\ SameWork(t, tick[w]),
             NEW r,
             \/ job' = job
             \/ /\ job' = [job EXCEPT ![tick[w].job] = r]
                /\ \/ SameWork(r, job[tick[w].job])
                   \/ SameWork(r, tick[w])
      PROVE  Frame
  <2>1. tick'[w] = t /\ tick[w].job \in Jobs
    BY <1>3 DEF TypeInv, TypeOK, AtWork
  <2>2. TickFrame(w)
    BY <1>3, <2>1 DEF TickFrame
  <2>. QED
    BY <1>3, <2>1, <2>2, OneTickFrame
<1>4. ASSUME NEW w \in Workers, Download(w) PROVE Frame
  <2>. DEFINE t == [tick[w] EXCEPT !.pc = "loop"]
  <2>1. t.job = tick[w].job /\ SameWork(t, tick[w])
    BY <1>0 DEF Tick, SameWork
  <2>2. tick' = [tick EXCEPT ![w] = t]
    BY <1>4 DEF Download
  <2>. HIDE DEF t
  <2>. QED
    BY <1>3, <1>4, <2>1, <2>2 DEF Download
<1>5. ASSUME NEW w \in Workers, tick[w].pc # "idle", GiveUp(w),
             UNCHANGED <<punctual, kind, stored>>
      PROVE  Frame
  <2>. DEFINE r == [job[tick[w].job] EXCEPT !.status = "failed"]
  <2>1. SameWork(r, job[tick[w].job])
    BY <1>5 DEF TypeInv, TypeOK, AtWork, Job, SameWork
  <2>2. /\ tick' = [tick EXCEPT ![w] = Idle]
        /\ job' = [job EXCEPT ![tick[w].job] = r]
    BY <1>5 DEF GiveUp
  <2>. HIDE DEF r
  <2>. QED
    BY <1>a, <1>3, <1>5, <2>1, <2>2
<1>6. ASSUME NEW w \in Workers, ParseThrows(w) \/ Crash(w) PROVE Frame
  <2>1. tick[w].pc # "idle"
    BY <1>6 DEF ParseThrows, Crash, TypeInv, AtWork
  <2>. QED
    BY <1>a, <1>3, <1>6, <2>1 DEF ParseThrows, Crash
<1>7. ASSUME NEW w \in Workers, ChunkBegin(w) PROVE Frame
  <2>. DEFINE k == Current(w) \in stored[tick[w].job]
              t == [tick[w] EXCEPT !.pc = "chunk", !.known = k]
  <2>1. t.job = tick[w].job /\ SameWork(t, tick[w])
    <3>. HIDE DEF k
    <3>. QED
      BY <1>0 DEF Tick, SameWork
  <2>2. tick' = [tick EXCEPT ![w] = t]
    BY <1>7 DEF ChunkBegin
  <2>. HIDE DEF t
  <2>. QED
    BY <1>3, <1>7, <2>1, <2>2 DEF ChunkBegin
<1>8. ASSUME NEW w \in Workers, NEW k, tick[w].pc = "chunk", Looked(w, k),
             UNCHANGED <<punctual, kind, job>>,
             tick' = [tick EXCEPT ![w] = Count(w, k)],
             \A j \in Jobs : stored[j] \subseteq stored'[j]
      PROVE  Frame
  <2>1. tick'[w] = Count(w, k)
    BY <1>8 DEF TypeInv, TypeOK
  <2>2. TickFrame(w)
    BY <1>8, <2>1 DEF TickFrame
  <2>. QED
    BY <1>8, <2>2, OneTickFrame
<1>9. ASSUME NEW w \in Workers, ChunkCommit(w) PROVE Frame
  <2>. DEFINE j == tick[w].job
              k == kind[j][Current(w)]
  <2>1. tick[w].pc = "chunk" /\ j \in Jobs
    BY <1>9 DEF ChunkCommit, TypeInv, AtWork
  <2>2. /\ stored' = IF k \in {"invalid", "skipped"} THEN stored
                     ELSE [stored EXCEPT ![j] = @ \cup {Current(w)}]
        /\ tick' = [tick EXCEPT ![w] = Count(w, k)]
        /\ UNCHANGED <<punctual, kind, job>>
    BY <1>9 DEF ChunkCommit
  <2>3. \A i \in Jobs : stored[i] \subseteq stored'[i]
    BY <2>1, <2>2 DEF TypeInv, TypeOK
  <2>4. Looked(w, k)
    BY <2>1, <2>2 DEF TypeInv, TypeOK, Looked
  <2>. QED
    BY <1>8, <2>1, <2>2, <2>3, <2>4
<1>10. ASSUME NEW w \in Workers, ChunkRollsBack(w) PROVE Frame
  <2>1. /\ tick[w].pc = "chunk" /\ UNCHANGED <<punctual, kind, job, stored>>
        /\ tick' = [tick EXCEPT ![w] = Count(w, "silent")]
    BY <1>10 DEF ChunkRollsBack, RolledBack
  <2>2. Looked(w, "silent")
    BY <1>10 DEF ChunkRollsBack, Looked
  <2>. QED
    BY <1>8, <2>1, <2>2
<1>11. ASSUME NEW w \in Workers, Beat(w) PROVE Frame
  <2>. DEFINE t == [tick[w] EXCEPT !.pc = "loop"]
              r == [job[tick[w].job] EXCEPT !.fresh = TRUE]
  <2>1. t.job = tick[w].job /\ SameWork(t, tick[w])
    BY <1>0 DEF Tick, SameWork
  <2>2. SameWork(r, job[tick[w].job])
    BY <1>11 DEF Beat, TypeInv, TypeOK, AtWork, Job, SameWork
  <2>3. /\ tick' = [tick EXCEPT ![w] = t]
        /\ job' = job \/ job' = [job EXCEPT ![tick[w].job] = r]
    BY <1>11 DEF Beat
  <2>. HIDE DEF t, r
  <2>. QED
    BY <1>3, <1>11, <2>1, <2>2, <2>3 DEF Beat
<1>12. ASSUME NEW w \in Workers, EndTick(w) PROVE Frame
  <2>1. /\ tick[w].pc # "idle" /\ tick' = [tick EXCEPT ![w] = Idle]
        /\ job' = [job EXCEPT ![tick[w].job] = Saved(w)]
        /\ UNCHANGED <<punctual, kind, stored>>
    BY <1>12 DEF EndTick
  <2>2. SameWork(Saved(w), tick[w])
    BY <2>1, SavedType DEF TypeInv, AtWork, SameWork
  <2>. QED
    BY <1>a, <1>3, <2>1, <2>2
<1>13. CASE UNCHANGED vars
  BY <1>13, ManyJobsFrame DEF vars, SameWork
<1>. QED
  BY <1>1, <1>2, <1>4, <1>5, <1>6, <1>7, <1>9, <1>10, <1>11, <1>12, <1>13
  DEF Next, DownloadFails, ChunkThrows

-----------------------------------------------------------------------------
\* NothingSkipped, and the same of what each tick has in memory.
TicksAccounted ==
  \A w \in Workers : tick[w].pc # "idle" =>
    Accounted(tick[w].job, tick[w].cursor, tick[w].bad)

AllAccounted == NothingSkipped /\ TicksAccounted

\* What was accounted for stays so when more is stored.
LEMMA AccountedStays ==
  ASSUME Frame, NEW j \in Jobs, NEW c, NEW b, Accounted(j, c, b)
  PROVE  \A i, n, m : i = j /\ n = c /\ m = b =>
           \A x \in 1..Chunks : x <= n /\ x \notin stored'[i] =>
             \/ kind'[i][x] = "skipped"
             \/ kind'[i][x] \in {"invalid", "silent"} /\ m > 0
BY DEF Frame, Accounted

\* A chunk that has been counted is accounted for.
LEMMA CountAccounted ==
  ASSUME TypeInv, AllAccounted, Frame, NEW w \in Workers, NEW k,
         tick[w].pc = "chunk", tick'[w] = Count(w, k), Looked(w, k)
  PROVE  Accounted(tick[w].job, tick[w].cursor, tick[w].bad)'
<1>. DEFINE j == tick[w].job
            n == tick[w].cursor
            t == Count(w, k)
<1>1. /\ n \in 0..Chunks /\ tick[w].bad \in Nat
      /\ j \in Jobs /\ n < Chunks /\ Accounted(j, n, tick[w].bad)
  BY DEF TypeInv, TypeOK, AtWork, Tick, AllAccounted, TicksAccounted
<1>2. t.job = j /\ t.cursor = n + 1 /\ t.bad = tick[w].bad + Counts(k).bad
  BY <1>1, CountType
<1>3. Counts(k).bad \in {0, 1}
  BY DEF Counts
<1>4. kind' = kind /\ stored[j] \subseteq stored'[j]
  BY <1>1 DEF Frame
<1>5. \/ Current(w) \in stored'[j]
      \/ kind[j][Current(w)] = "skipped"
      \/ kind[j][Current(w)] \in {"invalid", "silent"} /\ Counts(k).bad = 1
  BY <1>4 DEF Looked, Clash, Counts
<1>6. ASSUME NEW c \in 1..Chunks, c <= n + 1, c \notin stored'[j]
      PROVE  \/ kind[j][c] = "skipped"
             \/ kind[j][c] \in {"invalid", "silent"} /\ t.bad > 0
  <2>1. CASE c <= n
    BY <1>1, <1>2, <1>3, <1>4, <1>6, <2>1 DEF Accounted
  <2>2. CASE c = n + 1
    BY <1>1, <1>2, <1>3, <1>5, <1>6, <2>2 DEF Current
  <2>. QED
    BY <1>1, <1>6, <2>1, <2>2, ChunkAssumption
<1>. HIDE DEF t
<1>7. tick'[w] = t
  BY DEF t
<1>. QED
  BY <1>2, <1>4, <1>6, <1>7 DEF Accounted

LEMMA InitAccounted == Init => AllAccounted
BY ChunkAssumption
DEF Init, AllAccounted, NothingSkipped, TicksAccounted, Accounted, Idle

\* No step passes over a chunk.
LEMMA NextAccounted == TypeInv /\ AllAccounted /\ [Next]_vars => AllAccounted'
<1>. SUFFICES ASSUME TypeInv, AllAccounted, Frame PROVE AllAccounted'
  BY StepFrame
<1>1. ASSUME NEW j \in Jobs PROVE Accounted(j, job[j].cursor, job[j].bad)'
  <2>1. PICK u : /\ Accounted(j, u.cursor, u.bad)
                 /\ job'[j].cursor = u.cursor /\ job'[j].bad = u.bad
    BY DEF Frame, JobFrame, SameWork, AllAccounted, NothingSkipped, TicksAccounted
  <2>. QED
    BY <2>1, AccountedStays DEF Accounted
<1>2. ASSUME NEW w \in Workers, tick'[w].pc # "idle"
      PROVE  Accounted(tick[w].job, tick[w].cursor, tick[w].bad)'
  <2>1. ASSUME NEW j \in Jobs, NEW u, Accounted(j, u.cursor, u.bad),
               tick'[w].job = j, SameWork(tick'[w], u)
        PROVE  Accounted(tick[w].job, tick[w].cursor, tick[w].bad)'
    BY <2>1, AccountedStays DEF Accounted, SameWork
  <2>2. CASE /\ tick[w].pc # "idle" /\ tick'[w].job = tick[w].job
             /\ SameWork(tick'[w], tick[w])
    BY <2>1, <2>2 DEF AllAccounted, TicksAccounted, TypeInv, AtWork
  <2>3. CASE tick'[w].job \in Jobs /\ SameWork(tick'[w], job[tick'[w].job])
    BY <2>1, <2>3 DEF AllAccounted, NothingSkipped
  <2>4. CASE /\ tick[w].pc = "chunk"
             /\ \E k : tick'[w] = Count(w, k) /\ Looked(w, k)
    BY <2>4, CountAccounted
  <2>. QED
    BY <1>2, <2>2, <2>3, <2>4 DEF Frame, TickFrame
<1>. QED
  BY <1>1, <1>2 DEF AllAccounted, NothingSkipped, TicksAccounted

\* No chunk below the cursor of a job is lost, on any hosting.
THEOREM NothingIsSkipped == Spec => []NothingSkipped
<1>1. AllAccounted => NothingSkipped
  BY DEF AllAccounted
<1>. QED
  BY <1>1, InitTypeInv, NextTypeInv, InitAccounted, NextAccounted, PTL DEF Spec

-----------------------------------------------------------------------------
(* The totals of the import queue count every chunk once, on hostings that *)
(* kill a tick before its heartbeat expires.                               *)

\* u has counted the first u.cursor chunks of j's file.
Counted(j, u) ==
  /\ u.good = GoodChunks(j, u.cursor)
  /\ u.bad = BadChunks(j, u.cursor)

TicksCounted ==
  \A w \in Workers : tick[w].pc # "idle" => Counted(tick[w].job, tick[w])

AllCounted == CountedOnce /\ (punctual => TicksCounted)

-----------------------------------------------------------------------------
\* Of a prefix of the chunks, one more has one more member in a set at most.
LEMMA PrefixGrows ==
  ASSUME NEW n \in Nat, NEW S,
         NEW A, A = {c \in 1..n : c \in S},
         NEW B, B = {c \in 1..(n + 1) : c \in S}
  PROVE  /\ n + 1 \in S => Cardinality(B) = Cardinality(A) + 1
         /\ n + 1 \notin S => Cardinality(B) = Cardinality(A)
         /\ Cardinality(A) \in Nat
<1>1. IsFiniteSet(1..n)
  BY FS_Interval
<1>2. IsFiniteSet(A)
  BY <1>1, FS_Subset
<1>3. Cardinality(A) \in Nat
  BY <1>2, FS_CardinalityType
<1>4. ASSUME n + 1 \in S PROVE Cardinality(B) = Cardinality(A) + 1
  <2>1. B = A \cup {n + 1} /\ n + 1 \notin A
    BY <1>4
  <2>. QED
    BY <1>2, <2>1, FS_AddElement
<1>5. ASSUME n + 1 \notin S PROVE B = A
  BY <1>5
<1>. QED
  BY <1>3, <1>4, <1>5

\* One more chunk adds what it counts for.
LEMMA TotalsGrow ==
  ASSUME NEW j \in Jobs, NEW n \in Nat
  PROVE  /\ GoodChunks(j, n + 1) = GoodChunks(j, n) + Counts(kind[j][n + 1]).good
         /\ BadChunks(j, n + 1) = BadChunks(j, n) + Counts(kind[j][n + 1]).bad
<1>. DEFINE G == {c \in 1..(n + 1) : Counts(kind[j][c]).good = 1}
            B == {c \in 1..(n + 1) : Counts(kind[j][c]).bad = 1}
<1>1. \A k : Counts(k).good \in {0, 1} /\ Counts(k).bad \in {0, 1}
  BY DEF Counts
<1>2. n + 1 \in 1..(n + 1) /\ 1..n \subseteq 1..(n + 1)
  OBVIOUS
<1>3. /\ GoodChunks(j, n) = Cardinality({c \in 1..n : c \in G})
      /\ GoodChunks(j, n + 1) = Cardinality({c \in 1..(n + 1) : c \in G})
  <2>1. /\ {c \in 1..n : Counts(kind[j][c]).good = 1} = {c \in 1..n : c \in G}
        /\ {c \in 1..(n + 1) : Counts(kind[j][c]).good = 1}
             = {c \in 1..(n + 1) : c \in G}
    BY <1>2
  <2>. QED
    BY <2>1 DEF GoodChunks
<1>4. /\ BadChunks(j, n) = Cardinality({c \in 1..n : c \in B})
      /\ BadChunks(j, n + 1) = Cardinality({c \in 1..(n + 1) : c \in B})
  <2>1. /\ {c \in 1..n : Counts(kind[j][c]).bad = 1} = {c \in 1..n : c \in B}
        /\ {c \in 1..(n + 1) : Counts(kind[j][c]).bad = 1}
             = {c \in 1..(n + 1) : c \in B}
    BY <1>2
  <2>. QED
    BY <2>1 DEF BadChunks
<1>5. /\ n + 1 \in G <=> Counts(kind[j][n + 1]).good = 1
      /\ n + 1 \in B <=> Counts(kind[j][n + 1]).bad = 1
  BY <1>2
<1>. HIDE DEF G, B
<1>6. /\ n + 1 \in G => GoodChunks(j, n + 1) = GoodChunks(j, n) + 1
      /\ n + 1 \notin G => GoodChunks(j, n + 1) = GoodChunks(j, n)
      /\ GoodChunks(j, n) \in Nat
  BY <1>3, PrefixGrows
<1>7. /\ n + 1 \in B => BadChunks(j, n + 1) = BadChunks(j, n) + 1
      /\ n + 1 \notin B => BadChunks(j, n + 1) = BadChunks(j, n)
      /\ BadChunks(j, n) \in Nat
  BY <1>4, PrefixGrows
<1>. QED
  BY <1>1, <1>5, <1>6, <1>7

\* No chunk counts for anything before the first.
LEMMA TotalsStart ==
  ASSUME NEW j \in Jobs
  PROVE  GoodChunks(j, 0) = 0 /\ BadChunks(j, 0) = 0
<1>1. /\ {c \in 1..0 : Counts(kind[j][c]).good = 1} = {}
      /\ {c \in 1..0 : Counts(kind[j][c]).bad = 1} = {}
  OBVIOUS
<1>. QED
  BY <1>1, FS_EmptySet DEF GoodChunks, BadChunks

\* The files do not change, so the totals may be compared with the old ones.
LEMMA CountedNext ==
  ASSUME kind' = kind, punctual' = punctual,
         punctual => \A j \in Jobs :
           /\ job'[j].good = GoodChunks(j, job'[j].cursor)
           /\ job'[j].bad = BadChunks(j, job'[j].cursor),
         punctual => \A w \in Workers : tick'[w].pc # "idle" =>
           /\ tick'[w].good = GoodChunks(tick'[w].job, tick'[w].cursor)
           /\ tick'[w].bad = BadChunks(tick'[w].job, tick'[w].cursor)
  PROVE  AllCounted'
BY DEF AllCounted, CountedOnce, TicksCounted, Counted, GoodChunks, BadChunks

-----------------------------------------------------------------------------
LEMMA InitCounted == Init => AllCounted
BY TotalsStart DEF Init, AllCounted, CountedOnce, TicksCounted, Idle

\* A tick that holds its job alone counts its chunk for what it is.
LEMMA CountCounted ==
  ASSUME TypeInv, Alone, AllCounted, Frame, punctual, NEW w \in Workers, NEW k,
         tick[w].pc = "chunk", tick'[w] = Count(w, k), Looked(w, k)
  PROVE  /\ tick'[w].job = tick[w].job
         /\ tick'[w].good = GoodChunks(tick[w].job, tick'[w].cursor)
         /\ tick'[w].bad = BadChunks(tick[w].job, tick'[w].cursor)
<1>. DEFINE j == tick[w].job
            n == tick[w].cursor
<1>1. n \in 0..Chunks /\ j \in Jobs /\ n < Chunks
  BY DEF TypeInv, TypeOK, AtWork, Tick
<1>2. ~Clash(w)
  BY DEF Alone, HoldsAlone
<1>3. k = kind[j][n + 1]
  BY <1>2 DEF Looked, Current
<1>4. tick[w].good = GoodChunks(j, n) /\ tick[w].bad = BadChunks(j, n)
  BY DEF AllCounted, TicksCounted, Counted
<1>5. /\ tick'[w].job = j /\ tick'[w].cursor = n + 1
      /\ tick'[w].good = tick[w].good + Counts(k).good
      /\ tick'[w].bad = tick[w].bad + Counts(k).bad
  BY <1>1, CountType
<1>6. n \in Nat
  BY <1>1, ChunkAssumption
<1>7. /\ GoodChunks(j, n + 1) = GoodChunks(j, n) + Counts(k).good
      /\ BadChunks(j, n + 1) = BadChunks(j, n) + Counts(k).bad
  BY <1>1, <1>3, <1>6, TotalsGrow
<1>. QED
  BY <1>4, <1>5, <1>7

\* No step counts a chunk twice, or forgets one.
LEMMA NextCounted ==
  TypeInv /\ Alone /\ AllCounted /\ [Next]_vars => AllCounted'
<1>. SUFFICES ASSUME TypeInv, Alone, AllCounted, Frame PROVE AllCounted'
  BY StepFrame
<1>1. ASSUME punctual, NEW j \in Jobs
      PROVE  /\ job'[j].good = GoodChunks(j, job'[j].cursor)
             /\ job'[j].bad = BadChunks(j, job'[j].cursor)
  <2>1. PICK u : Counted(j, u) /\ SameWork(job'[j], u)
    BY <1>1 DEF Frame, JobFrame, AllCounted, CountedOnce, TicksCounted, Counted
  <2>. QED
    BY <2>1 DEF Counted, SameWork
<1>2. ASSUME punctual, NEW w \in Workers, tick'[w].pc # "idle"
      PROVE  /\ tick'[w].good = GoodChunks(tick'[w].job, tick'[w].cursor)
             /\ tick'[w].bad = BadChunks(tick'[w].job, tick'[w].cursor)
  <2>1. CASE /\ tick[w].pc # "idle" /\ tick'[w].job = tick[w].job
             /\ SameWork(tick'[w], tick[w])
    BY <1>2, <2>1 DEF AllCounted, TicksCounted, Counted, SameWork
  <2>2. CASE tick'[w].job \in Jobs /\ SameWork(tick'[w], job[tick'[w].job])
    BY <1>2, <2>2 DEF AllCounted, CountedOnce, SameWork
  <2>3. CASE /\ tick[w].pc = "chunk"
             /\ \E k : tick'[w] = Count(w, k) /\ Looked(w, k)
    BY <1>2, <2>3, CountCounted
  <2>. QED
    BY <1>2, <2>1, <2>2, <2>3 DEF Frame, TickFrame
<1>. QED
  BY <1>1, <1>2, CountedNext DEF Frame

\* Inserted, updated and failed rows add up to the chunks below the cursor,
\* each counted once, whatever was interrupted and repeated.
THEOREM TotalsAreRight == Spec => []CountedOnce
<1>1. AllCounted => CountedOnce
  BY DEF AllCounted
<1>. QED
  BY <1>1, InitTypeInv, NextTypeInv, InitAlone, NextAlone, InitCounted,
     NextCounted, PTL DEF Spec

=============================================================================
