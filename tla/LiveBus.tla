------------------------------ MODULE LiveBus ------------------------------
(***************************************************************************)
(* The live event bus: publish appends a row to live_event_outbox, whose   *)
(* trigger notifies every process that LISTENs; a process fans an event    *)
(* out to the browsers that hold a stream to it.  A browser whose stream   *)
(* breaks reconnects, to any process, with the id of the last event it got *)
(* (live-ops) or without one (my-route).                                   *)
(*                                                                         *)
(* subscribe is cut at its awaits: the LISTEN of the process, the replay   *)
(* query, the registration of the handler.  Events are numbered in the     *)
(* order of publication and an event's number is its outbox id; all of     *)
(* them are events the browser is allowed to see.                          *)
(***************************************************************************)
EXTENDS Integers, Sequences, FiniteSets

CONSTANTS
  Procs,       \* server processes
  Browsers,    \* open pages that hold a stream
  MaxEvents,   \* bound on the number of events published
  MaxFaults,   \* bound on restarts, lost connections, failed reads, pruned rows
  RecentMax,   \* RECENT_BUFFER_MAX
  Epoch,       \* Date.now() is Epoch + n at event n, beyond every outbox id
  NoProc,      \* a browser with no stream
  NoId         \* no last event id

ASSUME BusBounds == MaxEvents \in Nat /\ MaxFaults \in Nat /\ RecentMax \in Nat

ASSUME BusClock == Epoch \in Nat /\ Epoch >= MaxEvents /\ NoId \in 0..Epoch

VARIABLES
  published,   \* how many events have been published
  rows,        \* ids in live_event_outbox
  hasOutbox,   \* migration 065 has run
  durable,     \* outboxAvailable of each process
  listeners,   \* connections on which a process LISTENs; listenerStarted is > 0
  lost,        \* those connections have died (nothing reconnects them)
  notices,     \* notifications a process has not turned into an emit, per event
  unsent,      \* events a process has inserted and not emitted locally yet
  recent,      \* the buffer of a process
  stream,      \* the stream of each browser
  \* history
  origin,      \* the process that published an event
  dropped,     \* events whose row a process was notified of and never read
  faults       \* how many faults have happened

busVars == <<published, rows, hasOutbox, durable, listeners, lost, notices,
             unsent, recent>>
liveVars == <<busVars, stream, origin, dropped, faults>>

Events == 1..MaxEvents

Ts(e) == Epoch + e

Stream == [pc : {"off", "listen", "scope", "replay", "on"},
           proc : Procs \cup {NoProc},
           last : {NoId} \cup {Ts(e) : e \in Events},   \* lastEventId of the browser
           since : {NoId} \cup {Ts(e) : e \in Events},  \* as sent in the request
           found : SUBSET Events,          \* rows the replay has read
           got : [Events -> Nat],          \* how often each event arrived
           base : 0..MaxEvents]            \* published when it was registered

BusTypeOK ==
  /\ published \in 0..MaxEvents
  /\ rows \subseteq 1..published
  /\ hasOutbox \in BOOLEAN
  /\ durable \in [Procs -> BOOLEAN]
  /\ lost \in [Procs -> BOOLEAN]
  /\ listeners \in [Procs -> Nat]
  /\ notices \in [Procs -> [Events -> Nat]]
  /\ unsent \in [Procs -> SUBSET Events]
  /\ recent \in [Procs -> Seq(Events)]
  /\ \A p \in Procs : Len(recent[p]) <= RecentMax
  /\ stream \in [Browsers -> Stream]
  /\ origin \in [Events -> Procs \cup {NoProc}]
  /\ dropped \in [Procs -> SUBSET Events]
  /\ faults \in 0..MaxFaults

Closed(last) == [pc |-> "off", proc |-> NoProc, last |-> last, since |-> NoId,
                 found |-> {}, got |-> [e \in Events |-> 0], base |-> 0]

BusInit ==
  /\ published = 0
  /\ rows = {}
  /\ hasOutbox \in BOOLEAN
  /\ durable = [p \in Procs |-> hasOutbox]
  /\ listeners = [p \in Procs |-> 0]
  /\ lost = [p \in Procs |-> FALSE]
  /\ notices = [p \in Procs |-> [e \in Events |-> 0]]
  /\ unsent = [p \in Procs |-> {}]
  /\ recent = [p \in Procs |-> <<>>]
  /\ stream = [b \in Browsers |-> Closed(NoId)]
  /\ origin = [e \in Events |-> NoProc]
  /\ dropped = [p \in Procs |-> {}]
  /\ faults = 0

On(b, p) == stream[b].pc = "on" /\ stream[b].proc = p

\* Mutant: the event reaches the buffer and not the handlers.
EmitToBufferOnly(p, e) ==
  /\ recent' = [recent EXCEPT ![p] =
       LET r == Append(@, e) IN IF Len(r) > RecentMax THEN Tail(r) ELSE r]
  /\ UNCHANGED stream

\* recent.push, shift, bus.emit: one synchronous step of process p.
Emit(p, e) ==
  /\ recent' = [recent EXCEPT ![p] =
       LET r == Append(@, e) IN IF Len(r) > RecentMax THEN Tail(r) ELSE r]
  /\ stream' = [b \in Browsers |->
       IF On(b, p) THEN [stream[b] EXCEPT !.last = Ts(e), !.got[e] = @ + 1]
       ELSE stream[b]]

Fault == faults < MaxFaults /\ faults' = faults + 1

-----------------------------------------------------------------------------
(* publish and the notification handler.                                   *)

\* The INSERT commits; its trigger notifies every connection that LISTENs.
PublishInsert(p) ==
  LET e == published + 1
  IN  /\ published < MaxEvents
      /\ durable[p]
      /\ published' = e
      /\ rows' = rows \cup {e}
      /\ origin' = [origin EXCEPT ![e] = p]
      /\ unsent' = [unsent EXCEPT ![p] = @ \cup {e}]
      /\ notices' = [q \in Procs |->
           [notices[q] EXCEPT ![e] = IF lost[q] THEN 0 ELSE listeners[q]]]
      /\ UNCHANGED <<hasOutbox, durable, listeners, lost, recent, stream,
                 dropped, faults>>

PublishEmit(p, e) ==
  /\ e \in unsent[p]
  /\ unsent' = [unsent EXCEPT ![p] = @ \ {e}]
  /\ Emit(p, e)
  /\ UNCHANGED <<published, rows, hasOutbox, durable, listeners, lost, notices,
                 origin, dropped, faults>>

\* There is no outbox, or the INSERT fails: this process only.
PublishInMemory(p) ==
  LET e == published + 1
  IN  /\ published < MaxEvents
      /\ published' = e
      /\ origin' = [origin EXCEPT ![e] = p]
      /\ Emit(p, e)
      /\ UNCHANGED <<rows, hasOutbox, durable, listeners, lost, notices, unsent,
                 dropped, faults>>

\* The handler reads the row; the reads of two notifications may end in any order.
Notified(p, e) ==
  /\ notices[p][e] > 0
  /\ e \in rows
  /\ notices' = [notices EXCEPT ![p][e] = @ - 1]
  /\ Emit(p, e)
  /\ UNCHANGED <<published, rows, hasOutbox, durable, listeners, lost, unsent,
                 origin, dropped, faults>>

\* The read fails, or the row has been pruned.
NoticeDropped(p, e) ==
  /\ notices[p][e] > 0
  /\ IF e \in rows THEN Fault ELSE UNCHANGED faults
  /\ notices' = [notices EXCEPT ![p][e] = @ - 1]
  /\ dropped' = [dropped EXCEPT ![p] = @ \cup {e}]
  /\ UNCHANGED <<published, rows, hasOutbox, durable, listeners, lost, unsent,
                 recent, stream, origin>>

\* The daily purge of rows older than a day.
Prune(e) ==
  /\ Fault
  /\ e \in rows
  /\ rows' = rows \ {e}
  /\ UNCHANGED <<published, hasOutbox, durable, listeners, lost, notices, unsent,
                 recent, stream, origin, dropped>>

-----------------------------------------------------------------------------
(* subscribe                                                               *)

\* listenerStarted is read here and set only when LISTEN has succeeded.
Connect(b, p, since) ==
  /\ stream[b].pc = "off"
  /\ since \in {stream[b].last, NoId}
  /\ stream' = [stream EXCEPT ![b] =
       [Closed(stream[b].last) EXCEPT
          !.pc = IF durable[p] /\ listeners[p] = 0 THEN "listen" ELSE "scope",
          !.proc = p, !.since = since]]
  /\ UNCHANGED <<busVars, origin, dropped, faults>>

Listen(b) ==
  /\ stream[b].pc = "listen"
  /\ listeners' = [listeners EXCEPT ![stream[b].proc] = @ + 1]
  /\ stream' = [stream EXCEPT ![b].pc = "scope"]
  /\ UNCHANGED <<published, rows, hasOutbox, durable, lost, notices, unsent,
                 recent, origin, dropped, faults>>

\* No connection for LISTEN: the process publishes in memory from now on.
ListenFails(b) ==
  /\ Fault
  /\ stream[b].pc = "listen"
  /\ durable' = [durable EXCEPT ![stream[b].proc] = FALSE]
  /\ stream' = [stream EXCEPT ![b].pc = "scope"]
  /\ UNCHANGED <<published, rows, hasOutbox, listeners, lost, notices, unsent,
                 recent, origin, dropped>>

\* The replay query: lastEventId is compared with the outbox ids.
ReplayQuery(b) ==
  /\ stream[b].pc = "scope"
  /\ durable[stream[b].proc] /\ stream[b].since # NoId
  /\ stream' = [stream EXCEPT ![b].pc = "replay",
                              ![b].found = {e \in rows : e > stream[b].since}]
  /\ UNCHANGED <<busVars, origin, dropped, faults>>

\* The query fails: a warning, and nothing is replayed.
ReplayFails(b) ==
  /\ Fault
  /\ stream[b].pc = "scope"
  /\ durable[stream[b].proc] /\ stream[b].since # NoId
  /\ stream' = [stream EXCEPT ![b].pc = "replay"]
  /\ UNCHANGED <<busVars, origin, dropped>>

Times(s, e) == Cardinality({i \in DOMAIN s : s[i] = e})

\* Mutant: a browser that sends an id gets nothing of the buffer.
BufferedFresh(b) ==
  IF stream[b].since = NoId THEN DOMAIN recent[stream[b].proc] ELSE {}

\* Where the events of the buffer are that are later than the browser's last one.
Buffered(b) == {i \in DOMAIN recent[stream[b].proc] : Ts(recent[stream[b].proc][i]) > stream[b].since}

Highest(S) == CHOOSE n \in S : \A m \in S : m <= n

\* Mutant: what is written is written twice.
WriteTwice(b, got, last) ==
  stream' = [stream EXCEPT ![b].pc = "on", ![b].found = {}, ![b].base = published,
               ![b].got = [e \in Events |-> 2 * got[e]], ![b].last = last]

\* What is replayed is written and the handler registered, in one step.
Write(b, got, last) ==
  stream' = [stream EXCEPT ![b].pc = "on", ![b].found = {}, ![b].base = published,
               ![b].got = got, ![b].last = last]

\* The rows found are written once each, by id.
RegisterReplayed(b) ==
  LET found == stream[b].found IN
  /\ stream[b].pc = "replay"
  /\ Write(b, [e \in Events |-> IF e \in found THEN 1 ELSE 0],
              IF found = {} THEN stream[b].last ELSE Ts(Highest(found)))
  /\ UNCHANGED <<busVars, origin, dropped, faults>>

RegisterBuffered(b) ==
  LET buffer == recent[stream[b].proc] IN
  /\ stream[b].pc = "scope"
  /\ ~(durable[stream[b].proc] /\ stream[b].since # NoId)
  /\ Write(b, [e \in Events |-> Cardinality({i \in Buffered(b) : buffer[i] = e})],
              IF Buffered(b) = {} THEN stream[b].last ELSE Ts(buffer[Highest(Buffered(b))]))
  /\ UNCHANGED <<busVars, origin, dropped, faults>>

-----------------------------------------------------------------------------
(* Faults.                                                                 *)

\* A proxy, the gateway's time limit or the page closes the stream.
Disconnect(b) ==
  /\ stream[b].pc = "on"
  /\ stream' = [stream EXCEPT ![b] = Closed(@.last)]
  /\ UNCHANGED <<busVars, origin, dropped, faults>>

\* The connections that LISTEN die; listenerStarted stays true.
ListenerLost(p) ==
  /\ Fault
  /\ listeners[p] > 0
  /\ lost' = [lost EXCEPT ![p] = TRUE]
  /\ UNCHANGED <<published, rows, hasOutbox, durable, listeners, notices, unsent,
                 recent, stream, origin, dropped>>

\* A process restarts: its memory and its streams are gone.
Restart(p) ==
  /\ Fault
  /\ durable' = [durable EXCEPT ![p] = hasOutbox]
  /\ listeners' = [listeners EXCEPT ![p] = 0]
  /\ lost' = [lost EXCEPT ![p] = FALSE]
  /\ notices' = [notices EXCEPT ![p] = [e \in Events |-> 0]]
  /\ unsent' = [unsent EXCEPT ![p] = {}]
  /\ recent' = [recent EXCEPT ![p] = <<>>]
  /\ stream' = [b \in Browsers |-> IF stream[b].proc = p THEN Closed(stream[b].last)
                                   ELSE stream[b]]
  /\ UNCHANGED <<published, rows, hasOutbox, origin, dropped>>

BusNext ==
  \/ \E p \in Procs : PublishInsert(p) \/ PublishInMemory(p) \/ ListenerLost(p) \/ Restart(p)
  \/ \E p \in Procs, e \in Events :
       PublishEmit(p, e) \/ Notified(p, e) \/ NoticeDropped(p, e)
  \/ \E e \in Events : Prune(e)
  \/ \E b \in Browsers, p \in Procs :
       \E since \in {stream[b].last, NoId} : Connect(b, p, since)
  \/ \E b \in Browsers :
       \/ Listen(b) \/ ListenFails(b) \/ ReplayQuery(b) \/ ReplayFails(b)
       \/ RegisterReplayed(b) \/ RegisterBuffered(b) \/ Disconnect(b)

BusSpec == BusInit /\ [][BusNext]_liveVars

\* The process finishes what it has begun to publish and to read.
Fairness ==
  \A p \in Procs, e \in Events :
    WF_liveVars(PublishEmit(p, e)) /\ WF_liveVars(Notified(p, e) \/ NoticeDropped(p, e))

BusFairSpec == BusSpec /\ Fairness

-----------------------------------------------------------------------------
(* Properties.                                                             *)

\* publish emits what it inserts and the process hears its own notification,
\* once for each LISTEN it holds (two first streams open one each): a stream
\* gets an event that often, of another process once less, and never more.
DuplicatesBounded ==
  \A b \in Browsers, p \in Procs, e \in Events :
    On(b, p) => stream[b].got[e] <= listeners[p] + (IF origin[e] = p THEN 1 ELSE 0)

\* A stream opened without an id, or to a process without an outbox, has all
\* that its process holds in the buffer and the browser had not seen: nothing
\* falls between the reading of the buffer and the registration of the handler.
BufferSeen ==
  \A b \in Browsers, p \in Procs :
    On(b, p) /\ (stream[b].since = NoId \/ ~hasOutbox) =>
      \A e \in Events : Ts(e) > stream[b].since => stream[b].got[e] >= Times(recent[p], e)

\* An event that any process appends to the outbox reaches every stream that
\* was open when it did, unless the stream closes, the row cannot be read or
\* the process has lost LISTEN.
DeliveredWhileOpen ==
  \A b \in Browsers, p \in Procs, e \in Events :
    On(b, p) /\ e \in rows /\ e > stream[b].base /\ durable[p] /\ ~lost[p]
      ~> stream[b].got[e] > 0 \/ ~On(b, p) \/ e \in dropped[p]

\* live.service: "On connect we replay any missed rows whose id > lastEventId";
\* live-ops: "the server replays missed events from outbox".
MissedReplayed ==
  \A b \in Browsers, p \in Procs :
    On(b, p) /\ stream[b].since # NoId /\ durable[p] =>
      \A e \in rows : Ts(e) > stream[b].since /\ e <= stream[b].base =>
        stream[b].got[e] > 0 \/ notices[p][e] > 0 \/ e \in unsent[p]
=============================================================================
