---------------------------- MODULE LiveBusProofs ----------------------------
(***************************************************************************)
(* The live bus: no stream gets an event more often than its process       *)
(* LISTENs, once more if the process published it, and a stream opened     *)
(* without an id has all that is in the buffer, for any processes and      *)
(* browsers, any number of events and faults and any size of the buffer.   *)
(***************************************************************************)
EXTENDS LiveBus, FiniteInduction, TLAPS

-----------------------------------------------------------------------------
(* How often an event is in a buffer. *)

Is(x, e) == IF x = e THEN 1 ELSE 0

LEMMA TimesType ==
  ASSUME NEW s \in Seq(Events), NEW e
  PROVE  /\ IsFiniteSet({i \in DOMAIN s : s[i] = e})
         /\ Times(s, e) \in Nat
         /\ (\A i \in DOMAIN s : s[i] # e) => Times(s, e) = 0
<1>1. IsFiniteSet(DOMAIN s)
  BY FS_Interval
<1>2. IsFiniteSet({i \in DOMAIN s : s[i] = e})
  BY <1>1, FS_Subset
<1>3. (\A i \in DOMAIN s : s[i] # e) => {i \in DOMAIN s : s[i] = e} = {}
  OBVIOUS
<1>4. QED BY <1>2, <1>3, FS_CardinalityType, FS_EmptySet DEF Times

LEMMA TimesAppend ==
  ASSUME NEW s \in Seq(Events), NEW x \in Events, NEW e
  PROVE  Times(Append(s, x), e) = Times(s, e) + Is(x, e)
<1> DEFINE T == {i \in DOMAIN s : s[i] = e}
           r == Append(s, x)
           A == {i \in DOMAIN r : r[i] = e}
<1>1. /\ Len(s) \in Nat /\ DOMAIN s = 1..Len(s) /\ DOMAIN r = 1..(Len(s) + 1)
      /\ \A i \in 1..Len(s) : r[i] = s[i]
      /\ r[Len(s) + 1] = x
  OBVIOUS
<1>2. IsFiniteSet(T) /\ Len(s) + 1 \notin T
  <2>1. IsFiniteSet(T)
    BY TimesType
  <2>2. Len(s) + 1 \notin DOMAIN s
    BY <1>1
  <2>3. QED BY <2>1, <2>2
<1>3. A = IF x = e THEN T \cup {Len(s) + 1} ELSE T
  BY <1>1
<1> HIDE DEF r
<1>4. CASE x = e
  <2>1. Cardinality(T \cup {Len(s) + 1}) = Cardinality(T) + 1
    BY <1>2, FS_AddElement
  <2>2. Times(r, e) = Cardinality(A) /\ Times(s, e) = Cardinality(T)
    BY DEF Times
  <2> HIDE DEF A, T
  <2>3. QED BY <1>3, <1>4, <2>1, <2>2 DEF Is, r
<1>5. CASE x # e
  <2>1. Times(r, e) = Cardinality(A) /\ Times(s, e) = Cardinality(T) /\ Times(s, e) \in Nat
    BY TimesType DEF Times
  <2> HIDE DEF A, T
  <2>2. QED BY <1>3, <1>5, <2>1 DEF Is, r
<1>6. QED BY <1>4, <1>5

LEMMA TimesTail ==
  ASSUME NEW s \in Seq(Events), s # <<>>, NEW e
  PROVE  /\ Tail(s) \in Seq(Events) /\ Len(Tail(s)) = Len(s) - 1
         /\ Times(Tail(s), e) <= Times(s, e)
         /\ \A i \in DOMAIN Tail(s) : \E j \in DOMAIN s : Tail(s)[i] = s[j]
<1> DEFINE r == Tail(s)
           T == {i \in DOMAIN s : s[i] = e}
           A == {i \in DOMAIN r : r[i] = e}
           f == [i \in A |-> i + 1]
<1>1. /\ r \in Seq(Events) /\ Len(s) \in Nat /\ Len(r) = Len(s) - 1
      /\ DOMAIN s = 1..Len(s) /\ DOMAIN r = 1..(Len(s) - 1)
      /\ \A i \in 1..(Len(s) - 1) : r[i] = s[i + 1] /\ i + 1 \in 1..Len(s)
  OBVIOUS
<1> HIDE DEF r
<1>2. f \in Injection(A, T)
  BY <1>1 DEF Injection, IsInjective
<1>3. IsFiniteSet(T)
  BY TimesType
<1> HIDE DEF f
<1>4. Cardinality(A) <= Cardinality(T)
  <2> HIDE DEF A, T
  <2>1. QED BY <1>2, <1>3, FS_Injection
<1>5. Times(r, e) <= Times(s, e)
  BY <1>4 DEF Times
<1>6. \A i \in DOMAIN r : \E j \in DOMAIN s : r[i] = s[j]
  BY <1>1
<1>7. QED BY <1>1, <1>5, <1>6 DEF r

(* recent.push and shift.                                                  *)
Pushed(s, e) == LET r == Append(s, e) IN IF Len(r) > RecentMax THEN Tail(r) ELSE r

LEMMA PushedEffect ==
  ASSUME NEW s \in Seq(Events), Len(s) <= RecentMax, NEW e \in Events
  PROVE  /\ Pushed(s, e) \in Seq(Events) /\ Len(Pushed(s, e)) <= RecentMax
         /\ \A x : Times(Pushed(s, e), x) <= Times(s, x) + Is(e, x)
         /\ \A i \in DOMAIN Pushed(s, e) : Pushed(s, e)[i] = e \/ \E j \in DOMAIN s : Pushed(s, e)[i] = s[j]
<1> DEFINE r == Append(s, e)
<1>1. /\ r \in Seq(Events) /\ r # <<>> /\ Len(r) = Len(s) + 1 /\ Len(s) \in Nat /\ RecentMax \in Nat
      /\ \A i \in DOMAIN r : r[i] = e \/ \E j \in DOMAIN s : r[i] = s[j]
  BY BusBounds
<1>2. \A x : Times(r, x) = Times(s, x) + Is(e, x) /\ Times(r, x) \in Nat
  BY <1>1, TimesAppend, TimesType
<1>3. CASE Len(r) > RecentMax
  <2>1. Pushed(s, e) = Tail(r)
    BY <1>3 DEF Pushed
  <2> HIDE DEF r
  <2>2. /\ Tail(r) \in Seq(Events) /\ Len(Tail(r)) = Len(r) - 1
        /\ \A i \in DOMAIN Tail(r) : \E j \in DOMAIN r : Tail(r)[i] = r[j]
    BY <1>1, TimesTail
  <2>3. ASSUME NEW x PROVE Times(Tail(r), x) <= Times(s, x) + Is(e, x)
    <3>1. Times(Tail(r), x) <= Times(r, x)
      BY <1>1, TimesTail
    <3>2. Times(r, x) = Times(s, x) + Is(e, x)
      BY <1>2
    <3>3. QED BY <3>1, <3>2
  <2>4. \A i \in DOMAIN Tail(r) : Tail(r)[i] = e \/ \E j \in DOMAIN s : Tail(r)[i] = s[j]
    BY <1>1, <2>2
  <2>5. Len(Tail(r)) <= RecentMax
    BY <1>1, <2>2
  <2>6. QED BY <2>1, <2>2, <2>3, <2>4, <2>5
<1>4. CASE ~(Len(r) > RecentMax)
  <2>1. Pushed(s, e) = r
    BY <1>4 DEF Pushed
  <2>2. \A x : Times(r, x) <= Times(s, x) + Is(e, x)
    <3> HIDE DEF r
    <3>1. QED BY <1>2
  <2>3. Len(r) <= RecentMax
    BY <1>1, <1>4
  <2> HIDE DEF r
  <2>4. QED BY <1>1, <2>1, <2>2, <2>3
<1>5. QED BY <1>3, <1>4

-----------------------------------------------------------------------------
(* The inductive invariant. Nothing is known of an event before it is      *)
(* published. What a process has in its buffer or has sent to a stream,    *)
(* has been notified of and is about to emit of an event is no more than   *)
(* its connections that LISTEN and its own publishing account for.         *)

Own(p, e) == IF origin[e] = p THEN 1 ELSE 0

Waiting(p, e) == notices[p][e] + (IF e \in unsent[p] THEN 1 ELSE 0)

FutureUnknown ==
  \A e \in Events : e > published =>
    /\ \A p \in Procs : notices[p][e] = 0 /\ e \notin unsent[p] /\ Times(recent[p], e) = 0
    /\ \A b \in Browsers : stream[b].got[e] = 0

BufferAccounted ==
  \A p \in Procs, e \in Events : Times(recent[p], e) + Waiting(p, e) <= listeners[p] + Own(p, e)

StreamAccounted ==
  \A b \in Browsers, p \in Procs, e \in Events :
    On(b, p) => stream[b].got[e] + Waiting(p, e) <= listeners[p] + Own(p, e)

(* The replay compares a time with outbox ids: it never finds a row. Only  *)
(* a browser that sends an id to a process with an outbox asks for one.    *)
ReplayEmpty ==
  \A b \in Browsers :
    /\ stream[b].found = {}
    /\ stream[b].pc = "replay" => stream[b].since # NoId /\ hasOutbox
    /\ stream[b].pc # "off" => stream[b].proc \in Procs

DurableNeedsOutbox == \A p \in Procs : durable[p] => hasOutbox

BusInv ==
  BusTypeOK /\ FutureUnknown /\ BufferAccounted /\ StreamAccounted /\ ReplayEmpty
    /\ DurableNeedsOutbox /\ BufferSeen

LEMMA BusInvInit == BusInit => BusInv
<1> SUFFICES ASSUME BusInit PROVE BusInv
  OBVIOUS
<1> USE BusBounds, BusClock DEF BusInit
<1>0. \A e : Times(<<>>, e) = 0
  <2>1. <<>> \in Seq(Events) /\ DOMAIN <<>> = {}
    OBVIOUS
  <2>2. QED BY <2>1, TimesType
<1>1. BusTypeOK
  BY DEF BusTypeOK, Closed, Stream
<1>2. FutureUnknown
  BY <1>0 DEF FutureUnknown, Closed
<1>3. BufferAccounted
  BY <1>0 DEF BufferAccounted, Waiting, Own
<1>4. StreamAccounted /\ ReplayEmpty /\ DurableNeedsOutbox /\ BufferSeen
  BY DEF StreamAccounted, ReplayEmpty, DurableNeedsOutbox, BufferSeen, On, Closed
<1>5. QED BY <1>1, <1>2, <1>3, <1>4 DEF BusInv

-----------------------------------------------------------------------------
(* recent.push, shift and bus.emit, in whichever step they happen: what is *)
(* waiting and what is owned may change with it, as long as one less is    *)
(* waiting or one more is owned.                                           *)
Quiet == UNCHANGED <<hasOutbox, durable, listeners, lost>>

TablesTyped ==
  /\ published' \in {published, published + 1} /\ published' \in 0..MaxEvents
  /\ rows' \subseteq 1..published'
  /\ notices' \in [Procs -> [Events -> Nat]]
  /\ unsent' \in [Procs -> SUBSET Events]
  /\ origin' \in [Events -> Procs \cup {NoProc}]
  /\ dropped' \in [Procs -> SUBSET Events]
  /\ faults' \in 0..MaxFaults

EmitBooked(p, e) == \A q \in Procs, x \in Events :
  /\ x > published' => notices'[q][x] = 0 /\ x \notin unsent'[q]
  /\ \/ /\ q = p /\ x = e
        /\ \/ Waiting(q, x)' + 1 = Waiting(q, x) /\ Own(q, x)' = Own(q, x)
           \/ Waiting(q, x)' = 0 /\ Waiting(q, x) = 0 /\ Own(q, x)' = 1 /\ x > published
     \/ ~(q = p /\ x = e) /\ Waiting(q, x)' = Waiting(q, x) /\ Own(q, x)' = Own(q, x)
     \/ q # p /\ Waiting(q, x)' = 0 /\ x > published

LEMMA EmitStep ==
  ASSUME BusInv, Quiet, NEW p \in Procs, NEW e \in Events, Emit(p, e), e <= published',
         TablesTyped, EmitBooked(p, e)
  PROVE  BusInv'
<1> USE BusBounds DEF TablesTyped
<1>1. BusTypeOK
  BY DEF BusInv
<1>2. /\ recent' = [recent EXCEPT ![p] = Pushed(recent[p], e)]
      /\ \A b \in Browsers :
           stream'[b] = IF On(b, p) THEN [stream[b] EXCEPT !.last = Ts(e), !.got[e] = @ + 1] ELSE stream[b]
      /\ DOMAIN stream' = Browsers
  BY <1>1 DEF Emit, Pushed, BusTypeOK
<1>3. /\ recent[p] \in Seq(Events) /\ Len(recent[p]) <= RecentMax
      /\ Pushed(recent[p], e) \in Seq(Events) /\ Len(Pushed(recent[p], e)) <= RecentMax
      /\ \A x : Times(Pushed(recent[p], e), x) <= Times(recent[p], x) + Is(e, x)
  BY <1>1, PushedEffect DEF BusTypeOK
<1>4. /\ \A q \in Procs : q # p => recent'[q] = recent[q]
      /\ recent'[p] = Pushed(recent[p], e)
      /\ recent' \in [Procs -> Seq(Events)] /\ \A q \in Procs : Len(recent'[q]) <= RecentMax
      /\ \A q \in Procs, x \in Events : Times(recent[q], x) \in Nat /\ Times(recent'[q], x) \in Nat
  <2>1. recent' \in [Procs -> Seq(Events)]
    BY <1>1, <1>2, <1>3 DEF BusTypeOK
  <2>2. QED BY <1>1, <1>2, <1>3, <2>1, TimesType DEF BusTypeOK
<1>5. \A b \in Browsers :
        /\ stream[b] \in Stream /\ stream'[b] \in Stream
        /\ stream'[b].pc = stream[b].pc /\ stream'[b].proc = stream[b].proc
        /\ stream'[b].since = stream[b].since /\ stream'[b].found = stream[b].found
        /\ \A x \in Events : stream'[b].got[x] =
              IF On(b, p) THEN stream[b].got[x] + Is(e, x) ELSE stream[b].got[x]
  <2> SUFFICES ASSUME NEW b \in Browsers
               PROVE  /\ stream[b] \in Stream /\ stream'[b] \in Stream
                      /\ stream'[b].pc = stream[b].pc /\ stream'[b].proc = stream[b].proc
                      /\ stream'[b].since = stream[b].since /\ stream'[b].found = stream[b].found
                      /\ \A x \in Events : stream'[b].got[x] =
                            IF On(b, p) THEN stream[b].got[x] + Is(e, x) ELSE stream[b].got[x]
    OBVIOUS
  <2>1. stream[b] \in Stream
    BY <1>1 DEF BusTypeOK
  <2>2. CASE ~On(b, p)
    BY <2>1, <2>2, <1>2
  <2>3. CASE On(b, p)
    <3>1. stream'[b] = [stream[b] EXCEPT !.last = Ts(e), !.got[e] = @ + 1]
      BY <2>3, <1>2
    <3>2. stream[b].got \in [Events -> Nat]
      BY <2>1 DEF Stream
    <3>3. stream'[b].got = [stream[b].got EXCEPT ![e] = @ + 1] /\ stream'[b].got \in [Events -> Nat]
      BY <2>1, <3>1, <3>2 DEF Stream
    <3>4. \A x \in Events : stream'[b].got[x] = stream[b].got[x] + Is(e, x)
      BY <3>2, <3>3 DEF Is
    <3>5. stream'[b] \in Stream
      <4>1. stream'[b] = [stream[b] EXCEPT !.last = Ts(e), !.got = stream'[b].got]
        BY <2>1, <3>1, <3>3 DEF Stream
      <4>2. Ts(e) \in {NoId} \cup {Ts(x) : x \in Events}
        OBVIOUS
      <4> HIDE DEF Ts
      <4>3. QED BY <2>1, <3>3, <4>1, <4>2 DEF Stream
    <3>6. QED BY <2>1, <2>3, <3>1, <3>4, <3>5 DEF Stream
  <2>4. QED BY <2>2, <2>3
<1>6. BusTypeOK'
  <2>1. stream' \in [Browsers -> Stream]
    BY <1>5, <1>2 DEF Emit
  <2>2. QED BY <1>1, <1>4, <2>1 DEF BusTypeOK, Quiet
<1>7. \A b \in Browsers, q \in Procs : On(b, q)' <=> On(b, q)
  BY <1>5 DEF On
<1>8. published \in 0..MaxEvents /\ \A x \in Events : x \in Int
  BY <1>1 DEF BusTypeOK, Events
<1>9. FutureUnknown'
  <2> SUFFICES ASSUME NEW x \in Events, x > published'
               PROVE  /\ \A q \in Procs : notices'[q][x] = 0 /\ x \notin unsent'[q] /\ Times(recent'[q], x) = 0
                      /\ \A b \in Browsers : stream'[b].got[x] = 0
    BY DEF FutureUnknown
  <2>1. x > published /\ x # e
    BY <1>8
  <2>2. \A q \in Procs : Times(recent[q], x) = 0
    BY <2>1 DEF BusInv, FutureUnknown
  <2>3. \A q \in Procs : Times(recent'[q], x) = 0
    <3>1. Times(recent'[p], x) <= Times(recent[p], x) + Is(e, x)
      BY <1>3, <1>4
    <3>2. Times(recent'[p], x) = 0
      BY <2>1, <2>2, <3>1, <1>4 DEF Is
    <3>3. \A q \in Procs : q # p => Times(recent'[q], x) = Times(recent[q], x)
      BY <1>4
    <3>4. QED BY <2>2, <3>2, <3>3
  <2>4. \A b \in Browsers : stream'[b].got[x] = 0
    BY <2>1, <1>5 DEF BusInv, FutureUnknown, Is
  <2>5. QED BY <2>3, <2>4 DEF EmitBooked
<1>10. \A q \in Procs, x \in Events :
         /\ Waiting(q, x) \in Nat /\ Waiting(q, x)' \in Nat /\ Own(q, x) \in Nat /\ Own(q, x)' \in Nat
         /\ listeners[q] \in Nat /\ listeners'[q] = listeners[q]
  <2> SUFFICES ASSUME NEW q \in Procs, NEW x \in Events
               PROVE  /\ Waiting(q, x) \in Nat /\ Waiting(q, x)' \in Nat /\ Own(q, x) \in Nat /\ Own(q, x)' \in Nat
                      /\ listeners[q] \in Nat /\ listeners'[q] = listeners[q]
    OBVIOUS
  <2>1. notices[q][x] \in Nat /\ notices'[q][x] \in Nat /\ listeners[q] \in Nat /\ listeners'[q] = listeners[q]
    BY <1>1 DEF BusTypeOK, Quiet
  <2>2. QED BY <2>1 DEF Waiting, Own
<1>11. BufferAccounted'
  <2> SUFFICES ASSUME NEW q \in Procs, NEW x \in Events
               PROVE  Times(recent'[q], x) + Waiting(q, x)' <= listeners[q] + Own(q, x)'
    BY <1>10 DEF BufferAccounted
  <2>1. Times(recent[q], x) + Waiting(q, x) <= listeners[q] + Own(q, x)
    BY DEF BusInv, BufferAccounted
  <2>2. Times(recent'[q], x) <= Times(recent[q], x) + (IF q = p THEN Is(e, x) ELSE 0)
    BY <1>3, <1>4
  <2>3. x > published => Times(recent[q], x) = 0
    BY DEF BusInv, FutureUnknown
  <2>4. /\ Times(recent[q], x) \in Nat /\ Times(recent'[q], x) \in Nat
        /\ Waiting(q, x) \in Nat /\ Waiting(q, x)' \in Nat /\ Own(q, x) \in Nat /\ Own(q, x)' \in Nat
        /\ listeners[q] \in Nat
    BY <1>4, <1>10
  <2>5. CASE q = p /\ x = e
    <3>1. Times(recent'[q], x) <= Times(recent[q], x) + 1
      BY <2>2, <2>5 DEF Is
    <3>2. \/ Waiting(q, x)' + 1 = Waiting(q, x) /\ Own(q, x)' = Own(q, x)
          \/ Waiting(q, x)' = 0 /\ Waiting(q, x) = 0 /\ Own(q, x)' = 1 /\ x > published
      BY <2>5 DEF EmitBooked
    <3>3. QED BY <2>1, <2>3, <2>4, <3>1, <3>2
  <2>6. CASE ~(q = p /\ x = e)
    <3>1. Times(recent'[q], x) <= Times(recent[q], x)
      BY <2>2, <2>4, <2>6 DEF Is
    <3>2. \/ Waiting(q, x)' = Waiting(q, x) /\ Own(q, x)' = Own(q, x)
          \/ Waiting(q, x)' = 0 /\ x > published
      BY <2>6 DEF EmitBooked
    <3>3. QED BY <2>1, <2>3, <2>4, <3>1, <3>2
  <2>7. QED BY <2>5, <2>6
<1>12. StreamAccounted'
  <2> SUFFICES ASSUME NEW b \in Browsers, NEW q \in Procs, NEW x \in Events, On(b, q)
               PROVE  stream'[b].got[x] + Waiting(q, x)' <= listeners[q] + Own(q, x)'
    BY <1>7, <1>10 DEF StreamAccounted
  <2>1. stream[b].got[x] + Waiting(q, x) <= listeners[q] + Own(q, x)
    BY DEF BusInv, StreamAccounted
  <2>2. stream'[b].got[x] = stream[b].got[x] + (IF q = p THEN Is(e, x) ELSE 0)
    <3>1. On(b, p) <=> q = p
      BY DEF On
    <3>2. stream[b].got[x] \in Nat
      BY <1>5 DEF Stream
    <3>3. QED BY <1>5, <3>1, <3>2
  <2>3. x > published => stream[b].got[x] = 0
    BY DEF BusInv, FutureUnknown
  <2>4. stream[b].got[x] \in Nat
    BY <1>5 DEF Stream
  <2>5. /\ Waiting(q, x) \in Nat /\ Waiting(q, x)' \in Nat /\ Own(q, x) \in Nat /\ Own(q, x)' \in Nat
        /\ listeners[q] \in Nat
    BY <1>10
  <2>6. CASE q = p /\ x = e
    <3>1. stream'[b].got[x] = stream[b].got[x] + 1
      BY <2>2, <2>6 DEF Is
    <3>2. \/ Waiting(q, x)' + 1 = Waiting(q, x) /\ Own(q, x)' = Own(q, x)
          \/ Waiting(q, x)' = 0 /\ Waiting(q, x) = 0 /\ Own(q, x)' = 1 /\ x > published
      BY <2>6 DEF EmitBooked
    <3>3. QED BY <2>1, <2>3, <2>4, <2>5, <3>1, <3>2
  <2>7. CASE ~(q = p /\ x = e)
    <3>1. stream'[b].got[x] = stream[b].got[x]
      BY <2>2, <2>4, <2>7 DEF Is
    <3>2. \/ Waiting(q, x)' = Waiting(q, x) /\ Own(q, x)' = Own(q, x)
          \/ Waiting(q, x)' = 0 /\ x > published
      BY <2>7 DEF EmitBooked
    <3>3. QED BY <2>1, <2>3, <2>4, <2>5, <3>1, <3>2
  <2>8. QED BY <2>6, <2>7
<1>13. ReplayEmpty' /\ DurableNeedsOutbox'
  BY <1>5 DEF BusInv, ReplayEmpty, DurableNeedsOutbox, Quiet
<1>14. BufferSeen'
  <2> SUFFICES ASSUME NEW b \in Browsers, NEW q \in Procs, On(b, q), stream[b].since = NoId \/ ~hasOutbox,
                      NEW x \in Events, Ts(x) > stream[b].since
               PROVE  stream'[b].got[x] >= Times(recent'[q], x)
    BY <1>5, <1>7 DEF BufferSeen, Quiet, Ts
  <2>1. stream[b].got[x] >= Times(recent[q], x)
    BY DEF BusInv, BufferSeen
  <2>2. CASE q = p
    <3>1. stream'[b].got[x] = stream[b].got[x] + Is(e, x)
      BY <2>2, <1>5
    <3>2. Times(recent'[q], x) <= Times(recent[q], x) + Is(e, x)
      BY <2>2, <1>3, <1>4
    <3>3. stream[b].got[x] \in Nat /\ Is(e, x) \in Nat
      BY <1>5 DEF Stream, Is
    <3>4. Times(recent'[q], x) \in Nat /\ Times(recent[q], x) \in Nat
      BY <1>4
    <3>5. QED BY <2>1, <3>1, <3>2, <3>3, <3>4
  <2>3. CASE q # p
    <3>1. ~On(b, p)
      BY <2>3 DEF On
    <3>2. QED BY <2>1, <2>3, <3>1, <1>4, <1>5
  <2>4. QED BY <2>2, <2>3
<1>15. QED BY <1>6, <1>9, <1>11, <1>12, <1>13, <1>14 DEF BusInv

LEMMA PublishEmitStep ==
  ASSUME BusInv, NEW p \in Procs, NEW e \in Events, PublishEmit(p, e)
  PROVE  BusInv'
<1>1. BusTypeOK /\ FutureUnknown
  BY DEF BusInv
<1>2. /\ e \in unsent[p] /\ unsent' = [unsent EXCEPT ![p] = @ \ {e}] /\ Emit(p, e) /\ Quiet
      /\ UNCHANGED <<published, rows, notices, origin, dropped, faults>>
  BY DEF PublishEmit, Quiet
<1>3. e <= published
  BY <1>1, <1>2 DEF FutureUnknown, BusTypeOK, Events
<1>4. EmitBooked(p, e)
  BY <1>1, <1>2 DEF EmitBooked, FutureUnknown, BusTypeOK, Waiting, Own
<1>5. TablesTyped
  BY <1>1, <1>2 DEF TablesTyped, BusTypeOK
<1>6. QED BY <1>2, <1>3, <1>4, <1>5, EmitStep

LEMMA NotifiedStep ==
  ASSUME BusInv, NEW p \in Procs, NEW e \in Events, Notified(p, e)
  PROVE  BusInv'
<1>1. BusTypeOK /\ FutureUnknown
  BY DEF BusInv
<1>2. /\ notices[p][e] > 0 /\ notices' = [notices EXCEPT ![p][e] = @ - 1] /\ Emit(p, e) /\ Quiet
      /\ UNCHANGED <<published, rows, unsent, origin, dropped, faults>>
  BY DEF Notified, Quiet
<1>3. e <= published
  <2>1. e \in Int /\ published \in Int
    BY <1>1 DEF Events, BusTypeOK
  <2>2. e > published => notices[p][e] = 0
    BY <1>1 DEF FutureUnknown
  <2>3. QED BY <2>1, <2>2, <1>2
<1>4. notices' \in [Procs -> [Events -> Nat]]
  BY <1>1, <1>2 DEF BusTypeOK
<1>5. \A q \in Procs, x \in Events :
        notices'[q][x] = IF q = p /\ x = e THEN notices[q][x] - 1 ELSE notices[q][x]
  BY <1>1, <1>2 DEF BusTypeOK
<1>6. EmitBooked(p, e)
  <2> SUFFICES ASSUME NEW q \in Procs, NEW x \in Events
               PROVE  /\ x > published' => notices'[q][x] = 0 /\ x \notin unsent'[q]
                      /\ \/ q = p /\ x = e /\ Waiting(q, x)' + 1 = Waiting(q, x) /\ Own(q, x)' = Own(q, x)
                         \/ ~(q = p /\ x = e) /\ Waiting(q, x)' = Waiting(q, x) /\ Own(q, x)' = Own(q, x)
    BY DEF EmitBooked
  <2>1. notices[q][x] \in Nat /\ published \in Int /\ x \in Int /\ e \in Int
    <3>1. notices[q][x] \in Nat /\ published \in Int
      BY <1>1 DEF BusTypeOK
    <3>2. x \in Int /\ e \in Int
      BY DEF Events
    <3>3. QED BY <3>1, <3>2
  <2>2. x > published => notices[q][x] = 0 /\ x \notin unsent[q]
    BY <1>1 DEF FutureUnknown
  <2>3. CASE q = p /\ x = e
    BY <2>1, <2>2, <2>3, <1>2, <1>3, <1>5 DEF Waiting, Own
  <2>4. CASE ~(q = p /\ x = e)
    BY <2>1, <2>2, <2>4, <1>2, <1>5 DEF Waiting, Own
  <2>5. QED BY <2>3, <2>4
<1>7. TablesTyped
  BY <1>1, <1>2, <1>4 DEF TablesTyped, BusTypeOK
<1>8. QED BY <1>2, <1>3, <1>6, <1>7, EmitStep

LEMMA PublishInMemoryStep ==
  ASSUME BusInv, NEW p \in Procs, PublishInMemory(p)
  PROVE  BusInv'
<1> DEFINE e == published + 1
<1>1. BusTypeOK /\ FutureUnknown
  BY DEF BusInv
<1>2. /\ published < MaxEvents /\ published' = e /\ origin' = [origin EXCEPT ![e] = p] /\ Emit(p, e) /\ Quiet
      /\ UNCHANGED <<rows, notices, unsent, dropped, faults>>
  BY DEF PublishInMemory, Quiet
<1>3. /\ published \in Nat /\ e \in Events /\ e \in 0..MaxEvents /\ e > published /\ rows \subseteq 1..e
      /\ published' \in {published, published + 1}
  BY <1>1, <1>2, BusBounds DEF BusTypeOK, Events
<1>4. origin' \in [Events -> Procs \cup {NoProc}]
      /\ \A x \in Events : origin'[x] = IF x = e THEN p ELSE origin[x]
  BY <1>1, <1>2, <1>3 DEF BusTypeOK
<1> HIDE DEF e
<1>5. EmitBooked(p, e)
  <2> SUFFICES ASSUME NEW q \in Procs, NEW x \in Events
               PROVE  /\ x > published' => notices'[q][x] = 0 /\ x \notin unsent'[q]
                      /\ \/ /\ q = p /\ x = e
                            /\ Waiting(q, x)' = 0 /\ Waiting(q, x) = 0 /\ Own(q, x)' = 1 /\ x > published
                         \/ ~(q = p /\ x = e) /\ Waiting(q, x)' = Waiting(q, x) /\ Own(q, x)' = Own(q, x)
                         \/ q # p /\ Waiting(q, x)' = 0 /\ x > published
    BY DEF EmitBooked
  <2>1. x \in Int /\ e \in Int /\ published \in Int
    BY <1>3 DEF Events
  <2>2. x > published => notices[q][x] = 0 /\ x \notin unsent[q]
    BY <1>1 DEF FutureUnknown
  <2>3. x > published' => x > published
    BY <1>2, <1>3, <2>1
  <2>4. Waiting(q, x)' = Waiting(q, x)
    BY <1>2 DEF Waiting
  <2>5. x > published => Waiting(q, x) = 0
    BY <2>2 DEF Waiting
  <2>6. CASE x = e
    <3>1. x > published /\ Waiting(q, x) = 0 /\ Waiting(q, x)' = 0
      BY <2>4, <2>5, <2>6, <1>3
    <3>2. q = p => Own(q, x)' = 1
      BY <2>6, <1>4 DEF Own
    <3>3. CASE q = p
      BY <2>2, <2>3, <2>6, <3>1, <3>2, <3>3, <1>2
    <3>4. CASE q # p
      BY <2>2, <2>3, <2>6, <3>1, <3>4, <1>2, <1>4 DEF Own
    <3>5. QED BY <3>3, <3>4
  <2>7. CASE x # e
    BY <2>2, <2>3, <2>4, <2>7, <1>2, <1>4 DEF Own
  <2>8. QED BY <2>6, <2>7
<1>6. e <= published' /\ TablesTyped
  BY <1>1, <1>2, <1>3, <1>4 DEF TablesTyped, BusTypeOK
<1>7. QED BY <1>2, <1>3, <1>5, <1>6, EmitStep

-----------------------------------------------------------------------------
(* Steps of publish and of the notification handler that emit nothing.     *)

LEMMA PublishInsertStep ==
  ASSUME BusInv, NEW p \in Procs, PublishInsert(p)
  PROVE  BusInv'
<1> DEFINE e == published + 1
<1> USE BusBounds
<1>1. BusTypeOK /\ FutureUnknown
  BY DEF BusInv
<1>2. /\ published < MaxEvents /\ published' = e /\ rows' = rows \cup {e}
      /\ origin' = [origin EXCEPT ![e] = p] /\ unsent' = [unsent EXCEPT ![p] = @ \cup {e}]
      /\ notices' = [q \in Procs |-> [notices[q] EXCEPT ![e] = IF lost[q] THEN 0 ELSE listeners[q]]]
      /\ UNCHANGED <<hasOutbox, durable, listeners, lost, recent, stream, dropped, faults>>
  BY DEF PublishInsert
<1>3. published \in Nat /\ e \in Events /\ e \in 0..MaxEvents /\ e > published
  BY <1>1, <1>2 DEF BusTypeOK, Events
<1>4. \A x \in Events : origin'[x] = IF x = e THEN p ELSE origin[x]
  BY <1>1, <1>2, <1>3 DEF BusTypeOK
<1>5. \A q \in Procs, x \in Events :
        /\ notices'[q][x] = IF x = e THEN (IF lost[q] THEN 0 ELSE listeners[q]) ELSE notices[q][x]
        /\ x \in unsent'[q] <=> x \in unsent[q] \/ (q = p /\ x = e)
  BY <1>1, <1>2, <1>3 DEF BusTypeOK
<1>6. BusTypeOK'
  <2>1. rows' \subseteq 1..published'
    BY <1>1, <1>2, <1>3 DEF BusTypeOK
  <2>2. notices' \in [Procs -> [Events -> Nat]]
    <3>1. \A q \in Procs : listeners[q] \in Nat /\ notices[q] \in [Events -> Nat]
      BY <1>1 DEF BusTypeOK
    <3>2. QED BY <3>1, <1>2
  <2>3. origin' \in [Events -> Procs \cup {NoProc}] /\ unsent' \in [Procs -> SUBSET Events]
    BY <1>1, <1>2, <1>3 DEF BusTypeOK
  <2>4. QED BY <1>1, <1>2, <1>3, <2>1, <2>2, <2>3 DEF BusTypeOK
<1>7. \A q \in Procs, x \in Events :
        /\ x # e => Waiting(q, x)' = Waiting(q, x) /\ Own(q, x)' = Own(q, x)
        /\ x = e => /\ Waiting(q, x)' <= listeners[q] + Own(q, x)' /\ Times(recent[q], x) = 0
                    /\ \A b \in Browsers : stream[b].got[x] = 0
  <2> SUFFICES ASSUME NEW q \in Procs, NEW x \in Events
               PROVE  /\ x # e => Waiting(q, x)' = Waiting(q, x) /\ Own(q, x)' = Own(q, x)
                      /\ x = e => /\ Waiting(q, x)' <= listeners[q] + Own(q, x)' /\ Times(recent[q], x) = 0
                                  /\ \A b \in Browsers : stream[b].got[x] = 0
    OBVIOUS
  <2>1. listeners[q] \in Nat
    BY <1>1 DEF BusTypeOK
  <2>2. x = e => x \notin unsent[q] /\ Times(recent[q], x) = 0 /\ \A b \in Browsers : stream[b].got[x] = 0
    BY <1>1, <1>3 DEF FutureUnknown
  <2> HIDE DEF e
  <2>3. QED BY <1>4, <1>5, <2>1, <2>2 DEF Waiting, Own
<1> HIDE DEF e
<1>8. FutureUnknown'
  <2>1. \A x \in Events : x > published' => x > published /\ x # e
    BY <1>2, <1>3 DEF Events
  <2>2. QED BY <1>1, <1>2, <1>5, <2>1 DEF FutureUnknown
<1>9. BufferAccounted' /\ StreamAccounted'
  <2>1. BufferAccounted'
    <3> SUFFICES ASSUME NEW q \in Procs, NEW x \in Events
                 PROVE  Times(recent[q], x) + Waiting(q, x)' <= listeners[q] + Own(q, x)'
      BY <1>2 DEF BufferAccounted
    <3>1. Waiting(q, x)' \in Nat
      BY <1>6 DEF BusTypeOK, Waiting
    <3>2. QED BY <1>7, <3>1 DEF BusInv, BufferAccounted
  <2>2. StreamAccounted'
    <3> SUFFICES ASSUME NEW b \in Browsers, NEW q \in Procs, NEW x \in Events, On(b, q)
                 PROVE  stream[b].got[x] + Waiting(q, x)' <= listeners[q] + Own(q, x)'
      BY <1>2 DEF StreamAccounted, On
    <3>1. Waiting(q, x)' \in Nat
      BY <1>6 DEF BusTypeOK, Waiting
    <3>2. QED BY <1>7, <3>1 DEF BusInv, StreamAccounted
  <2>3. QED BY <2>1, <2>2
<1>10. ReplayEmpty' /\ DurableNeedsOutbox' /\ BufferSeen'
  BY <1>2 DEF BusInv, ReplayEmpty, DurableNeedsOutbox, BufferSeen, On, Ts
<1>11. QED BY <1>6, <1>8, <1>9, <1>10 DEF BusInv

(* Steps that let go of what is waiting, or of rows, and touch no stream.  *)
LEMMA LosingStep ==
  ASSUME BusInv, UNCHANGED <<published, hasOutbox, durable, listeners, unsent, recent, stream, origin>>,
         rows' \subseteq rows, lost' \in [Procs -> BOOLEAN], notices' \in [Procs -> [Events -> Nat]],
         dropped' \in [Procs -> SUBSET Events], faults' \in 0..MaxFaults,
         \A q \in Procs, x \in Events : notices'[q][x] <= notices[q][x]
  PROVE  BusInv'
<1>1. BusTypeOK
  BY DEF BusInv
<1>2. BusTypeOK'
  BY <1>1 DEF BusTypeOK
<1>3. \A q \in Procs, x \in Events : notices[q][x] \in Nat /\ notices'[q][x] \in Nat /\ notices'[q][x] <= notices[q][x]
  BY <1>1, <1>2 DEF BusTypeOK
<1>4. FutureUnknown'
  BY <1>3 DEF BusInv, FutureUnknown
<1>5. \A q \in Procs, x \in Events : /\ Waiting(q, x) \in Nat /\ Waiting(q, x)' \in Nat
                                     /\ Waiting(q, x)' <= Waiting(q, x)
                                     /\ Own(q, x)' = Own(q, x) /\ Own(q, x) \in Nat
                                     /\ listeners[q] \in Nat /\ Times(recent[q], x) \in Nat
  <2> SUFFICES ASSUME NEW q \in Procs, NEW x \in Events
               PROVE  /\ Waiting(q, x) \in Nat /\ Waiting(q, x)' \in Nat
                      /\ Waiting(q, x)' <= Waiting(q, x)
                      /\ Own(q, x)' = Own(q, x) /\ Own(q, x) \in Nat
                      /\ listeners[q] \in Nat /\ Times(recent[q], x) \in Nat
    OBVIOUS
  <2>1. listeners[q] \in Nat /\ Times(recent[q], x) \in Nat
    BY <1>1, TimesType DEF BusTypeOK
  <2>2. QED BY <2>1, <1>3 DEF Waiting, Own
<1>6. BufferAccounted'
  <2> SUFFICES ASSUME NEW q \in Procs, NEW x \in Events
               PROVE  Times(recent[q], x) + Waiting(q, x)' <= listeners[q] + Own(q, x)'
    BY DEF BufferAccounted
  <2>1. Times(recent[q], x) + Waiting(q, x) <= listeners[q] + Own(q, x)
    BY DEF BusInv, BufferAccounted
  <2>2. QED BY <1>5, <2>1
<1>7. StreamAccounted'
  <2> SUFFICES ASSUME NEW b \in Browsers, NEW q \in Procs, NEW x \in Events, On(b, q)
               PROVE  stream[b].got[x] + Waiting(q, x)' <= listeners[q] + Own(q, x)'
    BY DEF StreamAccounted, On
  <2>1. stream[b].got[x] + Waiting(q, x) <= listeners[q] + Own(q, x)
    BY DEF BusInv, StreamAccounted
  <2>2. stream[b].got[x] \in Nat
    BY <1>1 DEF BusTypeOK, Stream
  <2>3. QED BY <1>5, <2>1, <2>2
<1>8. ReplayEmpty' /\ DurableNeedsOutbox' /\ BufferSeen'
  BY DEF BusInv, ReplayEmpty, DurableNeedsOutbox, BufferSeen, On, Ts
<1>9. QED BY <1>2, <1>4, <1>6, <1>7, <1>8 DEF BusInv

LEMMA LosesStep ==
  ASSUME BusInv,
         \/ \E p \in Procs : ListenerLost(p)
         \/ \E p \in Procs, e \in Events : NoticeDropped(p, e)
         \/ \E e \in Events : Prune(e)
  PROVE  BusInv'
<1> USE BusBounds
<1>1. BusTypeOK
  BY DEF BusInv
<1>2. Fault => faults' \in 0..MaxFaults
  BY <1>1 DEF Fault, BusTypeOK
<1>3. ASSUME NEW p \in Procs, ListenerLost(p) PROVE BusInv'
  <2>1. lost' \in [Procs -> BOOLEAN] /\ faults' \in 0..MaxFaults
    BY <1>1, <1>2, <1>3 DEF ListenerLost, BusTypeOK
  <2>2. notices' = notices /\ rows' = rows /\ dropped' = dropped
        /\ UNCHANGED <<published, hasOutbox, durable, listeners, unsent, recent, stream, origin>>
    BY <1>3 DEF ListenerLost
  <2>3. \A q \in Procs, x \in Events : notices[q][x] <= notices[q][x]
    BY <1>1 DEF BusTypeOK
  <2>4. QED BY <1>1, <2>1, <2>2, <2>3, LosingStep DEF BusTypeOK
<1>4. ASSUME NEW p \in Procs, NEW e \in Events, NoticeDropped(p, e) PROVE BusInv'
  <2>1. /\ notices[p][e] > 0 /\ notices' = [notices EXCEPT ![p][e] = @ - 1]
        /\ dropped' = [dropped EXCEPT ![p] = @ \cup {e}] /\ faults' \in 0..MaxFaults
        /\ UNCHANGED <<published, rows, hasOutbox, durable, listeners, lost, unsent, recent, stream, origin>>
    BY <1>1, <1>2, <1>4 DEF NoticeDropped, BusTypeOK
  <2>2. notices' \in [Procs -> [Events -> Nat]] /\ dropped' \in [Procs -> SUBSET Events]
    BY <1>1, <2>1 DEF BusTypeOK
  <2>3. \A q \in Procs, x \in Events : notices'[q][x] <= notices[q][x]
    BY <1>1, <2>1 DEF BusTypeOK
  <2>4. QED BY <1>1, <2>1, <2>2, <2>3, LosingStep DEF BusTypeOK
<1>5. ASSUME NEW e \in Events, Prune(e) PROVE BusInv'
  <2>1. rows' \subseteq rows /\ faults' \in 0..MaxFaults
        /\ UNCHANGED <<published, hasOutbox, durable, listeners, lost, notices, unsent, recent, stream, origin, dropped>>
    BY <1>2, <1>5 DEF Prune
  <2>2. \A q \in Procs, x \in Events : notices[q][x] <= notices[q][x]
    BY <1>1 DEF BusTypeOK
  <2>3. QED BY <1>1, <2>1, <2>2, LosingStep DEF BusTypeOK
<1>6. QED BY <1>3, <1>4, <1>5

-----------------------------------------------------------------------------
(* Steps of one stream. What it is given when it is registered is no more  *)
(* than the buffer of its process has, and no less if it reads the buffer. *)
StreamFits(x) ==
  /\ x \in Stream /\ x.found = {}
  /\ x.pc = "replay" => x.since # NoId /\ hasOutbox
  /\ x.pc # "off" => x.proc \in Procs
  /\ \A e \in Events : e > published => x.got[e] = 0
  /\ x.pc = "on" => \A e \in Events :
       /\ x.got[e] <= Times(recent[x.proc], e)
       /\ (x.since = NoId \/ ~hasOutbox) /\ Ts(e) > x.since => x.got[e] >= Times(recent[x.proc], e)

LEMMA OneStream ==
  ASSUME BusInv, NEW b \in Browsers, NEW x, StreamFits(x), stream' = [stream EXCEPT ![b] = x],
         UNCHANGED <<published, rows, hasOutbox, lost, notices, unsent, recent, origin, dropped>>,
         durable' \in [Procs -> BOOLEAN], listeners' \in [Procs -> Nat], faults' \in 0..MaxFaults,
         \A p \in Procs : (durable'[p] => durable[p]) /\ listeners[p] <= listeners'[p]
  PROVE  BusInv'
<1>1. BusTypeOK
  BY DEF BusInv
<1>2. BusTypeOK'
  BY <1>1 DEF BusTypeOK, StreamFits
<1>3. \A c \in Browsers : stream'[c] = IF c = b THEN x ELSE stream[c]
  BY <1>1 DEF BusTypeOK
<1>4. \A p \in Procs, e \in Events : /\ Waiting(p, e) \in Nat /\ Own(p, e) \in Nat
                                     /\ Waiting(p, e)' = Waiting(p, e) /\ Own(p, e)' = Own(p, e)
                                     /\ Times(recent[p], e) \in Nat
                                     /\ listeners[p] \in Nat /\ listeners'[p] \in Nat /\ listeners[p] <= listeners'[p]
  <2> SUFFICES ASSUME NEW p \in Procs, NEW e \in Events
               PROVE  /\ Waiting(p, e) \in Nat /\ Own(p, e) \in Nat
                      /\ Waiting(p, e)' = Waiting(p, e) /\ Own(p, e)' = Own(p, e)
                      /\ Times(recent[p], e) \in Nat
                      /\ listeners[p] \in Nat /\ listeners'[p] \in Nat /\ listeners[p] <= listeners'[p]
    OBVIOUS
  <2>1. notices[p][e] \in Nat /\ Times(recent[p], e) \in Nat /\ listeners[p] \in Nat
    BY <1>1, TimesType DEF BusTypeOK
  <2>2. QED BY <2>1 DEF Waiting, Own
<1>5. FutureUnknown'
  BY <1>3 DEF BusInv, FutureUnknown, StreamFits
<1>6. BufferAccounted'
  <2> SUFFICES ASSUME NEW p \in Procs, NEW e \in Events
               PROVE  Times(recent[p], e) + Waiting(p, e) <= listeners'[p] + Own(p, e)
    BY <1>4 DEF BufferAccounted
  <2>1. Times(recent[p], e) + Waiting(p, e) <= listeners[p] + Own(p, e)
    BY DEF BusInv, BufferAccounted
  <2>2. QED BY <1>4, <2>1
<1>7. StreamAccounted'
  <2> SUFFICES ASSUME NEW c \in Browsers, NEW p \in Procs, NEW e \in Events, On(c, p)'
               PROVE  stream'[c].got[e] + Waiting(p, e) <= listeners'[p] + Own(p, e)
    BY <1>4 DEF StreamAccounted
  <2>1. stream'[c].got[e] \in Nat
    BY <1>2 DEF BusTypeOK, Stream
  <2>2. CASE c = b
    <3>1. stream'[c] = x /\ x.pc = "on" /\ x.proc = p
      BY <2>2, <1>3 DEF On
    <3>2. x.got[e] <= Times(recent[p], e)
      BY <3>1 DEF StreamFits
    <3>3. Times(recent[p], e) + Waiting(p, e) <= listeners[p] + Own(p, e)
      BY DEF BusInv, BufferAccounted
    <3>4. QED BY <1>4, <2>1, <3>1, <3>2, <3>3
  <2>3. CASE c # b
    <3>1. stream[c].got[e] + Waiting(p, e) <= listeners[p] + Own(p, e) /\ stream'[c] = stream[c]
      BY <2>3, <1>3 DEF BusInv, StreamAccounted, On
    <3>2. QED BY <1>4, <2>1, <3>1
  <2>4. QED BY <2>2, <2>3
<1>8. ReplayEmpty' /\ DurableNeedsOutbox'
  BY <1>3 DEF BusInv, ReplayEmpty, DurableNeedsOutbox, StreamFits
<1>9. BufferSeen'
  <2> SUFFICES ASSUME NEW c \in Browsers, NEW p \in Procs, On(c, p)',
                      stream'[c].since = NoId \/ ~hasOutbox, NEW e \in Events, Ts(e) > stream'[c].since
               PROVE  stream'[c].got[e] >= Times(recent[p], e)
    BY DEF BufferSeen, Ts
  <2>1. CASE c = b
    BY <2>1, <1>3 DEF On, StreamFits
  <2>2. CASE c # b
    BY <2>2, <1>3 DEF On, BusInv, BufferSeen
  <2>3. QED BY <2>1, <2>2
<1>10. QED BY <1>2, <1>5, <1>6, <1>7, <1>8, <1>9 DEF BusInv

LEMMA ClosedFits ==
  ASSUME BusTypeOK, NEW b \in Browsers
  PROVE  StreamFits(Closed(stream[b].last)) /\ Closed(stream[b].last).pc = "off"
<1>1. stream[b].last \in {NoId} \cup {Ts(e) : e \in Events}
  BY DEF BusTypeOK, Stream
<1>2. QED BY <1>1, BusBounds DEF StreamFits, Closed, Stream

(* A stream that is not registered, at another of the steps before.        *)
LEMMA MovesOn ==
  ASSUME BusInv, NEW b \in Browsers, NEW pc \in {"scope", "replay"}, stream[b].pc # "on", stream[b].pc # "off",
         pc = "replay" => stream[b].since # NoId /\ hasOutbox
  PROVE  StreamFits([stream[b] EXCEPT !.pc = pc])
BY DEF BusInv, BusTypeOK, FutureUnknown, ReplayEmpty, StreamFits, Stream

LEMMA ConnectStep ==
  ASSUME BusInv, NEW b \in Browsers, NEW p \in Procs, NEW since \in {stream[b].last, NoId}, Connect(b, p, since)
  PROVE  BusInv'
<1> DEFINE c == Closed(stream[b].last)
           x == [c EXCEPT !.pc = IF durable[p] /\ listeners[p] = 0 THEN "listen" ELSE "scope",
                          !.proc = p, !.since = since]
<1>1. BusTypeOK /\ StreamFits(c)
  BY ClosedFits DEF BusInv
<1>2. stream' = [stream EXCEPT ![b] = x] /\ UNCHANGED <<busVars, origin, dropped, faults>>
  BY DEF Connect
<1>3. since \in {NoId} \cup {Ts(e) : e \in Events}
  BY <1>1 DEF BusTypeOK, Stream
<1>4. StreamFits(x)
  <2> HIDE DEF c
  <2>1. c \in Stream /\ c.found = {} /\ \A e \in Events : e > published => c.got[e] = 0
    BY <1>1 DEF StreamFits
  <2>2. x \in Stream
    BY <2>1, <1>3 DEF Stream
  <2>3. x.found = c.found /\ x.got = c.got /\ x.pc \in {"listen", "scope"} /\ x.proc = p
    BY <2>1 DEF Stream
  <2> HIDE DEF x
  <2>4. QED BY <2>1, <2>2, <2>3 DEF StreamFits
<1> HIDE DEF x
<1>5. \A q \in Procs : listeners[q] <= listeners[q]
  BY <1>1 DEF BusTypeOK
<1>6. QED BY <1>1, <1>2, <1>4, <1>5, OneStream DEF BusTypeOK, busVars

LEMMA ListenStep ==
  ASSUME BusInv, NEW b \in Browsers, Listen(b)
  PROVE  BusInv'
<1>1. BusTypeOK /\ stream[b].pc = "listen" /\ stream[b].proc \in Procs
  BY DEF BusInv, ReplayEmpty, Listen
<1>2. StreamFits([stream[b] EXCEPT !.pc = "scope"])
  BY <1>1, MovesOn
<1>3. /\ stream' = [stream EXCEPT ![b] = [stream[b] EXCEPT !.pc = "scope"]]
      /\ listeners' = [listeners EXCEPT ![stream[b].proc] = @ + 1]
      /\ UNCHANGED <<published, rows, hasOutbox, durable, lost, notices, unsent, recent, origin, dropped, faults>>
  BY DEF Listen
<1>4. listeners' \in [Procs -> Nat] /\ \A p \in Procs : listeners[p] <= listeners'[p]
  BY <1>1, <1>3 DEF BusTypeOK
<1>5. QED BY <1>1, <1>2, <1>3, <1>4, OneStream DEF BusTypeOK

LEMMA ReplayStep ==
  ASSUME BusInv, NEW b \in Browsers, ListenFails(b) \/ ReplayQuery(b) \/ ReplayFails(b)
  PROVE  BusInv'
<1>1. BusTypeOK
  BY DEF BusInv
<1>2. \A p \in Procs : listeners[p] <= listeners[p]
  BY <1>1 DEF BusTypeOK
<1>3. Fault => faults' \in 0..MaxFaults
  BY <1>1, BusBounds DEF Fault, BusTypeOK
<1>4. CASE ListenFails(b)
  <2>1. stream[b].pc = "listen" /\ stream[b].proc \in Procs
    BY <1>4 DEF BusInv, ReplayEmpty, ListenFails
  <2>2. StreamFits([stream[b] EXCEPT !.pc = "scope"])
    BY <2>1, MovesOn
  <2>3. /\ stream' = [stream EXCEPT ![b] = [stream[b] EXCEPT !.pc = "scope"]]
        /\ durable' = [durable EXCEPT ![stream[b].proc] = FALSE]
        /\ UNCHANGED <<published, rows, hasOutbox, listeners, lost, notices, unsent, recent, origin, dropped>>
        /\ faults' \in 0..MaxFaults
    BY <1>3, <1>4 DEF ListenFails
  <2>4. durable' \in [Procs -> BOOLEAN] /\ \A p \in Procs : durable'[p] => durable[p]
    BY <1>1, <2>1, <2>3 DEF BusTypeOK
  <2>5. QED BY <1>1, <1>2, <2>2, <2>3, <2>4, OneStream DEF BusTypeOK
<1>5. CASE ReplayQuery(b) \/ ReplayFails(b)
  <2>1. stream[b].pc = "scope" /\ stream[b].proc \in Procs /\ stream[b].since # NoId /\ hasOutbox
    BY <1>5 DEF BusInv, ReplayEmpty, DurableNeedsOutbox, ReplayQuery, ReplayFails
  <2>2. StreamFits([stream[b] EXCEPT !.pc = "replay"])
    BY <2>1, MovesOn
  <2>3. {e \in rows : e > stream[b].since} = {} /\ stream[b].found = {}
    <3>1. PICK n \in Events : stream[b].since = Epoch + n
      BY <1>1, <2>1 DEF BusTypeOK, Stream, Ts
    <3>2. \A e \in rows : e \in 1..MaxEvents
      BY <1>1, BusBounds DEF BusTypeOK
    <3>3. \A e \in rows : ~(e > stream[b].since)
      BY <3>1, <3>2, BusBounds, BusClock DEF Events
    <3>4. QED BY <3>3 DEF BusInv, ReplayEmpty
  <2>4. [stream[b] EXCEPT !.pc = "replay", !.found = {}] = [stream[b] EXCEPT !.pc = "replay"]
    BY <1>1, <2>3 DEF BusTypeOK, Stream
  <2>5. /\ stream' = [stream EXCEPT ![b] = [stream[b] EXCEPT !.pc = "replay"]]
        /\ UNCHANGED <<published, rows, hasOutbox, durable, listeners, lost, notices, unsent, recent, origin, dropped>>
        /\ faults' \in 0..MaxFaults
    <3>1. CASE ReplayQuery(b)
      <4>1. stream' = [stream EXCEPT ![b] = [stream[b] EXCEPT !.pc = "replay", !.found = {}]]
        BY <3>1, <2>3, <1>1 DEF ReplayQuery, BusTypeOK
      <4>2. QED BY <4>1, <2>4, <3>1, <1>1 DEF ReplayQuery, busVars, BusTypeOK
    <3>2. CASE ReplayFails(b)
      BY <3>2, <1>3 DEF ReplayFails, busVars
    <3>3. QED BY <1>5, <3>1, <3>2
  <2>6. QED BY <1>1, <1>2, <2>2, <2>5, OneStream DEF BusTypeOK
<1>6. QED BY <1>4, <1>5

(* The handler is registered with what is replayed or buffered.            *)
Registered(s, got, last) ==
  [s EXCEPT !.pc = "on", !.found = {}, !.base = published, !.got = got, !.last = last]

LEMMA WriteStep ==
  ASSUME BusInv, NEW b \in Browsers, stream[b].pc # "off",
         NEW got \in [Events -> Nat], NEW last \in {NoId} \cup {Ts(e) : e \in Events}, Write(b, got, last),
         \A e \in Events : got[e] <= Times(recent[stream[b].proc], e),
         (stream[b].since = NoId \/ ~hasOutbox) => \A e \in Events : Ts(e) > stream[b].since =>
           got[e] >= Times(recent[stream[b].proc], e),
         UNCHANGED <<busVars, origin, dropped, faults>>
  PROVE  BusInv'
<1> DEFINE x == Registered(stream[b], got, last)
<1>1. BusTypeOK /\ stream[b].proc \in Procs /\ stream[b] \in Stream /\ published \in 0..MaxEvents
  BY DEF BusInv, ReplayEmpty, BusTypeOK
<1>2. /\ x \in Stream /\ x.pc = "on" /\ x.found = {} /\ x.got = got
      /\ x.proc = stream[b].proc /\ x.since = stream[b].since
  <2> HIDE DEF Ts
  <2>1. QED BY <1>1 DEF Stream, Registered
<1>3. stream' = [stream EXCEPT ![b] = x]
  BY <1>1 DEF Write, Registered, BusTypeOK, Stream
<1> HIDE DEF x
<1>4. \A e \in Events : e > published => got[e] = 0
  <2> SUFFICES ASSUME NEW e \in Events, e > published PROVE got[e] = 0
    OBVIOUS
  <2>1. Times(recent[stream[b].proc], e) = 0
    BY <1>1 DEF BusInv, FutureUnknown
  <2>2. got[e] \in Nat /\ got[e] <= 0
    BY <2>1
  <2>3. QED BY <2>2
<1>5. StreamFits(x)
  BY <1>1, <1>2, <1>4 DEF StreamFits
<1>6. \A p \in Procs : listeners[p] <= listeners[p]
  BY <1>1 DEF BusTypeOK
<1>7. QED BY <1>1, <1>3, <1>5, <1>6, OneStream DEF BusTypeOK, busVars

LEMMA RegisterReplayedStep ==
  ASSUME BusInv, NEW b \in Browsers, RegisterReplayed(b)
  PROVE  BusInv'
<1> DEFINE got == [e \in Events |-> 0]
<1>1. /\ BusTypeOK /\ stream[b].pc = "replay" /\ stream[b].found = {}
      /\ stream[b].since # NoId /\ hasOutbox /\ stream[b].proc \in Procs
  BY DEF BusInv, ReplayEmpty, RegisterReplayed
<1>2. [e \in Events |-> IF e \in stream[b].found THEN 1 ELSE 0] = got
  BY <1>1
<1>3. got \in [Events -> Nat] /\ stream[b].last \in {NoId} \cup {Ts(e) : e \in Events}
  BY <1>1 DEF BusTypeOK, Stream
<1>4. \A e \in Events : got[e] <= Times(recent[stream[b].proc], e)
  <2>1. recent[stream[b].proc] \in Seq(Events)
    BY <1>1 DEF BusTypeOK
  <2>2. \A e \in Events : Times(recent[stream[b].proc], e) \in Nat
    BY <2>1, TimesType
  <2>3. QED BY <2>2
<1>5. Write(b, got, stream[b].last) /\ UNCHANGED <<busVars, origin, dropped, faults>>
  BY <1>1, <1>2 DEF RegisterReplayed
<1> HIDE DEF got
<1>6. QED BY <1>1, <1>3, <1>4, <1>5, WriteStep

LEMMA RegisterBufferedStep ==
  ASSUME BusInv, NEW b \in Browsers, RegisterBuffered(b)
  PROVE  BusInv'
<1> DEFINE buffer == recent[stream[b].proc]
           Where(e) == {i \in Buffered(b) : buffer[i] = e}
           got == [e \in Events |-> Cardinality(Where(e))]
           last == IF Buffered(b) = {} THEN stream[b].last ELSE Ts(buffer[Highest(Buffered(b))])
<1>1. /\ BusTypeOK /\ stream[b].pc = "scope" /\ stream[b].proc \in Procs /\ buffer \in Seq(Events)
      /\ stream[b].last \in {NoId} \cup {Ts(e) : e \in Events}
  BY DEF BusInv, BusTypeOK, ReplayEmpty, RegisterBuffered, Stream
<1>2. Write(b, got, last) /\ UNCHANGED <<busVars, origin, dropped, faults>>
  BY DEF RegisterBuffered
<1>3. /\ Buffered(b) = {i \in DOMAIN buffer : Ts(buffer[i]) > stream[b].since}
      /\ IsFiniteSet(Buffered(b)) /\ Buffered(b) \subseteq DOMAIN buffer /\ Buffered(b) \subseteq Nat
  <2>1. Buffered(b) = {i \in DOMAIN buffer : Ts(buffer[i]) > stream[b].since}
    BY DEF Buffered
  <2>2. IsFiniteSet(1..Len(buffer)) /\ DOMAIN buffer = 1..Len(buffer) /\ Len(buffer) \in Nat
    <3> HIDE DEF buffer
    <3>1. DOMAIN buffer = 1..Len(buffer) /\ Len(buffer) \in Nat
      BY <1>1
    <3>2. QED BY <3>1, FS_Interval
  <2>3. QED BY <2>1, <2>2, FS_Subset
<1>4. last \in {NoId} \cup {Ts(e) : e \in Events}
  <2>1. CASE Buffered(b) # {}
    <3>1. Highest(Buffered(b)) \in Buffered(b)
      <4>1. PICK m \in Buffered(b) : \A i \in Buffered(b) : i <= m
        BY <1>3, <2>1, MaxExists
      <4>2. QED BY <4>1, Zenon DEF Highest
    <3>2. buffer[Highest(Buffered(b))] \in Events
      <4>1. Highest(Buffered(b)) \in DOMAIN buffer
        BY <1>3, <3>1
      <4> HIDE DEF buffer
      <4>2. \A i \in DOMAIN buffer : buffer[i] \in Events
        BY <1>1
      <4>3. QED BY <4>1, <4>2
    <3>3. QED BY <2>1, <3>2
  <2>2. QED BY <1>1, <2>1
<1>5. \A e \in Events : /\ Cardinality(Where(e)) \in Nat
                        /\ Cardinality(Where(e)) <= Times(buffer, e)
                        /\ Ts(e) > stream[b].since => Cardinality(Where(e)) = Times(buffer, e)
  <2> SUFFICES ASSUME NEW e \in Events
               PROVE  /\ Cardinality(Where(e)) \in Nat
                      /\ Cardinality(Where(e)) <= Times(buffer, e)
                      /\ Ts(e) > stream[b].since => Cardinality(Where(e)) = Times(buffer, e)
    OBVIOUS
  <2> DEFINE T == {i \in DOMAIN buffer : buffer[i] = e}
  <2>1. IsFiniteSet(T) /\ Times(buffer, e) = Cardinality(T)
    BY <1>1, TimesType DEF Times
  <2>2. Where(e) \subseteq T
    BY <1>3
  <2>3. Ts(e) > stream[b].since => Where(e) = T
    BY <1>3
  <2> HIDE DEF T, Where
  <2>4. QED BY <2>1, <2>2, <2>3, FS_Subset, FS_CardinalityType
<1>6. /\ got \in [Events -> Nat]
      /\ \A e \in Events : got[e] <= Times(buffer, e) /\ (Ts(e) > stream[b].since => got[e] = Times(buffer, e))
  <2> HIDE DEF Where, buffer
  <2>1. QED BY <1>5
<1>7. \A e \in Events : got[e] \in Nat /\ (Ts(e) > stream[b].since => got[e] >= Times(buffer, e))
  <2>1. \A e \in Events : got[e] \in Nat
    BY <1>6
  <2> HIDE DEF got, buffer
  <2>2. QED BY <1>6, <2>1
<1> HIDE DEF got, last, Ts
<1>8. QED BY <1>1, <1>2, <1>4, <1>6, <1>7, WriteStep

LEMMA DisconnectStep ==
  ASSUME BusInv, NEW b \in Browsers, Disconnect(b)
  PROVE  BusInv'
<1>1. BusTypeOK /\ StreamFits(Closed(stream[b].last))
  BY ClosedFits DEF BusInv
<1>2. stream' = [stream EXCEPT ![b] = Closed(stream[b].last)] /\ UNCHANGED <<busVars, origin, dropped, faults>>
  BY <1>1 DEF Disconnect, BusTypeOK
<1>3. \A p \in Procs : listeners[p] <= listeners[p]
  BY <1>1 DEF BusTypeOK
<1> HIDE DEF Closed
<1>4. QED BY <1>1, <1>2, <1>3, OneStream DEF BusTypeOK, busVars

(* A restart takes the streams of the process with everything it counted.  *)
LEMMA RestartStep ==
  ASSUME BusInv, NEW p \in Procs, Restart(p)
  PROVE  BusInv'
<1> USE BusBounds
<1>1. BusTypeOK
  BY DEF BusInv
<1>2. \A b \in Browsers : /\ stream'[b] = IF stream[b].proc = p THEN Closed(stream[b].last) ELSE stream[b]
                          /\ stream'[b] \in Stream /\ StreamFits(Closed(stream[b].last))
                          /\ Closed(stream[b].last).pc = "off"
  <2> SUFFICES ASSUME NEW b \in Browsers
               PROVE  /\ stream'[b] = IF stream[b].proc = p THEN Closed(stream[b].last) ELSE stream[b]
                      /\ stream'[b] \in Stream /\ StreamFits(Closed(stream[b].last))
                      /\ Closed(stream[b].last).pc = "off"
    OBVIOUS
  <2>1. stream'[b] = IF stream[b].proc = p THEN Closed(stream[b].last) ELSE stream[b]
    BY DEF Restart
  <2>2. StreamFits(Closed(stream[b].last)) /\ Closed(stream[b].last).pc = "off"
    BY <1>1, ClosedFits
  <2>3. stream[b] \in Stream /\ Closed(stream[b].last) \in Stream
    BY <1>1, <2>2 DEF BusTypeOK, StreamFits
  <2>4. QED BY <2>1, <2>2, <2>3
<1>3. /\ recent' = [recent EXCEPT ![p] = <<>>] /\ notices' = [notices EXCEPT ![p] = [e \in Events |-> 0]]
      /\ unsent' = [unsent EXCEPT ![p] = {}] /\ listeners' = [listeners EXCEPT ![p] = 0]
      /\ lost' = [lost EXCEPT ![p] = FALSE] /\ durable' = [durable EXCEPT ![p] = hasOutbox]
      /\ DOMAIN stream' = Browsers /\ faults' \in 0..MaxFaults
      /\ UNCHANGED <<published, rows, hasOutbox, origin, dropped>>
  BY <1>1 DEF Restart, Fault, BusTypeOK
<1>4. BusTypeOK'
  <2>1. stream' \in [Browsers -> Stream]
    BY <1>2 DEF Restart
  <2>2. recent' \in [Procs -> Seq(Events)] /\ \A q \in Procs : Len(recent'[q]) <= RecentMax
    BY <1>1, <1>3 DEF BusTypeOK
  <2>3. notices' \in [Procs -> [Events -> Nat]] /\ unsent' \in [Procs -> SUBSET Events]
    BY <1>1, <1>3 DEF BusTypeOK
  <2>4. QED BY <1>1, <1>3, <2>1, <2>2, <2>3 DEF BusTypeOK
<1>5. \A e : Times(<<>>, e) = 0
  <2>1. <<>> \in Seq(Events) /\ DOMAIN <<>> = {}
    OBVIOUS
  <2>2. QED BY <2>1, TimesType
<1>6. \A e \in Events : /\ Times(recent'[p], e) = 0 /\ Waiting(p, e)' = 0 /\ listeners'[p] = 0
                        /\ notices'[p][e] = 0 /\ e \notin unsent'[p]
  BY <1>1, <1>3, <1>5 DEF BusTypeOK, Waiting
<1>7. \A q \in Procs : q # p =>
        /\ recent'[q] = recent[q] /\ notices'[q] = notices[q] /\ unsent'[q] = unsent[q]
        /\ listeners'[q] = listeners[q] /\ \A e \in Events : Waiting(q, e)' = Waiting(q, e)
  BY <1>1, <1>3 DEF BusTypeOK, Waiting
<1>8. \A q \in Procs, e \in Events : Own(q, e)' = Own(q, e) /\ Own(q, e) \in Nat
  BY <1>3 DEF Own
<1>9. FutureUnknown'
  <2> SUFFICES ASSUME NEW e \in Events, e > published
               PROVE  /\ \A q \in Procs : notices'[q][e] = 0 /\ e \notin unsent'[q] /\ Times(recent'[q], e) = 0
                      /\ \A b \in Browsers : stream'[b].got[e] = 0
    BY <1>3 DEF FutureUnknown
  <2>1. \A q \in Procs : notices'[q][e] = 0 /\ e \notin unsent'[q] /\ Times(recent'[q], e) = 0
    BY <1>6, <1>7 DEF BusInv, FutureUnknown
  <2>2. \A b \in Browsers : stream'[b].got[e] = 0
    BY <1>2 DEF BusInv, FutureUnknown, StreamFits
  <2>3. QED BY <2>1, <2>2
<1>10. BufferAccounted'
  <2> SUFFICES ASSUME NEW q \in Procs, NEW e \in Events
               PROVE  Times(recent'[q], e) + Waiting(q, e)' <= listeners'[q] + Own(q, e)'
    BY DEF BufferAccounted
  <2>1. CASE q = p
    BY <2>1, <1>6, <1>8
  <2>2. CASE q # p
    BY <2>2, <1>7, <1>8 DEF BusInv, BufferAccounted
  <2>3. QED BY <2>1, <2>2
<1>11. \A b \in Browsers, q \in Procs : On(b, q)' => q # p /\ On(b, q) /\ stream'[b] = stream[b]
  BY <1>2 DEF On
<1>12. StreamAccounted'
  <2> SUFFICES ASSUME NEW b \in Browsers, NEW q \in Procs, NEW e \in Events, On(b, q)'
               PROVE  stream'[b].got[e] + Waiting(q, e)' <= listeners'[q] + Own(q, e)'
    BY DEF StreamAccounted
  <2>1. q # p /\ On(b, q) /\ stream'[b] = stream[b]
    BY <1>11
  <2>2. stream[b].got[e] + Waiting(q, e) <= listeners[q] + Own(q, e)
    BY <2>1 DEF BusInv, StreamAccounted
  <2>3. QED BY <2>1, <2>2, <1>7, <1>8
<1>13. ReplayEmpty'
  BY <1>2, <1>3 DEF BusInv, ReplayEmpty, StreamFits
<1>14. DurableNeedsOutbox'
  BY <1>1, <1>3 DEF BusInv, DurableNeedsOutbox, BusTypeOK
<1>15. BufferSeen'
  <2> SUFFICES ASSUME NEW b \in Browsers, NEW q \in Procs, On(b, q)',
                      stream'[b].since = NoId \/ ~hasOutbox, NEW e \in Events, Ts(e) > stream'[b].since
               PROVE  stream'[b].got[e] >= Times(recent'[q], e)
    BY <1>3 DEF BufferSeen, Ts
  <2>1. q # p /\ On(b, q) /\ stream'[b] = stream[b] /\ recent'[q] = recent[q]
    BY <1>7, <1>11
  <2>2. QED BY <2>1 DEF BusInv, BufferSeen
<1>16. QED BY <1>4, <1>9, <1>10, <1>12, <1>13, <1>14, <1>15 DEF BusInv

-----------------------------------------------------------------------------
(* Every step keeps the invariant.                                         *)
LEMMA BusInvStep == BusInv /\ [BusNext]_liveVars => BusInv'
<1> SUFFICES ASSUME BusInv, [BusNext]_liveVars PROVE BusInv'
  OBVIOUS
<1>1. CASE \E p \in Procs : PublishInsert(p)
  BY <1>1, PublishInsertStep
<1>2. CASE \E p \in Procs : PublishInMemory(p)
  BY <1>2, PublishInMemoryStep
<1>3. CASE \E p \in Procs : Restart(p)
  BY <1>3, RestartStep
<1>4. CASE \E p \in Procs, e \in Events : PublishEmit(p, e)
  BY <1>4, PublishEmitStep
<1>5. CASE \E p \in Procs, e \in Events : Notified(p, e)
  BY <1>5, NotifiedStep
<1>6. CASE \/ \E p \in Procs : ListenerLost(p)
           \/ \E p \in Procs, e \in Events : NoticeDropped(p, e)
           \/ \E e \in Events : Prune(e)
  BY <1>6, LosesStep
<1>7. CASE \E b \in Browsers, p \in Procs : \E since \in {stream[b].last, NoId} : Connect(b, p, since)
  BY <1>7, ConnectStep
<1>8. CASE \E b \in Browsers : Listen(b)
  BY <1>8, ListenStep
<1>9. CASE \E b \in Browsers : ListenFails(b) \/ ReplayQuery(b) \/ ReplayFails(b)
  BY <1>9, ReplayStep
<1>10. CASE \E b \in Browsers : RegisterReplayed(b)
  BY <1>10, RegisterReplayedStep
<1>11. CASE \E b \in Browsers : RegisterBuffered(b)
  BY <1>11, RegisterBufferedStep
<1>12. CASE \E b \in Browsers : Disconnect(b)
  BY <1>12, DisconnectStep
<1>13. CASE UNCHANGED liveVars
  BY <1>13 DEF liveVars, busVars, BusInv, BusTypeOK, FutureUnknown, BufferAccounted, StreamAccounted,
               ReplayEmpty, DurableNeedsOutbox, BufferSeen, Waiting, Own, On
<1>14. QED BY <1>1, <1>2, <1>3, <1>4, <1>5, <1>6, <1>7, <1>8, <1>9, <1>10, <1>11, <1>12, <1>13 DEF BusNext

LEMMA BusInvAlways == BusSpec => []BusInv
BY BusInvInit, BusInvStep, PTL DEF BusSpec

(* Every variable of the bus keeps its type: no buffer grows beyond its    *)
(* limit, no row of an event that was never published is in the outbox.    *)
THEOREM BusTyped == BusSpec => []BusTypeOK
<1>1. BusInv => BusTypeOK
  BY DEF BusInv
<1>2. QED BY <1>1, BusInvAlways, PTL

(* No stream gets an event more often than its process LISTENs, once more  *)
(* if the process published it.                                            *)
THEOREM DuplicatesStayBounded == BusSpec => []DuplicatesBounded
<1>1. BusInv => DuplicatesBounded
  <2> SUFFICES ASSUME BusInv, NEW b \in Browsers, NEW p \in Procs, NEW e \in Events, On(b, p)
               PROVE  stream[b].got[e] <= listeners[p] + Own(p, e)
    BY DEF DuplicatesBounded, Own
  <2>1. stream[b].got[e] + Waiting(p, e) <= listeners[p] + Own(p, e)
    BY DEF BusInv, StreamAccounted
  <2>2. stream[b].got[e] \in Nat /\ notices[p][e] \in Nat /\ listeners[p] \in Nat
    BY DEF BusInv, BusTypeOK, Stream
  <2>3. Waiting(p, e) \in Nat /\ Own(p, e) \in Nat
    BY <2>2 DEF Waiting, Own
  <2>4. QED BY <2>1, <2>2, <2>3
<1>2. QED BY <1>1, BusInvAlways, PTL

(* A stream opened without an id, or where there is no outbox, has every   *)
(* event the buffer of its process holds and its browser had not seen.     *)
THEOREM NothingBetweenBufferAndHandler == BusSpec => []BufferSeen
<1>1. BusInv => BufferSeen
  BY DEF BusInv
<1>2. QED BY <1>1, BusInvAlways, PTL
=============================================================================
