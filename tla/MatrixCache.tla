----------------------------- MODULE MatrixCache -----------------------------
(***************************************************************************)
(* The travel matrix of the planner (services/routesMatrix): the cells of  *)
(* a map of origins and destinations are looked up in a table keyed by     *)
(* geohash cell, what is missing is asked of the Routes API in chunks, and *)
(* what cannot be had is estimated.  Several requests share the table; its *)
(* rows lapse, are purged, and have their polyline added afterwards.       *)
(*                                                                         *)
(* A figure (seconds, metres) is the two points, the moment it was measured *)
(* for and where its seconds are from: a drive, the 0 that stands for an    *)
(* element the API returned without a duration, or an estimate.  A bucket is hour bucket, day type and routing preference *)
(* together.  Every caller passes the points of one day: they have         *)
(* coordinates, and there are never more of them than MaxElements (the     *)
(* splitting of computeMatrix would not end with more origins than that).  *)
(***************************************************************************)
EXTENDS Integers, Sequences, SequencesExt, Functions

CONSTANTS
  Requests,     \* calls of computeMatrixCached
  Cell,         \* geohash cell of each point
  Buckets,      \* keys a request may have besides the cells
  Queries,      \* what may be asked: [from, to, polylines]
  NoRoute,      \* pairs of cells Google may answer without a duration
  MaxElements,  \* MAX_ELEMENTS_PER_CALL
  Ttl,          \* CACHE_TTL_DAYS
  MaxTime,      \* bound on the calendar
  Nothing       \* no row, no result

(* A query is two lists of points.                                         *)
ASSUME MatrixQueries ==
  Queries \subseteq [from : Seq(DOMAIN Cell), to : Seq(DOMAIN Cell), polylines : BOOLEAN]

ASSUME MatrixSizes == MaxElements \in Nat \ {0} /\ Ttl \in Nat /\ MaxTime \in Nat

VARIABLES
  now,    \* the clock, in days
  cache,  \* route_matrix_cache, by bucket and pair of cells
  req     \* what each request has asked, read and got

cacheVars == <<now, cache, req>>

-----------------------------------------------------------------------------
Keys == Range(Cell) \X Range(Cell)

Distinct(s) == FoldLeft(LAMBDA seen, x : IF Contains(seen, x) THEN seen ELSE Append(seen, x),
                        <<>>, s)

Seconds == {"drive", "zero", "estimate"}

Figure == [flag : {"cached", "fresh", "estimated"}, seconds : Seconds, from : DOMAIN Cell,
          to : DOMAIN Cell, at : 0..MaxTime, polyline : BOOLEAN]

Row == [from : DOMAIN Cell, to : DOMAIN Cell, at : 0..MaxTime, seconds : Seconds,
        polyline : BOOLEAN, expires : 0..(MaxTime + Ttl)]

Unasked == [pc |-> "idle", query |-> Nothing, bucket |-> Nothing, begun |-> 0, known |-> <<>>,
            uncached |-> {}, origins |-> <<>>, dests |-> <<>>, next |-> 1, results |-> {}, answer |-> <<>>]

CacheTypeOK ==
  /\ now \in 0..MaxTime
  /\ cache \in [Buckets -> [Keys -> Row \cup {Nothing}]]
  /\ \A r \in Requests :
       /\ req[r].pc \in {"idle", "asked", "fetching", "answered", "refused"}
       /\ req[r].query \in Queries \cup {Nothing}
       /\ Range(req[r].known) \subseteq Figure
       /\ \A x \in req[r].results : x.entry \in Figure
       /\ Range(req[r].answer) \subseteq Figure

CacheInit ==
  /\ now = 0
  /\ cache = [b \in Buckets |-> [k \in Keys |-> Nothing]]
  /\ req = [r \in Requests |-> Unasked]

-----------------------------------------------------------------------------
(* The pairs of a request, as cells.                                       *)

From(r) == req[r].query.from
To(r) == req[r].query.to

Pairs(r) == (DOMAIN From(r)) \X (DOMAIN To(r))

KeyOf(r, p) == <<Cell[From(r)[p[1]]], Cell[To(r)[p[2]]]>>

\* Pairs of one pair of cells are asked once, in the order of the rows.
UniquePairs(r) ==
  LET n == Len(To(r))
  IN  Distinct([x \in 1..(Len(From(r)) * n) |->
                  KeyOf(r, <<((x - 1) \div n) + 1, ((x - 1) % n) + 1>>)])

\* The cells at one end of the pairs that are missing, once each.
Ends(pairs, missing, n) ==
  FoldLeft(LAMBDA seen, k : IF k \notin missing \/ Contains(seen, k[n]) THEN seen
                            ELSE Append(seen, k[n]),
           <<>>, pairs)

\* The point that stands for a cell.
FirstIn(points, cell) ==
  points[CHOOSE i \in DOMAIN points :
           /\ Cell[points[i]] = cell
           /\ \A j \in 1..(i - 1) : Cell[points[j]] # cell]

Estimated(from, to) ==
  [flag |-> "estimated", seconds |-> "estimate", from |-> from, to |-> to, at |-> now,
   polyline |-> FALSE]

\* The flag tells an estimate from an answer.
Marked(e) == e.flag = "estimated" <=> e.seconds = "estimate"

\* A pair without result is estimated between its own points.
Projected(r, found) ==
  [p \in Pairs(r) |->
     IF KeyOf(r, p) \in DOMAIN found THEN found[KeyOf(r, p)]
     ELSE Estimated(From(r)[p[1]], To(r)[p[2]])]

-----------------------------------------------------------------------------
Ask(r) ==
  /\ req[r].pc = "idle"
  /\ \E q \in Queries, b \in Buckets :
       req' = [req EXCEPT ![r].pc = "asked", ![r].query = q, ![r].bucket = b,
                          ![r].begun = now]
  /\ UNCHANGED <<now, cache>>

InDate(b, k) == cache[b][k] # Nothing /\ cache[b][k].expires > now

\* One query for all pairs; a row without the polyline the caller wants is
\* asked for again.
ReadCache(r) ==
  LET rows == cache[req[r].bucket]
      asked == UniquePairs(r)
      hits == {k \in Range(asked) : InDate(req[r].bucket, k)}
      known == [k \in hits |-> [flag |-> "cached", seconds |-> rows[k].seconds,
                                from |-> rows[k].from, to |-> rows[k].to,
                                at |-> rows[k].at, polyline |-> rows[k].polyline]]
      missing == {k \in Range(asked) :
                    k \notin hits \/ (req[r].query.polylines /\ ~rows[k].polyline)}
  IN  /\ req[r].pc = "asked"
      /\ req' = [req EXCEPT ![r] =
           IF missing = {}
             THEN [@ EXCEPT !.pc = "answered", !.answer = Projected(r, known)]
             ELSE [@ EXCEPT !.pc = "fetching", !.known = known, !.uncached = missing,
                            !.origins = Ends(asked, missing, 1),
                            !.dests = Ends(asked, missing, 2)]]
      /\ UNCHANGED <<now, cache>>

\* computeMatrix splits the destinations, so that no call is too large.
ChunkSize(r) == Max({1, MaxElements \div Len(req[r].origins)})

Chunk(r) == 1..Min({ChunkSize(r), Len(req[r].dests) - req[r].next + 1})

\* Mutant: the index within the chunk is not moved to its place.
Unshifted(r, d) == d

\* A destination's index within its chunk, moved to its place in the whole.
Shifted(r, d) == d + req[r].next - 1

\* What one call gives for the pairs of its chunk that have seconds, at the
\* places it is kept; only a drive has a line.
Fetched(r, secs, flag, line) ==
  { [origin |-> w[1], dest |-> Shifted(r, w[2]),
     entry |-> [flag |-> flag, seconds |-> secs[w], at |-> now,
                polyline |-> line /\ secs[w] = "drive",
                from |-> FirstIn(From(r), req[r].origins[w[1]]),
                to |-> FirstIn(To(r), req[r].dests[w[2] + req[r].next - 1])]] : w \in DOMAIN secs }

Fetching(r) == req[r].pc = "fetching" /\ req[r].next <= Len(req[r].dests)

Whole(r) == (DOMAIN req[r].origins) \X Chunk(r)

\* What may come back for an element; without a duration it is 0 seconds.
Durations(r, w) ==
  IF <<req[r].origins[w[1]], req[r].dests[w[2] + req[r].next - 1]>> \in NoRoute
    THEN {"drive", "zero"} ELSE {"drive"}

\* Google answers, for all pairs of the chunk or for some.
FetchChunk(r) ==
  /\ Fetching(r)
  /\ \E part \in SUBSET Whole(r) : \E secs \in [part -> {"drive", "zero"}] :
       /\ \A w \in part : secs[w] \in Durations(r, w)
       /\ req' = [req EXCEPT
            ![r].results = @ \cup Fetched(r, secs, "fresh", req[r].query.polylines),
            ![r].next = @ + ChunkSize(r)]
  /\ UNCHANGED <<now, cache>>

\* The call fails: its chunk is estimated.
FallBack(r) ==
  /\ Fetching(r)
  /\ req' = [req EXCEPT ![r].results = @ \cup
                          Fetched(r, [w \in Whole(r) |-> "estimate"], "estimated", FALSE),
                        ![r].next = @ + ChunkSize(r)]
  /\ UNCHANGED <<now, cache>>

\* The budget guard throws out of the whole request, whatever was fetched.
Refused(r) ==
  /\ Fetching(r)
  /\ req' = [req EXCEPT ![r] = [Unasked EXCEPT !.pc = "refused"]]
  /\ UNCHANGED <<now, cache>>

\* resultByOD, for the pairs that were asked.
Results(r) ==
  LET of(k) == {x \in req[r].results : /\ req[r].origins[x.origin] = k[1]
                                       /\ req[r].dests[x.dest] = k[2]}
      got == {k \in req[r].uncached : of(k) # {}}
  IN  [k \in got |-> (CHOOSE x \in of(k) : TRUE).entry]

\* Mutant: estimates are kept too.
ToCacheAll(found) == DOMAIN found

\* Estimates are not kept.
ToCache(found) == {k \in DOMAIN found : found[k].flag = "fresh"}

Written(r, found) ==
  [cache EXCEPT ![req[r].bucket] =
     [k \in Keys |->
        IF k \in ToCache(found)
          THEN [from |-> found[k].from, to |-> found[k].to, at |-> found[k].at,
                seconds |-> found[k].seconds, polyline |-> found[k].polyline,
                expires |-> now + Ttl]
          ELSE cache[req[r].bucket][k]]]

\* What was fetched replaces what was read, is written to the table (unless
\* that fails, which is only logged) and is projected back to the pairs.
Deliver(r) ==
  LET found == Results(r)
      all == [k \in DOMAIN found \cup DOMAIN req[r].known |->
                IF k \in DOMAIN found THEN found[k] ELSE req[r].known[k]]
  IN  /\ req[r].pc = "fetching"
      /\ req[r].next > Len(req[r].dests)
      /\ cache' \in {cache, Written(r, found)}
      /\ req' = [req EXCEPT ![r] = [Unasked EXCEPT !.pc = "answered", !.query = req[r].query,
                                                   !.answer = Projected(r, all)]]
      /\ UNCHANGED now

\* persistPolyline: the row of an arc gets the polyline of a route, if it is
\* still there, and keeps its figures and its date.
PersistPolyline(b, k) ==
  /\ cache[b][k] # Nothing
  /\ ~cache[b][k].polyline
  /\ cache' = [cache EXCEPT ![b][k].polyline = TRUE]
  /\ UNCHANGED <<now, req>>

PurgeExpired ==
  /\ cache' = [b \in Buckets |-> [k \in Keys |->
                 IF cache[b][k] # Nothing /\ cache[b][k].expires < now THEN Nothing
                 ELSE cache[b][k]]]
  /\ UNCHANGED <<now, req>>

\* A request is cut off by the platform long before it has lasted a day.
DayPasses ==
  /\ now < MaxTime
  /\ \A r \in Requests : req[r].pc \in {"asked", "fetching"} => req[r].begun = now
  /\ now' = now + 1
  /\ UNCHANGED <<cache, req>>

CacheNext ==
  \/ \E r \in Requests :
       \/ Ask(r) \/ ReadCache(r)
       \/ FetchChunk(r) \/ FallBack(r) \/ Refused(r) \/ Deliver(r)
  \/ \E b \in Buckets, k \in Keys : PersistPolyline(b, k)
  \/ PurgeExpired
  \/ DayPasses

CacheSpec == CacheInit /\ [][CacheNext]_cacheVars

-----------------------------------------------------------------------------
\* Every pair is answered with a figure between points of its own two cells,
\* through deduplication, chunks, missing results and the cache: a matrix is
\* read by index, and a figure in the wrong place goes unnoticed.
AnswersMatch ==
  \A r \in Requests : req[r].pc = "answered" =>
    \A p \in Pairs(r) :
      <<Cell[req[r].answer[p].from], Cell[req[r].answer[p].to]>> = KeyOf(r, p)

\* Estimates can be told from what Google answered, however many requests
\* share the table: what it offers is an answer about its own two cells, given
\* no longer ago than a row may live, and a pair of a matrix is flagged
\* 'estimated' exactly if its seconds were.  The 0 of a pair without a route is
\* an answer here: it is offered like a drive until its row lapses.
OffersAnswers ==
  /\ \A b \in Buckets, k \in Keys : InDate(b, k) =>
       /\ cache[b][k].seconds # "estimate"
       /\ cache[b][k].at >= now - Ttl
       /\ <<Cell[cache[b][k].from], Cell[cache[b][k].to]>> = k
  /\ \A r \in Requests : req[r].pc = "answered" =>
       \A p \in Pairs(r) : Marked(req[r].answer[p])
=============================================================================
