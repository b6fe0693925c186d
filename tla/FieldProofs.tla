---------------------------- MODULE FieldProofs ----------------------------
(***************************************************************************)
(* What reps bring from the field and what becomes of it: visits and       *)
(* territory assignments, decisions on what they report, and links to      *)
(* their accounts; for any assignments, pharmacies, reps, keys, items,     *)
(* links and requests in flight, however their reads and writes            *)
(* interleave.                                                             *)
(***************************************************************************)
EXTENDS FieldVisits, ReviewQueue, InvitationLinks, FiniteInduction, TLAPS

-----------------------------------------------------------------------------
(* Visits and territory assignments                                        *)

(* What a request holds at each of its steps. A stop it refers to is one   *)
(* of the pharmacy it visits.                                              *)

Outcomes == {"completed", "skipped"}

LinkedVisit == {v \in Visit : v.stop # NoStop => v.stop[2] = v.pharmacy}

AssignmentRow == [status: Statuses, rep: Visitors \cup {NoVisitor}]

Sub ==
  [pc: {"ready", "answered", "failed"}]
    \cup [pc: {"visit_already_today"}, visit: LinkedVisit]
    \cup [pc: {"checked", "looked", "inserted"}, visit: LinkedVisit, outcome: Outcomes]
    \cup [pc: {"counted"}, visit: LinkedVisit, outcome: Outcomes, completes: BOOLEAN]
    \cup [pc: {"status"}, a: Assignments, to: Statuses]
    \cup [pc: {"reassign"}, a: Assignments, rep: Visitors \cup {NoVisitor}, was: AssignmentRow]
    \cup [pc: {"add", "remove"}, s: AssignmentStops]

(* An assignment that a submission completes is that of its stop.          *)
CompletesOwn == \A q \in FieldRequests :
  sub[q].pc = "counted" /\ sub[q].completes => sub[q].visit.stop # NoStop

LinkedVerification == {r \in Verification : r.stop # NoStop => r.stop[2] = r.pharmacy}

RowsTyped ==
  /\ assignment \in [Assignments -> AssignmentRow]
  /\ stop \in [AssignmentStops -> StopStatuses]
  /\ visits \subseteq LinkedVisit
  /\ verif \subseteq LinkedVerification
  /\ IsFiniteSet(verif)

FieldTyping == RowsTyped /\ sub \in [FieldRequests -> Sub] /\ CompletesOwn

-----------------------------------------------------------------------------
(* The helpers. *)

LEMMA SubFields ==
  ASSUME NEW x \in Sub
  PROVE  /\ x.pc \in {"checked", "looked", "inserted", "counted"} =>
              x.visit \in LinkedVisit /\ x.outcome \in Outcomes
         /\ x.pc \in {"checked", "looked", "inserted"} =>
              x = [pc |-> x.pc, visit |-> x.visit, outcome |-> x.outcome]
         /\ x.pc = "counted" => x.completes \in BOOLEAN
         /\ x.pc = "status" => x.a \in Assignments /\ x.to \in Statuses
         /\ x.pc = "reassign" => x.a \in Assignments /\ x.rep \in Visitors \cup {NoVisitor}
                                 /\ x.was \in AssignmentRow
         /\ x.pc \in {"add", "remove"} => x.s \in AssignmentStops
BY DEF Sub

LEMMA NextAtType ==
  ASSUME verif \subseteq Verification, IsFiniteSet(verif)
  PROVE  NextAt \in Nat
<1> DEFINE T == {r.at : r \in verif}
<1>1. CASE verif = {}
  BY <1>1 DEF NextAt
<1>2. CASE verif # {}
  <2> DEFINE f == [r \in verif |-> r.at]
  <2>1. IsFiniteSet(T)
    <3>1. T = {f[r] : r \in verif}
      OBVIOUS
    <3> HIDE DEF f
    <3>2. QED BY <3>1, FiniteImage
  <2>2. T # {} /\ T \in SUBSET Nat
    BY <1>2 DEF Verification
  <2>3. PICK m \in T : \A n \in T : n <= m
    <3> HIDE DEF T
    <3>1. T \in SUBSET Int BY <2>2
    <3>2. QED BY <2>1, <2>2, <3>1, MaxExists
  <2>4. \A r \in verif : r.at <= m
    BY <2>3
  <2> DEFINE c == CHOOSE t \in T : \A r \in verif : r.at <= t
  <2>5. c \in T
    BY <2>3, <2>4
  <2>6. NextAt = 1 + c
    BY <1>2 DEF NextAt
  <2> HIDE DEF c
  <2>7. QED BY <2>2, <2>5, <2>6
<1>3. QED BY <1>1, <1>2

LEMMA VerificationsForType ==
  ASSUME NEW a \in Assignments, NEW rep \in Visitors, NEW places \in SUBSET Pharmacies, NEW at \in Nat
  PROVE  VerificationsFor(a, rep, places, at) \subseteq LinkedVerification
         /\ IsFiniteSet(VerificationsFor(a, rep, places, at))
<1> DEFINE f == [p \in places |-> [pharmacy |-> p, rep |-> rep, stop |-> <<a, p>>, of |-> {a},
                                   completed |-> FALSE, at |-> at]]
<1>1. VerificationsFor(a, rep, places, at) \subseteq LinkedVerification
  <2>1. ASSUME NEW p \in places PROVE f[p] \in LinkedVerification
    <3>1. f[p] \in Verification /\ f[p].stop = <<a, p>> /\ f[p].pharmacy = p
      BY DEF Verification, AssignmentStops
    <3> HIDE DEF f
    <3>2. QED BY <3>1 DEF LinkedVerification
  <2>2. VerificationsFor(a, rep, places, at) = {f[p] : p \in places}
    BY DEF VerificationsFor
  <2> HIDE DEF f
  <2>3. QED BY <2>1, <2>2
<1>2. IsFiniteSet(places)
  BY FiniteAssumption, FS_Subset
<1>3. IsFiniteSet(VerificationsFor(a, rep, places, at))
  <2>1. VerificationsFor(a, rep, places, at) = {f[p] : p \in places}
    BY DEF VerificationsFor
  <2> HIDE DEF f
  <2>2. QED BY <1>2, <2>1, FiniteImage
<1>4. QED BY <1>1, <1>3

(* A row that loses its reference to a stop keeps the rest.                *)
LEMMA UnlinkedVisit ==
  ASSUME NEW v \in LinkedVisit, NEW s
  PROVE  /\ Unlinked(v, s) \in LinkedVisit
         /\ Unlinked(v, s).pharmacy = v.pharmacy /\ Unlinked(v, s).rep = v.rep
         /\ Unlinked(v, s).key = v.key
         /\ Unlinked(v, s).stop = IF v.stop = s THEN NoStop ELSE v.stop
BY DEF Unlinked, LinkedVisit, Visit

LEMMA UnlinkedVerification ==
  ASSUME NEW r \in LinkedVerification, NEW s
  PROVE  /\ Unlinked(r, s) \in LinkedVerification
         /\ Unlinked(r, s).pharmacy = r.pharmacy /\ Unlinked(r, s).completed = r.completed
BY DEF Unlinked, LinkedVerification, Verification

(* A submission closes a verification of its pharmacy, or creates it, and  *)
(* leaves the others.                                                      *)
LEMMA SyncedVisitEffect ==
  ASSUME RowsTyped, NEW v \in LinkedVisit
  PROVE  /\ SyncedVisit(v) \subseteq LinkedVerification /\ IsFiniteSet(SyncedVisit(v))
         /\ \E r \in SyncedVisit(v) : r.completed /\ r.pharmacy = v.pharmacy
         /\ \A r \in verif : r.completed =>
              \E n \in SyncedVisit(v) : n.completed /\ n.pharmacy = r.pharmacy
<1> DEFINE found == VerificationOf(v)
           new == [pharmacy |-> v.pharmacy, rep |-> v.rep, stop |-> v.stop, of |-> {},
                   completed |-> TRUE, at |-> NextAt]
<1>0. verif \subseteq LinkedVerification /\ IsFiniteSet(verif)
  BY DEF RowsTyped
<1>1. CASE found = {}
  <2>1. SyncedVisit(v) = verif \cup {new}
    BY <1>1 DEF SyncedVisit
  <2>2. NextAt \in Nat
    BY <1>0, NextAtType DEF LinkedVerification
  <2>3. new \in LinkedVerification
    BY <2>2 DEF LinkedVisit, Visit, LinkedVerification, Verification
  <2>4. IsFiniteSet(verif \cup {new})
    BY <1>0, FS_AddElement
  <2>5. new.completed /\ new.pharmacy = v.pharmacy
    OBVIOUS
  <2> HIDE DEF new
  <2>6. QED BY <1>0, <2>1, <2>3, <2>4, <2>5
<1>2. CASE found # {}
  <2> DEFINE r == CHOOSE x \in found : TRUE
             closed == [r EXCEPT !.completed = TRUE]
  <2>1. r \in found
    BY <1>2
  <2>2. SyncedVisit(v) = (verif \ {r}) \cup {closed}
    BY <1>2 DEF SyncedVisit
  <2> HIDE DEF r
  <2>3. r \in verif /\ r.pharmacy = v.pharmacy
    <3>1. \A x \in found : x \in verif /\ x.pharmacy = v.pharmacy
      BY <1>0 DEF VerificationOf, Latest, LinkedVerification, LinkedVisit
    <3>2. QED BY <2>1, <3>1
  <2>4. closed \in LinkedVerification /\ closed.completed /\ closed.pharmacy = r.pharmacy
    BY <1>0, <2>3 DEF LinkedVerification, Verification
  <2> HIDE DEF closed
  <2>5. IsFiniteSet((verif \ {r}) \cup {closed})
    BY <1>0, FS_RemoveElement, FS_AddElement
  <2>6. \A x \in verif : x.completed =>
          \E n \in (verif \ {r}) \cup {closed} : n.completed /\ n.pharmacy = x.pharmacy
    BY <2>4
  <2>7. QED BY <1>0, <2>2, <2>3, <2>4, <2>5, <2>6
<1>3. QED BY <1>1, <1>2

-----------------------------------------------------------------------------
(* The inductive invariant: submissions that have inserted are apart from  *)
(* the visits that are stored and from each other, as the unique indexes   *)
(* make them wait for one another.                                         *)

EntriesApart ==
  /\ \A v, w \in visits : v # w => ~SameEntry(v, w)
  /\ \A q \in FieldRequests, w \in visits : Submitting(q) => ~SameEntry(sub[q].visit, w)
  /\ \A q, o \in FieldRequests :
       q # o /\ Submitting(q) /\ Submitting(o) => ~SameEntry(sub[q].visit, sub[o].visit)

FieldInv == FieldTyping /\ EntriesApart /\ StopsResolvedByVisits /\ VisitsVerified

LEMMA FieldInvInit == FieldInit => FieldInv
<1> SUFFICES ASSUME FieldInit PROVE FieldInv
  OBVIOUS
<1>1. visits = {} /\ sub = [q \in FieldRequests |-> Ready]
  BY DEF FieldInit
<1>2. PICK rep \in [Assignments -> Visitors \cup {NoVisitor}], places \in [Assignments -> SUBSET Pharmacies] :
        /\ assignment = [a \in Assignments |->
             [status |-> IF rep[a] = NoVisitor THEN "unassigned" ELSE "assigned", rep |-> rep[a]]]
        /\ stop = [s \in AssignmentStops |-> IF s[2] \in places[s[1]] THEN "pending" ELSE "none"]
        /\ verif = UNION {IF rep[a] = NoVisitor THEN {} ELSE VerificationsFor(a, rep[a], places[a], 1)
                          : a \in Assignments}
  BY DEF FieldInit
<1>3. assignment \in [Assignments -> AssignmentRow] /\ stop \in [AssignmentStops -> StopStatuses]
  BY <1>2 DEF AssignmentRow, Statuses, StopStatuses
<1> DEFINE f == [a \in Assignments |->
                  IF rep[a] = NoVisitor THEN {} ELSE VerificationsFor(a, rep[a], places[a], 1)]
           T == {f[a] : a \in Assignments}
<1>4. \A a \in Assignments : f[a] \subseteq LinkedVerification /\ IsFiniteSet(f[a])
  <2> SUFFICES ASSUME NEW a \in Assignments PROVE f[a] \subseteq LinkedVerification /\ IsFiniteSet(f[a])
    OBVIOUS
  <2>1. CASE rep[a] = NoVisitor
    BY <2>1, FS_EmptySet
  <2>2. CASE rep[a] # NoVisitor
    <3>1. rep[a] \in Visitors /\ places[a] \in SUBSET Pharmacies /\ 1 \in Nat
      BY <2>2
    <3>2. f[a] = VerificationsFor(a, rep[a], places[a], 1)
      BY <2>2
    <3>3. QED BY <3>1, <3>2, VerificationsForType
  <2>3. QED BY <2>1, <2>2
<1>5. verif = UNION T
  BY <1>2
<1> HIDE DEF f
<1>6. verif \subseteq LinkedVerification
  BY <1>4, <1>5
<1>7. IsFiniteSet(T)
  BY FiniteAssumption, FiniteImage
<1>8. IsFiniteSet(verif)
  <2>1. \A U \in T : IsFiniteSet(U)
    BY <1>4
  <2> HIDE DEF T
  <2>2. QED BY <1>5, <1>7, <2>1, FS_UNION
<1>9. FieldTyping
  BY <1>1, <1>3, <1>6, <1>8 DEF FieldTyping, RowsTyped, Sub, Ready, CompletesOwn
<1>10. EntriesApart
  BY <1>1 DEF EntriesApart, Submitting, Ready
<1>11. StopsResolvedByVisits
  BY <1>1, <1>2 DEF StopsResolvedByVisits
<1>12. VisitsVerified
  BY <1>1 DEF VisitsVerified
<1>13. QED BY <1>9, <1>10, <1>11, <1>12 DEF FieldInv

-----------------------------------------------------------------------------
(* The steps. One that only changes its own request, and leaves it outside *)
(* a transaction, disturbs nothing.                                        *)
LEMMA ReadKeeps ==
  ASSUME FieldInv, NEW q \in FieldRequests, NEW x \in Sub, x.pc \notin {"inserted", "counted"},
         sub' = [sub EXCEPT ![q] = x], UNCHANGED <<assignment, stop, visits, verif>>
  PROVE  FieldInv'
<1>1. sub \in [FieldRequests -> Sub]
  BY DEF FieldInv, FieldTyping
<1>2. FieldTyping'
  BY <1>1 DEF FieldInv, FieldTyping, RowsTyped, CompletesOwn
<1>3. EntriesApart'
  BY <1>1 DEF FieldInv, EntriesApart, Submitting, SameEntry
<1>4. StopsResolvedByVisits' /\ VisitsVerified'
  BY DEF FieldInv, StopsResolvedByVisits, VisitsVerified
<1>5. QED BY <1>2, <1>3, <1>4 DEF FieldInv

(* A step that ends its request and touches no visit and no outcome.       *)
LEMMA RowsKeep ==
  ASSUME FieldInv, NEW q \in FieldRequests,
         sub' = [sub EXCEPT ![q] = Over("answered")], RowsTyped', visits' = visits,
         \A s \in AssignmentStops : stop'[s] \in Outcomes <=> stop[s] \in Outcomes,
         verif \subseteq verif'
  PROVE  FieldInv'
<1>1. sub \in [FieldRequests -> Sub]
  BY DEF FieldInv, FieldTyping
<1>2. Over("answered") \in Sub /\ Over("answered").pc = "answered"
  BY DEF Over, Sub
<1>3. FieldTyping'
  BY <1>1, <1>2 DEF FieldInv, FieldTyping, CompletesOwn
<1>4. EntriesApart'
  BY <1>1, <1>2 DEF FieldInv, EntriesApart, Submitting, SameEntry
<1>5. StopsResolvedByVisits'
  BY DEF FieldInv, StopsResolvedByVisits, Outcomes
<1>6. VisitsVerified'
  BY DEF FieldInv, VisitsVerified
<1>7. QED BY <1>3, <1>4, <1>5, <1>6 DEF FieldInv

LEMMA SubmitVisitStep ==
  ASSUME FieldInv, NEW q \in FieldRequests, SubmitVisit(q)
  PROVE  FieldInv'
<1>1. PICK p \in Pharmacies, rep \in Visitors, key \in Keys \cup {NoKey},
           s \in AssignmentStops \cup {NoStop}, outcome \in Outcomes :
        /\ s # NoStop => s[2] = p /\ stop[s] # "none"
        /\ SubmitCheck(q, [pharmacy |-> p, rep |-> rep, key |-> key, stop |-> s], outcome)
  BY DEF SubmitVisit, Outcomes
<1> DEFINE v == [pharmacy |-> p, rep |-> rep, key |-> key, stop |-> s]
           x == IF \E w \in visits : w.pharmacy = v.pharmacy /\ w.rep = v.rep
                  THEN [pc |-> "visit_already_today", visit |-> v]
                  ELSE [pc |-> "checked", visit |-> v, outcome |-> outcome]
<1>2. v \in LinkedVisit
  BY <1>1 DEF LinkedVisit, Visit
<1>3. sub' = [sub EXCEPT ![q] = x] /\ UNCHANGED <<assignment, stop, visits, verif>>
  BY <1>1 DEF SubmitCheck
<1> HIDE DEF v
<1>4. x \in Sub /\ x.pc \notin {"inserted", "counted"}
  BY <1>2 DEF Sub
<1> HIDE DEF x
<1>5. QED BY <1>3, <1>4, ReadKeeps

LEMMA SubmitLookupStep ==
  ASSUME FieldInv, NEW q \in FieldRequests, SubmitLookup(q)
  PROVE  FieldInv'
<1> DEFINE x == IF sub[q].visit.key # NoKey /\ \E w \in visits : w.key = sub[q].visit.key
                  THEN Over("answered") ELSE [sub[q] EXCEPT !.pc = "looked"]
<1>1. sub[q] \in Sub /\ sub[q].pc = "checked"
  BY DEF SubmitLookup, FieldInv, FieldTyping
<1>2. sub' = [sub EXCEPT ![q] = x] /\ UNCHANGED <<assignment, stop, visits, verif>>
  BY DEF SubmitLookup
<1>3. x \in Sub /\ x.pc \notin {"inserted", "counted"}
  BY <1>1, SubFields DEF Sub, Over
<1> HIDE DEF x
<1>4. QED BY <1>2, <1>3, ReadKeeps

LEMMA SubmitInsertStep ==
  ASSUME FieldInv, NEW q \in FieldRequests, SubmitInsert(q)
  PROVE  FieldInv'
<1> DEFINE v == sub[q].visit
<1>1. /\ sub[q] \in Sub /\ sub[q].pc = "looked" /\ EntryFree(q, v)
      /\ UNCHANGED <<assignment, stop, visits, verif>>
      /\ sub' = [sub EXCEPT ![q] = IF Refused(v) THEN Over("failed") ELSE [@ EXCEPT !.pc = "inserted"]]
      /\ sub \in [FieldRequests -> Sub]
  BY DEF SubmitInsert, FieldInv, FieldTyping
<1>2. CASE Refused(v)
  <2>1. Over("failed") \in Sub /\ Over("failed").pc = "failed"
    BY DEF Over, Sub
  <2>2. sub' = [sub EXCEPT ![q] = Over("failed")]
    BY <1>1, <1>2
  <2>3. QED BY <1>1, <2>1, <2>2, ReadKeeps
<1>3. CASE ~Refused(v)
  <2> DEFINE x == [sub[q] EXCEPT !.pc = "inserted"]
  <2>1. x \in Sub /\ x.pc = "inserted" /\ x.visit = v
    BY <1>1, SubFields DEF Sub
  <2>2. sub' = [sub EXCEPT ![q] = x]
    BY <1>1, <1>3
  <2> HIDE DEF x
  <2>3. \A o \in FieldRequests : sub'[o] = IF o = q THEN x ELSE sub[o]
    BY <1>1, <2>2
  <2>4. FieldTyping'
    BY <1>1, <2>1, <2>2 DEF FieldInv, FieldTyping, RowsTyped, CompletesOwn
  <2>5. EntriesApart'
    <3>1. \A w \in visits : ~SameEntry(v, w)
      BY <1>3 DEF Refused
    <3>2. \A o \in FieldRequests \ {q} : Submitting(o) => ~SameEntry(sub[o].visit, v)
      BY <1>1 DEF EntryFree
    <3>3. \A a, b : SameEntry(a, b) <=> SameEntry(b, a)
      BY DEF SameEntry
    <3>4. \A o \in FieldRequests \ {q} : Submitting(o)' <=> Submitting(o)
      BY <2>3 DEF Submitting
    <3>5. \A a, b \in visits : a # b => ~SameEntry(a, b)
      BY DEF FieldInv, EntriesApart
    <3>6. \A o \in FieldRequests, w \in visits : Submitting(o)' => ~SameEntry(sub'[o].visit, w)
      BY <2>1, <2>3, <3>1, <3>4 DEF FieldInv, EntriesApart
    <3>7. \A o, k \in FieldRequests : o # k /\ Submitting(o)' /\ Submitting(k)' =>
            ~SameEntry(sub'[o].visit, sub'[k].visit)
      BY <2>1, <2>3, <3>2, <3>3, <3>4 DEF FieldInv, EntriesApart
    <3>8. \A a, b : SameEntry(a, b)' <=> SameEntry(a, b)
      BY DEF SameEntry
    <3>9. QED BY <1>1, <3>5, <3>6, <3>7, <3>8 DEF EntriesApart
  <2>6. StopsResolvedByVisits' /\ VisitsVerified'
    BY <1>1 DEF FieldInv, StopsResolvedByVisits, VisitsVerified
  <2>7. QED BY <2>4, <2>5, <2>6 DEF FieldInv
<1>4. QED BY <1>2, <1>3

LEMMA SubmitCountStep ==
  ASSUME FieldInv, NEW q \in FieldRequests, SubmitCount(q)
  PROVE  FieldInv'
<1> DEFINE s == sub[q].visit.stop
           x == [pc |-> "counted", visit |-> sub[q].visit, outcome |-> sub[q].outcome,
                 completes |-> s # NoStop /\ Pending(s[1], s) = {}]
<1>1. /\ sub[q] \in Sub /\ sub[q].pc = "inserted"
      /\ UNCHANGED <<assignment, stop, visits, verif>>
      /\ sub' = [sub EXCEPT ![q] = x]
      /\ sub \in [FieldRequests -> Sub]
  BY DEF SubmitCount, FieldInv, FieldTyping
<1>2. /\ x \in Sub /\ x.pc = "counted" /\ x.visit = sub[q].visit
      /\ x.completes => x.visit.stop # NoStop
  BY <1>1, SubFields DEF Sub
<1> HIDE DEF x
<1>3. \A o \in FieldRequests : sub'[o] = IF o = q THEN x ELSE sub[o]
  BY <1>1
<1>4. FieldTyping'
  BY <1>1, <1>2 DEF FieldInv, FieldTyping, RowsTyped, CompletesOwn
<1>5. EntriesApart'
  <2>1. \A o \in FieldRequests : (Submitting(o)' <=> Submitting(o)) /\ (Submitting(o) => sub'[o].visit = sub[o].visit)
    BY <1>1, <1>2, <1>3 DEF Submitting
  <2>2. QED BY <1>1, <2>1 DEF FieldInv, EntriesApart, SameEntry
<1>6. StopsResolvedByVisits' /\ VisitsVerified'
  BY <1>1 DEF FieldInv, StopsResolvedByVisits, VisitsVerified
<1>7. QED BY <1>4, <1>5, <1>6 DEF FieldInv

LEMMA SubmitCommitStep ==
  ASSUME FieldInv, NEW q \in FieldRequests, SubmitCommit(q)
  PROVE  FieldInv'
<1> DEFINE v == sub[q].visit
<1>1. /\ sub[q] \in Sub /\ sub[q].pc = "counted" /\ sub \in [FieldRequests -> Sub]
      /\ v \in LinkedVisit /\ sub[q].outcome \in Outcomes
      /\ sub[q].completes => v.stop # NoStop
  BY SubFields DEF SubmitCommit, FieldInv, FieldTyping, CompletesOwn
<1>2. /\ visits' = visits \cup {v} /\ verif' = SyncedVisit(v)
      /\ stop' = IF v.stop = NoStop THEN stop ELSE [stop EXCEPT ![v.stop] = sub[q].outcome]
      /\ assignment' = IF sub[q].completes THEN [assignment EXCEPT ![v.stop[1]].status = "completed"]
                                           ELSE assignment
      /\ sub' = [sub EXCEPT ![q] = Over("answered")]
  BY DEF SubmitCommit
<1>3. v.stop \in AssignmentStops \cup {NoStop} /\ RowsTyped
  BY <1>1 DEF LinkedVisit, Visit, FieldInv, FieldTyping
<1>4. Over("answered") \in Sub /\ Over("answered").pc = "answered"
  BY DEF Over, Sub
<1>5. \A o \in FieldRequests : sub'[o] = IF o = q THEN Over("answered") ELSE sub[o]
  BY <1>1, <1>2
<1>6. /\ SyncedVisit(v) \subseteq LinkedVerification /\ IsFiniteSet(SyncedVisit(v))
      /\ \E r \in SyncedVisit(v) : r.completed /\ r.pharmacy = v.pharmacy
      /\ \A r \in verif : r.completed =>
           \E n \in SyncedVisit(v) : n.completed /\ n.pharmacy = r.pharmacy
  BY <1>1, <1>3, SyncedVisitEffect
<1>7. RowsTyped'
  <2>1. assignment' \in [Assignments -> AssignmentRow]
    <3>1. CASE sub[q].completes
      <4>1. v.stop[1] \in Assignments
        BY <1>1, <1>3, <3>1 DEF AssignmentStops
      <4>2. [assignment[v.stop[1]] EXCEPT !.status = "completed"] \in AssignmentRow
        BY <4>1, <1>3 DEF RowsTyped, AssignmentRow, Statuses
      <4>3. QED BY <1>2, <1>3, <3>1, <4>2 DEF RowsTyped
    <3>2. CASE ~sub[q].completes
      BY <3>2, <1>2, <1>3 DEF RowsTyped
    <3>3. QED BY <3>1, <3>2
  <2>2. stop' \in [AssignmentStops -> StopStatuses]
    BY <1>1, <1>2, <1>3 DEF RowsTyped, StopStatuses, Outcomes
  <2>3. QED BY <1>1, <1>2, <1>3, <1>6, <2>1, <2>2 DEF RowsTyped
<1>8. FieldTyping'
  BY <1>2, <1>4, <1>7, <1>5 DEF FieldInv, FieldTyping, CompletesOwn
<1>9. EntriesApart'
  <2>1. Submitting(q)
    BY <1>1 DEF Submitting
  <2>2. \A o \in FieldRequests : Submitting(o)' => o # q /\ Submitting(o) /\ sub'[o] = sub[o]
    BY <1>4, <1>5 DEF Submitting
  <2>3. \A a, b : (SameEntry(a, b)' <=> SameEntry(a, b)) /\ (SameEntry(a, b) <=> SameEntry(b, a))
    BY DEF SameEntry
  <2>4. \A w \in visits : ~SameEntry(v, w)
    BY <2>1 DEF FieldInv, EntriesApart
  <2>5. \A o \in FieldRequests : Submitting(o)' => ~SameEntry(sub[o].visit, v)
    BY <2>1, <2>2 DEF FieldInv, EntriesApart
  <2>6. \A a, b \in visits' : a # b => ~SameEntry(a, b)
    BY <1>2, <2>3, <2>4 DEF FieldInv, EntriesApart
  <2>7. \A o \in FieldRequests, w \in visits' : Submitting(o)' => ~SameEntry(sub'[o].visit, w)
    BY <1>2, <2>2, <2>5 DEF FieldInv, EntriesApart
  <2>8. \A o, k \in FieldRequests : o # k /\ Submitting(o)' /\ Submitting(k)' =>
          ~SameEntry(sub'[o].visit, sub'[k].visit)
    BY <2>2 DEF FieldInv, EntriesApart
  <2>9. QED BY <2>3, <2>6, <2>7, <2>8 DEF EntriesApart
<1>10. StopsResolvedByVisits'
  <2> SUFFICES ASSUME NEW s \in AssignmentStops
               PROVE  (stop'[s] \in Outcomes) <=> (\E w \in visits' : w.stop = s)
    BY DEF StopsResolvedByVisits, Outcomes
  <2>1. (stop[s] \in Outcomes) <=> (\E w \in visits : w.stop = s)
    BY DEF FieldInv, StopsResolvedByVisits, Outcomes
  <2>2. CASE v.stop = s
    <3>1. stop'[s] = sub[q].outcome
      BY <2>2, <1>2, <1>3, NoStopAssumption DEF RowsTyped
    <3>2. QED BY <3>1, <2>2, <1>1, <1>2
  <2>3. CASE v.stop # s
    <3>1. stop'[s] = stop[s]
      BY <2>3, <1>2, <1>3 DEF RowsTyped
    <3>2. QED BY <3>1, <2>1, <2>3, <1>2
  <2>4. QED BY <2>2, <2>3
<1>11. VisitsVerified'
  BY <1>2, <1>6 DEF FieldInv, VisitsVerified
<1>12. QED BY <1>8, <1>9, <1>10, <1>11 DEF FieldInv

LEMMA AssignmentStep ==
  ASSUME FieldInv, NEW q \in FieldRequests,
         \/ \E a \in Assignments, to \in Statuses : StatusRead(q, a, to)
         \/ \E a \in Assignments, rep \in Visitors \cup {NoVisitor} : ReassignRead(q, a, rep)
         \/ \E a \in Assignments, p \in Pharmacies : AddRead(q, a, p)
         \/ \E s \in AssignmentStops : RemoveRead(q, s)
  PROVE  FieldInv'
<1>1. ASSUME NEW a \in Assignments, NEW to \in Statuses, StatusRead(q, a, to) PROVE FieldInv'
  <2> DEFINE x == [pc |-> "status", a |-> a, to |-> to]
  <2>1. sub' = [sub EXCEPT ![q] = x] /\ UNCHANGED <<assignment, stop, visits, verif>>
    BY <1>1 DEF StatusRead
  <2>2. x \in Sub /\ x.pc \notin {"inserted", "counted"}
    BY DEF Sub
  <2> HIDE DEF x
  <2>3. QED BY <2>1, <2>2, ReadKeeps
<1>2. ASSUME NEW a \in Assignments, NEW rep \in Visitors \cup {NoVisitor}, ReassignRead(q, a, rep)
      PROVE  FieldInv'
  <2> DEFINE x == [pc |-> "reassign", a |-> a, rep |-> rep, was |-> assignment[a]]
  <2>1. sub' = [sub EXCEPT ![q] = x] /\ UNCHANGED <<assignment, stop, visits, verif>>
    BY <1>2 DEF ReassignRead
  <2>2. assignment[a] \in AssignmentRow
    BY DEF FieldInv, FieldTyping, RowsTyped
  <2>3. x \in Sub /\ x.pc \notin {"inserted", "counted"}
    BY <2>2 DEF Sub
  <2> HIDE DEF x
  <2>4. QED BY <2>1, <2>3, ReadKeeps
<1>3. ASSUME NEW a \in Assignments, NEW p \in Pharmacies, AddRead(q, a, p) PROVE FieldInv'
  <2> DEFINE x == [pc |-> "add", s |-> <<a, p>>]
  <2>1. sub' = [sub EXCEPT ![q] = x] /\ UNCHANGED <<assignment, stop, visits, verif>>
    BY <1>3 DEF AddRead
  <2>2. x \in Sub /\ x.pc \notin {"inserted", "counted"}
    BY DEF Sub, AssignmentStops
  <2> HIDE DEF x
  <2>3. QED BY <2>1, <2>2, ReadKeeps
<1>4. ASSUME NEW s \in AssignmentStops, RemoveRead(q, s) PROVE FieldInv'
  <2> DEFINE x == [pc |-> "remove", s |-> s]
  <2>1. sub' = [sub EXCEPT ![q] = x] /\ UNCHANGED <<assignment, stop, visits, verif>>
    BY <1>4 DEF RemoveRead
  <2>2. x \in Sub /\ x.pc \notin {"inserted", "counted"}
    BY DEF Sub
  <2> HIDE DEF x
  <2>3. QED BY <2>1, <2>2, ReadKeeps
<1>5. QED BY <1>1, <1>2, <1>3, <1>4

LEMMA StatusWriteStep ==
  ASSUME FieldInv, NEW q \in FieldRequests, StatusWrite(q)
  PROVE  FieldInv'
<1>1. sub[q] \in Sub /\ sub[q].pc = "status" /\ RowsTyped
  BY DEF StatusWrite, FieldInv, FieldTyping
<1>2. sub[q].a \in Assignments /\ sub[q].to \in Statuses
  BY <1>1, SubFields
<1>3. [assignment[sub[q].a] EXCEPT !.status = sub[q].to] \in AssignmentRow
  BY <1>1, <1>2 DEF RowsTyped, AssignmentRow
<1>4. RowsTyped'
  BY <1>1, <1>3 DEF RowsTyped, StatusWrite
<1>5. QED BY <1>4, RowsKeep DEF StatusWrite

LEMMA ReassignWriteStep ==
  ASSUME FieldInv, NEW q \in FieldRequests, ReassignWrite(q)
  PROVE  FieldInv'
<1> DEFINE a == sub[q].a
           rep == sub[q].rep
           status == ReassignedStatus(a, rep, sub[q].was)
<1>1. sub[q] \in Sub /\ sub[q].pc = "reassign" /\ RowsTyped
  BY DEF ReassignWrite, FieldInv, FieldTyping
<1>2. a \in Assignments /\ rep \in Visitors \cup {NoVisitor}
  BY <1>1, SubFields
<1>3. status \in Statuses
  <2>1. assignment[a].status \in Statuses
    BY <1>1, <1>2 DEF RowsTyped, AssignmentRow
  <2>2. QED BY <2>1 DEF ReassignedStatus, Statuses
<1>4. assignment' = [assignment EXCEPT ![a] = [status |-> status, rep |-> rep]]
  BY DEF ReassignWrite
<1>5. [status |-> status, rep |-> rep] \in AssignmentRow
  BY <1>2, <1>3 DEF AssignmentRow
<1>6. verif' \subseteq LinkedVerification /\ IsFiniteSet(verif') /\ verif \subseteq verif'
  <2>1. CASE verif' = verif
    BY <2>1, <1>1 DEF RowsTyped
  <2>2. CASE rep # NoVisitor /\ verif' = verif \cup VerificationsFor(a, rep, InAssignment(a), NextAt)
    <3>1. NextAt \in Nat
      BY <1>1, NextAtType DEF RowsTyped, LinkedVerification
    <3>2. rep \in Visitors /\ InAssignment(a) \in SUBSET Pharmacies
      BY <1>2, <2>2 DEF InAssignment
    <3>3. /\ VerificationsFor(a, rep, InAssignment(a), NextAt) \subseteq LinkedVerification
          /\ IsFiniteSet(VerificationsFor(a, rep, InAssignment(a), NextAt))
      BY <1>2, <3>1, <3>2, VerificationsForType
    <3>4. QED BY <1>1, <2>2, <3>3, FS_Union DEF RowsTyped
  <2>3. QED BY <2>1, <2>2 DEF ReassignWrite
<1>7. RowsTyped'
  BY <1>1, <1>4, <1>5, <1>6 DEF RowsTyped, ReassignWrite
<1>8. QED BY <1>6, <1>7, RowsKeep DEF ReassignWrite

LEMMA AddWriteStep ==
  ASSUME FieldInv, NEW q \in FieldRequests, AddWrite(q)
  PROVE  FieldInv'
<1> DEFINE s == sub[q].s
<1>1. sub[q] \in Sub /\ sub[q].pc = "add" /\ RowsTyped
  BY DEF AddWrite, FieldInv, FieldTyping
<1>2. s \in AssignmentStops
  BY <1>1, SubFields
<1>3. /\ stop[s] = "none" /\ stop' = [stop EXCEPT ![s] = "pending"]
      /\ UNCHANGED <<assignment, visits, verif>>
  BY DEF AddWrite
<1>4. RowsTyped'
  BY <1>1, <1>2, <1>3 DEF RowsTyped, StopStatuses
<1>5. \A o \in AssignmentStops : stop'[o] \in Outcomes <=> stop[o] \in Outcomes
  BY <1>1, <1>2, <1>3 DEF RowsTyped, Outcomes
<1>6. QED BY <1>3, <1>4, <1>5, RowsKeep DEF AddWrite

LEMMA RemoveWriteStep ==
  ASSUME FieldInv, NEW q \in FieldRequests, RemoveWrite(q)
  PROVE  FieldInv'
<1> DEFINE s == sub[q].s
<1>1. sub[q] \in Sub /\ sub[q].pc = "remove" /\ RowsTyped /\ sub \in [FieldRequests -> Sub]
  BY DEF RemoveWrite, FieldInv, FieldTyping
<1>2. s \in AssignmentStops
  BY <1>1, SubFields
<1>3. /\ stop' = [stop EXCEPT ![s] = "none"]
      /\ visits' = {Unlinked(v, s) : v \in visits}
      /\ verif' = {Unlinked(r, s) : r \in verif}
      /\ sub' = [sub EXCEPT ![q] = Over("answered")]
      /\ UNCHANGED assignment
  BY DEF RemoveWrite
<1>4. Over("answered") \in Sub /\ Over("answered").pc = "answered"
  BY DEF Over, Sub
<1>5. \A o \in FieldRequests : sub'[o] = IF o = q THEN Over("answered") ELSE sub[o]
  BY <1>1, <1>3
<1>6. RowsTyped'
  <2>1. stop' \in [AssignmentStops -> StopStatuses]
    BY <1>1, <1>3 DEF RowsTyped, StopStatuses
  <2>2. visits' \subseteq LinkedVisit
    BY <1>1, <1>3, UnlinkedVisit DEF RowsTyped
  <2>3. verif' \subseteq LinkedVerification
    BY <1>1, <1>3, UnlinkedVerification DEF RowsTyped
  <2>4. IsFiniteSet(verif')
    <3> DEFINE f == [r \in verif |-> Unlinked(r, s)]
    <3>1. verif' = {f[r] : r \in verif}
      BY <1>3
    <3> HIDE DEF f
    <3>2. QED BY <1>1, <3>1, FiniteImage DEF RowsTyped
  <2>5. QED BY <1>1, <1>3, <2>1, <2>2, <2>3, <2>4 DEF RowsTyped
<1>7. FieldTyping'
  BY <1>1, <1>3, <1>4, <1>5, <1>6 DEF FieldInv, FieldTyping, CompletesOwn
<1>8. EntriesApart'
  <2>1. \A o \in FieldRequests : Submitting(o)' => o # q /\ Submitting(o) /\ sub'[o] = sub[o]
    BY <1>4, <1>5 DEF Submitting
  <2>2. \A w \in visits' : \E v \in visits :
          w = Unlinked(v, s) /\ w.pharmacy = v.pharmacy /\ w.rep = v.rep /\ w.key = v.key
    BY <1>1, <1>3, UnlinkedVisit DEF RowsTyped
  <2>3. ASSUME NEW a \in visits', NEW b \in visits', a # b PROVE ~SameEntry(a, b)
    <3>1. PICK v \in visits : a = Unlinked(v, s) /\ a.pharmacy = v.pharmacy /\ a.rep = v.rep /\ a.key = v.key
      BY <2>2
    <3>2. PICK w \in visits : b = Unlinked(w, s) /\ b.pharmacy = w.pharmacy /\ b.rep = w.rep /\ b.key = w.key
      BY <2>2
    <3>3. ~SameEntry(v, w)
      BY <2>3, <3>1, <3>2 DEF FieldInv, EntriesApart
    <3>4. QED BY <3>1, <3>2, <3>3 DEF SameEntry
  <2>4. ASSUME NEW o \in FieldRequests, NEW w \in visits', Submitting(o)'
        PROVE  ~SameEntry(sub[o].visit, w)
    <3>1. PICK v \in visits : w.pharmacy = v.pharmacy /\ w.rep = v.rep /\ w.key = v.key
      BY <2>2
    <3>2. ~SameEntry(sub[o].visit, v)
      BY <2>1, <2>4 DEF FieldInv, EntriesApart
    <3>3. QED BY <3>1, <3>2 DEF SameEntry
  <2>5. \A o, k \in FieldRequests : o # k /\ Submitting(o)' /\ Submitting(k)' =>
          ~SameEntry(sub'[o].visit, sub'[k].visit)
    BY <2>1 DEF FieldInv, EntriesApart
  <2>6. \A a, b : SameEntry(a, b)' <=> SameEntry(a, b)
    BY DEF SameEntry
  <2>7. QED BY <2>1, <2>3, <2>4, <2>5, <2>6 DEF EntriesApart
<1>9. StopsResolvedByVisits'
  <2> SUFFICES ASSUME NEW t \in AssignmentStops
               PROVE  (stop'[t] \in Outcomes) <=> (\E w \in visits' : w.stop = t)
    BY DEF StopsResolvedByVisits, Outcomes
  <2>1. (stop[t] \in Outcomes) <=> (\E w \in visits : w.stop = t)
    BY DEF FieldInv, StopsResolvedByVisits, Outcomes
  <2>2. \A v \in visits : Unlinked(v, s).stop = IF v.stop = s THEN NoStop ELSE v.stop
    BY <1>1, UnlinkedVisit DEF RowsTyped
  <2>3. t # NoStop
    BY NoStopAssumption
  <2>4. CASE t = s
    <3>1. stop'[t] \notin Outcomes
      BY <2>4, <1>1, <1>3 DEF RowsTyped, Outcomes
    <3>2. \A w \in visits' : w.stop # t
      BY <2>2, <2>3, <2>4, <1>3
    <3>3. QED BY <3>1, <3>2
  <2>5. CASE t # s
    <3>1. stop'[t] = stop[t]
      BY <2>5, <1>1, <1>3 DEF RowsTyped
    <3>2. (\E w \in visits' : w.stop = t) <=> (\E v \in visits : v.stop = t)
      BY <2>2, <2>3, <2>5, <1>3
    <3>3. QED BY <3>1, <3>2, <2>1
  <2>6. QED BY <2>4, <2>5
<1>10. VisitsVerified'
  <2> SUFFICES ASSUME NEW w \in visits' PROVE \E n \in verif' : n.completed /\ n.pharmacy = w.pharmacy
    BY DEF VisitsVerified
  <2>1. PICK v \in visits : w = Unlinked(v, s)
    BY <1>3
  <2>2. w.pharmacy = v.pharmacy
    BY <1>1, <2>1, UnlinkedVisit DEF RowsTyped
  <2>3. PICK r \in verif : r.completed /\ r.pharmacy = v.pharmacy
    BY DEF FieldInv, VisitsVerified
  <2>4. Unlinked(r, s).completed /\ Unlinked(r, s).pharmacy = v.pharmacy
    BY <1>1, <2>3, UnlinkedVerification DEF RowsTyped
  <2>5. QED BY <1>3, <2>2, <2>4
<1>11. QED BY <1>7, <1>8, <1>9, <1>10 DEF FieldInv

-----------------------------------------------------------------------------
LEMMA FieldInvStep == FieldInv /\ [FieldNext]_fieldVars => FieldInv'
<1> SUFFICES ASSUME FieldInv, [FieldNext]_fieldVars PROVE FieldInv'
  OBVIOUS
<1>1. CASE UNCHANGED fieldVars
  BY <1>1 DEF fieldVars, FieldInv, FieldTyping, RowsTyped, CompletesOwn, EntriesApart, Submitting,
              SameEntry, StopsResolvedByVisits, VisitsVerified
<1>2. CASE FieldNext
  BY <1>2, SubmitVisitStep, SubmitLookupStep, SubmitInsertStep, SubmitCountStep, SubmitCommitStep,
     AssignmentStep, StatusWriteStep, ReassignWriteStep, AddWriteStep, RemoveWriteStep DEF FieldNext
<1>3. QED BY <1>1, <1>2

LEMMA FieldInvAlways == FieldSpec => []FieldInv
BY FieldInvInit, FieldInvStep, PTL DEF FieldSpec

(* The rows of assignments, stops, visits and verifications keep their     *)
(* types, whatever is written from what was read before.                   *)
THEOREM FieldRowsTyped == FieldSpec => []FieldTypeOK
<1>1. FieldInv => FieldTypeOK
  BY DEF FieldInv, FieldTyping, RowsTyped, FieldTypeOK, AssignmentRow, LinkedVisit, LinkedVerification
<1>2. QED BY <1>1, FieldInvAlways, PTL

(* The checks of visits.service.submit race, but its unique indexes let    *)
(* one visit a day and one visit per key through.                          *)
THEOREM VisitsAreOnce == FieldSpec => []OneVisitADay
<1>1. FieldInv => OneVisitADay
  BY DEF FieldInv, EntriesApart, SameEntry, OneVisitADay
<1>2. QED BY <1>1, FieldInvAlways, PTL

(* What submissions, additions and removals leave of a stop agrees with    *)
(* the visits that are stored.                                             *)
THEOREM StopsAgreeWithVisits == FieldSpec => []StopsResolvedByVisits
<1>1. FieldInv => StopsResolvedByVisits
  BY DEF FieldInv
<1>2. QED BY <1>1, FieldInvAlways, PTL

(* syncVisitSubmission closes a verification for every visit.              *)
THEOREM EveryVisitVerified == FieldSpec => []VisitsVerified
<1>1. FieldInv => VisitsVerified
  BY DEF FieldInv
<1>2. QED BY <1>1, FieldInvAlways, PTL

-----------------------------------------------------------------------------
(* The review queue                                                        *)

(* A request works on items that exist, and that nobody has decided unless *)
(* another request has met it there.                                       *)
WorkedItems ==
  \A r \in Reviews : AtWork(r) => \A i \in review[r].ids :
    item[i] # NoItem /\ (item[i].status = "pending" \/ i \in met)

WorkersMeet ==
  \A r, o \in Reviews : r # o /\ AtWork(r) /\ AtWork(o) => review[r].ids \cap review[o].ids \subseteq met

(* What a transaction has written follows from an item that it approves,   *)
(* and it has written something for each item it has got to.               *)
WrittenBy(r) ==
  /\ \A i \in review[r].applied : review[r].wrote[item[i].place] # "none"
  /\ \A p \in Places : review[r].wrote[p] # "none" =>
       /\ review[r].decision = "approved"
       /\ \E i \in review[r].ids : item[i].place = p /\ review[r].wrote[p] = StatusAfter(item[i].flag)
  /\ review[r].applied \subseteq review[r].ids

WrittenByItems == \A r \in Reviews : AtWork(r) => WrittenBy(r)

KnownAreThere == \A p \in Known : place[p].status # "none"

ReviewInv ==
  ReviewTypeOK /\ WorkedItems /\ WorkersMeet /\ WrittenByItems /\ KnownAreThere /\ ReviewsAgree

\* Decisions on approval end in a status that a pharmacy can have.
LEMMA StatusAfterType ==
  ASSUME NEW flag \in VisitFlags \cup {"new_pharmacy"}
  PROVE  StatusAfter(flag) \in PlaceStatuses \ {"none"}
  BY DEF VisitFlags, StatusAfter, PlaceStatuses

\* What a step needs to know of an item and of a request at work.
LEMMA ReviewFields ==
  ASSUME ReviewTypeOK
  PROVE  /\ \A i \in Items : item[i] # NoItem =>
              /\ item[i] \in Item
              /\ item[i].place \in Places /\ item[i].flag \in VisitFlags \cup {"new_pharmacy"}
              /\ StatusAfter(item[i].flag) \in PlaceStatuses \ {"none"}
              /\ item[i].status \in {"pending", "approved", "rejected"}
         /\ \A r \in Reviews : AtWork(r) =>
              /\ review[r] \in OpenReview
              /\ review[r].ids \in SUBSET Items /\ review[r].applied \in SUBSET Items
              /\ review[r].wrote \in [Places -> PlaceStatuses]
              /\ review[r].decision \in Decisions
  <1>1. ASSUME NEW i \in Items, item[i] # NoItem
        PROVE  /\ item[i] \in Item
               /\ item[i].place \in Places /\ item[i].flag \in VisitFlags \cup {"new_pharmacy"}
               /\ item[i].status \in {"pending", "approved", "rejected"}
    BY <1>1 DEF ReviewTypeOK, Item, Decisions
  <1>2. ASSUME NEW r \in Reviews, AtWork(r)
        PROVE  review[r] \in OpenReview
    BY <1>2 DEF ReviewTypeOK, AtWork, Unserved, Served
  <1>3. QED
    BY <1>1, <1>2, StatusAfterType DEF OpenReview

LEMMA ReviewTypeStep ==
  ASSUME ReviewTypeOK, WorkedItems, [ReviewNext]_reviewVars
  PROVE  ReviewTypeOK'
  <1>1. ASSUME NEW i \in Items, NEW p \in Places, NEW flag \in Flags, RaiseFlag(i, p, flag)
        PROVE  ReviewTypeOK'
    BY <1>1, FlagAssumption DEF ReviewTypeOK, RaiseFlag, Item
  <1>2. ASSUME NEW i \in Items, NEW p \in Places, CreateCandidate(i, p)
        PROVE  ReviewTypeOK'
    BY <1>2 DEF ReviewTypeOK, CreateCandidate, Item, PlaceStatuses
  <1>3. ASSUME NEW r \in Reviews, NEW ids \in SUBSET Items, NEW d \in Decisions, Resolve(r, ids, d)
        PROVE  ReviewTypeOK'
    <2>1. CASE Resolvable(ids)
      <3>1. [p \in Places |-> "none"] \in [Places -> PlaceStatuses]
        BY DEF PlaceStatuses
      <3>2. [pc |-> "open", ids |-> ids, decision |-> d, locked |-> {}, applied |-> {},
             wrote |-> [p \in Places |-> "none"]] \in OpenReview
        BY <3>1 DEF OpenReview
      <3>3. QED
        BY <1>3, <2>1, <3>2 DEF ReviewTypeOK, Resolve
    <2>2. CASE ~Resolvable(ids)
      BY <1>3, <2>2 DEF ReviewTypeOK, Resolve
    <2>3. QED
      BY <2>1, <2>2
  <1>4. ASSUME NEW r \in Reviews, NEW i \in Items, LockItem(r, i)
        PROVE  ReviewTypeOK'
    <2>1. [review[r] EXCEPT !.locked = @ \cup {i}] \in OpenReview
      BY <1>4, ReviewFields DEF LockItem, OpenReview
    <2>2. QED
      BY <1>4, <2>1 DEF ReviewTypeOK, LockItem
  <1>5. ASSUME NEW r \in Reviews, NEW i \in Items, ApplySideEffects(r, i)
        PROVE  ReviewTypeOK'
    <2> DEFINE w == [review[r].wrote EXCEPT ![item[i].place] = StatusAfter(item[i].flag)]
    <2>1. w \in [Places -> PlaceStatuses]
      <3>1. review[r].wrote \in [Places -> PlaceStatuses]
        BY <1>5, ReviewFields DEF ApplySideEffects
      <3>2. StatusAfter(item[i].flag) \in PlaceStatuses
        BY <1>5, ReviewFields DEF ApplySideEffects, WorkedItems
      <3>3. QED
        BY <3>1, <3>2
    <2>2. [review[r] EXCEPT !.applied = @ \cup {i}, !.wrote = w] \in OpenReview
      BY <1>5, <2>1, ReviewFields DEF ApplySideEffects, OpenReview
    <2>3. QED
      BY <1>5, <2>2 DEF ReviewTypeOK, ApplySideEffects
  <1>6. ASSUME NEW r \in Reviews, CommitReview(r)
        PROVE  ReviewTypeOK'
    <2>1. review[r].decision \in Decisions /\ review[r].wrote \in [Places -> PlaceStatuses]
      BY <1>6, ReviewFields DEF CommitReview
    <2>2. item' \in [Items -> Item \cup {NoItem}]
      <3>1. \A i \in review[r].ids : [item[i] EXCEPT !.status = review[r].decision] \in Item
        BY <1>6, <2>1, ReviewFields DEF CommitReview, WorkedItems, Item
      <3>2. QED
        BY <1>6, <3>1 DEF ReviewTypeOK, CommitReview
    <2>3. place' \in [Places -> [status : PlaceStatuses, verified : BOOLEAN]]
      BY <1>6, <2>1 DEF ReviewTypeOK, CommitReview
    <2>4. review' \in [Reviews -> OpenReview \cup {Unserved} \cup {Served(h) : h \in {"refused", "done", "failed"}}]
      BY <1>6 DEF ReviewTypeOK, CommitReview
    <2>5. QED
      BY <1>6, <2>2, <2>3, <2>4 DEF ReviewTypeOK, CommitReview
  <1>7. ASSUME NEW r \in Reviews, RollBackReview(r)
        PROVE  ReviewTypeOK'
    BY <1>7 DEF ReviewTypeOK, RollBackReview
  <1>8. CASE UNCHANGED reviewVars
    BY <1>8 DEF ReviewTypeOK, reviewVars
  <1>9. QED
    BY <1>1, <1>2, <1>3, <1>4, <1>5, <1>6, <1>7, <1>8 DEF ReviewNext

\* A new item is pending and nobody works on it.
LEMMA NewItemStep ==
  ASSUME ReviewInv, NEW i \in Items, NEW x \in Item, item[i] = NoItem, x.status = "pending",
         item' = [item EXCEPT ![i] = x], UNCHANGED <<review, met>>,
         \A p \in Places : \/ place'[p] = place[p]
                           \/ ~place[p].verified /\ ~place'[p].verified /\ place'[p].status = FirstStatus(p)
  PROVE  WorkedItems' /\ WorkersMeet' /\ WrittenByItems' /\ KnownAreThere' /\ ReviewsAgree'
  <1>1. item \in [Items -> Item \cup {NoItem}] /\ x # NoItem
    BY NoItemAssumption DEF ReviewInv, ReviewTypeOK
  <1>2. item'[i] = x /\ \A j \in Items : j # i => item'[j] = item[j]
    BY <1>1
  <1>3. \A r \in Reviews : /\ AtWork(r)' <=> AtWork(r)
                           /\ AtWork(r) => review[r].ids \subseteq Items \ {i}
    BY ReviewFields DEF ReviewInv, WorkedItems, AtWork
  <1>4. WorkedItems'
    BY <1>2, <1>3 DEF ReviewInv, WorkedItems
  <1>5. WorkersMeet'
    BY <1>3 DEF ReviewInv, WorkersMeet
  <1>6. WrittenByItems'
    BY <1>2, <1>3 DEF ReviewInv, WrittenByItems, WrittenBy
  <1>7. KnownAreThere'
    BY KnownAssumption DEF ReviewInv, KnownAreThere, FirstStatus
  <1>8. ASSUME NEW p \in Places
        PROVE  IF place'[p].verified
               THEN \E j \in ItemsOf(p)' :
                      /\ place'[p].status = StatusAfter(item'[j].flag)
                      /\ item'[j].status = "approved" \/ (item'[j].status = "rejected" /\ j \in met')
               ELSE Approved(p)' = {} /\ place'[p].status \in {FirstStatus(p), "none"}
    <2>1. CASE place'[p].verified
      <3>1. place'[p] = place[p] /\ place[p].verified
        BY <2>1
      <3>2. PICK j \in ItemsOf(p) : /\ place[p].status = StatusAfter(item[j].flag)
                                    /\ item[j].status = "approved" \/ (item[j].status = "rejected" /\ j \in met)
        BY <3>1 DEF ReviewInv, ReviewsAgree
      <3>3. j # i /\ j \in Items
        BY <3>2 DEF ItemsOf
      <3>4. j \in ItemsOf(p)'
        BY <1>2, <3>2, <3>3 DEF ItemsOf
      <3>5. QED
        BY <1>2, <2>1, <3>1, <3>2, <3>3, <3>4
    <2>2. CASE ~place'[p].verified
      <3>1. Approved(p) = {} /\ place'[p].status \in {FirstStatus(p), "none"}
        BY <2>2 DEF ReviewInv, ReviewsAgree
      <3>2. Approved(p)' = {}
        BY <1>2, <3>1 DEF Approved, ItemsOf
      <3>3. QED
        BY <2>2, <3>1, <3>2
    <2>3. QED
      BY <2>1, <2>2
  <1>9. ReviewsAgree'
    BY <1>8 DEF ReviewsAgree, FirstStatus
  <1>10. QED
    BY <1>4, <1>5, <1>6, <1>7, <1>9

\* Requests that neither open nor commit leave items and pharmacies alone.
LEMMA ReviewsAgreeSame ==
  ASSUME ReviewInv, UNCHANGED <<item, place>>, met \subseteq met'
  PROVE  KnownAreThere' /\ ReviewsAgree'
  <1>1. KnownAreThere'
    BY DEF ReviewInv, KnownAreThere
  <1>2. \A p \in Places : ItemsOf(p)' = ItemsOf(p) /\ Approved(p)' = Approved(p)
    BY DEF ItemsOf, Approved
  <1>3. ReviewsAgree'
    BY <1>2 DEF ReviewInv, ReviewsAgree, FirstStatus
  <1>4. QED
    BY <1>1, <1>3

LEMMA ResolveStep ==
  ASSUME ReviewInv, NEW r \in Reviews, NEW ids \in SUBSET Items, NEW d \in Decisions,
         Resolve(r, ids, d), ReviewTypeOK'
  PROVE  ReviewInv'
  <1>1. KnownAreThere' /\ ReviewsAgree'
    BY ReviewsAgreeSame DEF Resolve
  <1>2. \A o \in Reviews \ {r} : review'[o] = review[o]
    BY DEF Resolve, ReviewInv, ReviewTypeOK
  <1>3. ~AtWork(r)
    BY DEF Resolve, AtWork
  <1>4. CASE Resolvable(ids)
    <2> DEFINE new == [pc |-> "open", ids |-> ids, decision |-> d, locked |-> {}, applied |-> {},
                       wrote |-> [p \in Places |-> "none"]]
    <2>1. /\ review'[r] = new
          /\ met' = met \cup {i \in ids : \E o \in Reviews : AtWork(o) /\ i \in review[o].ids}
          /\ item' = item
      BY <1>4 DEF Resolve, ReviewInv, ReviewTypeOK
    <2>2. WorkedItems'
      BY <1>2, <1>4, <2>1 DEF ReviewInv, WorkedItems, AtWork, Resolvable, Undecided
    <2>3. WorkersMeet'
      BY <1>2, <2>1 DEF ReviewInv, WorkersMeet, AtWork
    <2>4. WrittenByItems'
      BY <1>2, <2>1 DEF ReviewInv, WrittenByItems, WrittenBy, AtWork
    <2>5. QED
      BY <1>1, <2>2, <2>3, <2>4 DEF ReviewInv
  <1>5. CASE ~Resolvable(ids)
    <2>1. review'[r] = Served("refused") /\ met' = met /\ item' = item
      BY <1>5 DEF Resolve, ReviewInv, ReviewTypeOK
    <2>2. ~AtWork(r)'
      BY <2>1 DEF AtWork, Served
    <2>3. WorkedItems' /\ WorkersMeet' /\ WrittenByItems'
      BY <1>2, <2>1, <2>2 DEF ReviewInv, WorkedItems, WorkersMeet, WrittenByItems, WrittenBy, AtWork
    <2>4. QED
      BY <1>1, <2>3 DEF ReviewInv
  <1>6. QED
    BY <1>4, <1>5

LEMMA ApplyStep ==
  ASSUME ReviewInv, NEW r \in Reviews, NEW i \in Items, ApplySideEffects(r, i), ReviewTypeOK'
  PROVE  ReviewInv'
  <1>1. KnownAreThere' /\ ReviewsAgree'
    BY ReviewsAgreeSame DEF ApplySideEffects
  <1>2. \A o \in Reviews \ {r} : review'[o] = review[o]
    BY DEF ApplySideEffects, ReviewInv, ReviewTypeOK
  <1>3. /\ AtWork(r) /\ review[r] \in OpenReview /\ item' = item /\ met' = met
        /\ i \in review[r].ids /\ review[r].decision = "approved"
    BY ReviewFields DEF ApplySideEffects, ReviewInv
  <1>4. item[i].place \in Places /\ StatusAfter(item[i].flag) # "none"
    BY <1>3, ReviewFields DEF ReviewInv, WorkedItems
  <1>5. /\ AtWork(r)' /\ review'[r].ids = review[r].ids /\ review'[r].decision = review[r].decision
        /\ review'[r].applied = review[r].applied \cup {i}
        /\ review'[r].wrote = [review[r].wrote EXCEPT ![item[i].place] = StatusAfter(item[i].flag)]
    BY <1>3 DEF ApplySideEffects, ReviewInv, ReviewTypeOK, AtWork, OpenReview
  <1>6. WorkedItems' /\ WorkersMeet'
    BY <1>2, <1>3, <1>5 DEF ReviewInv, WorkedItems, WorkersMeet, AtWork
  <1>7. WrittenByItems'
    <2>1. \A p \in Places : review'[r].wrote[p] =
            IF p = item[i].place THEN StatusAfter(item[i].flag) ELSE review[r].wrote[p]
      BY <1>3, <1>5 DEF OpenReview
    <2>2. /\ \A j \in review'[r].applied : review'[r].wrote[item[j].place] # "none"
          /\ \A p \in Places : review'[r].wrote[p] # "none" =>
               \E j \in review[r].ids : item[j].place = p /\ review'[r].wrote[p] = StatusAfter(item[j].flag)
          /\ review'[r].applied \subseteq review[r].ids
      <3>1. \A j \in review[r].applied : item[j].place \in Places
        BY <1>3, ReviewFields DEF ReviewInv, WorkedItems, WrittenByItems, WrittenBy
      <3>2. QED
        BY <1>3, <1>4, <1>5, <2>1, <3>1 DEF ReviewInv, WrittenByItems, WrittenBy
    <2>3. WrittenBy(r)'
      BY <1>3, <1>5, <2>2 DEF WrittenBy
    <2>4. \A o \in Reviews \ {r} : AtWork(o)' => WrittenBy(o)'
      BY <1>2, <1>3 DEF ReviewInv, WrittenByItems, WrittenBy, AtWork
    <2>5. QED
      BY <2>3, <2>4 DEF WrittenByItems
  <1>8. QED
    BY <1>1, <1>6, <1>7 DEF ReviewInv

LEMMA CommitStep ==
  ASSUME ReviewInv, NEW r \in Reviews, CommitReview(r), ReviewTypeOK'
  PROVE  ReviewInv'
  <1>1. /\ AtWork(r) /\ review[r].ids \in SUBSET Items /\ review[r].applied \in SUBSET Items
        /\ review[r].wrote \in [Places -> PlaceStatuses] /\ review[r].decision \in Decisions
        /\ review[r].decision = "approved" => review[r].applied = review[r].ids
        /\ WrittenBy(r) /\ met' = met
    BY ReviewFields DEF CommitReview, ReviewInv, WrittenByItems
  <1>2. \A o \in Reviews : AtWork(o)' => o # r /\ AtWork(o) /\ review'[o] = review[o]
    BY DEF CommitReview, ReviewInv, ReviewTypeOK, AtWork, Served
  <1>3. \A i \in Items : item[i] # NoItem =>
          /\ item'[i] # NoItem /\ item'[i].place = item[i].place /\ item'[i].flag = item[i].flag
          /\ item'[i].status = IF i \in review[r].ids THEN review[r].decision ELSE item[i].status
    <2>1. ASSUME NEW i \in Items, item[i] # NoItem
          PROVE  /\ item'[i] # NoItem /\ item'[i].place = item[i].place /\ item'[i].flag = item[i].flag
                 /\ item'[i].status = IF i \in review[r].ids THEN review[r].decision ELSE item[i].status
      <3>1. item[i] \in Item
        BY <2>1, ReviewFields DEF ReviewInv
      <3>2. item'[i] = IF i \in review[r].ids THEN [item[i] EXCEPT !.status = review[r].decision] ELSE item[i]
        BY DEF CommitReview
      <3>3. item'[i] \in Item
        BY <1>1, <3>1, <3>2 DEF Item
      <3>4. QED
        BY <3>1, <3>2, <3>3, NoItemAssumption DEF Item
    <2>2. QED
      BY <2>1
  <1>4. \A i \in Items : item[i] = NoItem => i \notin review[r].ids /\ item'[i] = NoItem
    BY <1>1 DEF CommitReview, ReviewInv, WorkedItems
  <1>5. \A p \in Places : IF review[r].wrote[p] = "none" THEN place'[p] = place[p]
                          ELSE place'[p].status = review[r].wrote[p] /\ place'[p].verified
    BY DEF CommitReview
  <1>6. WorkedItems'
    <2>1. ASSUME NEW o \in Reviews, AtWork(o)', NEW i \in review'[o].ids
          PROVE  item'[i] # NoItem /\ (item'[i].status = "pending" \/ i \in met')
      <3>1. o # r /\ AtWork(o) /\ i \in review[o].ids /\ i \in Items
        BY <1>2, <2>1, ReviewFields DEF ReviewInv
      <3>2. item[i] # NoItem /\ (item[i].status = "pending" \/ i \in met)
        BY <3>1 DEF ReviewInv, WorkedItems
      <3>3. i \in review[r].ids => i \in met
        BY <1>1, <3>1 DEF ReviewInv, WorkersMeet
      <3>4. QED
        BY <1>1, <1>3, <3>1, <3>2, <3>3
    <2>2. QED
      BY <2>1 DEF WorkedItems
  <1>7. WorkersMeet'
    BY <1>1, <1>2 DEF ReviewInv, WorkersMeet
  <1>8. WrittenByItems'
    <2>1. ASSUME NEW o \in Reviews, AtWork(o)'
          PROVE  WrittenBy(o)'
      <3>1. AtWork(o) /\ review'[o] = review[o] /\ review[o].ids \subseteq Items /\ WrittenBy(o)
        BY <1>2, <2>1, ReviewFields DEF ReviewInv, WrittenByItems
      <3>2. \A i \in review[o].ids : item'[i].place = item[i].place /\ item'[i].flag = item[i].flag
        BY <1>3, <3>1 DEF ReviewInv, WorkedItems
      <3>3. QED
        BY <3>1, <3>2 DEF WrittenBy
    <2>2. QED
      BY <2>1 DEF WrittenByItems
  <1>9. KnownAreThere'
    <2>1. \A p \in Known : p \in Places /\ place[p].status # "none"
      BY KnownAssumption DEF ReviewInv, KnownAreThere
    <2>2. QED
      BY <1>5, <2>1 DEF KnownAreThere
  <1>10. ASSUME NEW p \in Places, place'[p].verified
         PROVE  \E i \in ItemsOf(p)' :
                  /\ place'[p].status = StatusAfter(item'[i].flag)
                  /\ item'[i].status = "approved" \/ (item'[i].status = "rejected" /\ i \in met')
    <2>1. CASE review[r].wrote[p] # "none"
      <3>1. PICK i \in review[r].ids : item[i].place = p /\ review[r].wrote[p] = StatusAfter(item[i].flag)
        BY <1>1, <2>1 DEF WrittenBy
      <3>2. i \in Items /\ item[i] # NoItem /\ review[r].decision = "approved"
        BY <1>1, <2>1, <3>1 DEF ReviewInv, WorkedItems, WrittenBy
      <3>3. i \in ItemsOf(p)'
        BY <1>3, <3>1, <3>2 DEF ItemsOf
      <3>4. QED
        BY <1>3, <1>5, <2>1, <3>1, <3>2, <3>3
    <2>2. CASE review[r].wrote[p] = "none"
      <3>1. place'[p] = place[p]
        BY <1>5, <2>2
      <3>2. PICK i \in ItemsOf(p) : /\ place[p].status = StatusAfter(item[i].flag)
                                    /\ item[i].status = "approved" \/ (item[i].status = "rejected" /\ i \in met)
        BY <1>10, <3>1 DEF ReviewInv, ReviewsAgree
      <3>3. i \in Items /\ item[i] # NoItem /\ i \in ItemsOf(p)'
        BY <1>3, <3>2 DEF ItemsOf
      <3>4. i \in review[r].ids => i \in met
        BY <1>1, <3>2 DEF ReviewInv, WorkedItems
      <3>5. QED
        BY <1>1, <1>3, <3>1, <3>2, <3>3, <3>4 DEF Decisions
    <2>3. QED
      BY <2>1, <2>2
  <1>11. ASSUME NEW p \in Places, ~place'[p].verified
         PROVE  Approved(p)' = {} /\ place'[p].status \in {FirstStatus(p), "none"}
    <2>1. review[r].wrote[p] = "none" /\ place'[p] = place[p]
      BY <1>5, <1>11
    <2>2. Approved(p) = {} /\ place[p].status \in {FirstStatus(p), "none"}
      BY <1>11, <2>1 DEF ReviewInv, ReviewsAgree
    <2>3. ASSUME NEW i \in Approved(p)'
          PROVE  FALSE
      <3>1. i \in Items /\ item'[i] # NoItem /\ item'[i].place = p /\ item'[i].status = "approved"
        BY DEF Approved, ItemsOf
      <3>2. item[i] # NoItem /\ item[i].place = p
        BY <1>3, <1>4, <3>1
      <3>3. i \in review[r].ids /\ review[r].decision = "approved"
        BY <1>3, <2>2, <3>1, <3>2 DEF Approved, ItemsOf
      <3>4. QED
        BY <1>1, <2>1, <3>2, <3>3 DEF WrittenBy
    <2>4. QED
      BY <2>1, <2>2, <2>3
  <1>12. ReviewsAgree'
    BY <1>10, <1>11 DEF ReviewsAgree, FirstStatus
  <1>13. QED
    BY <1>6, <1>7, <1>8, <1>9, <1>12 DEF ReviewInv

LEMMA ReviewInvStep ==
  ASSUME ReviewInv, [ReviewNext]_reviewVars
  PROVE  ReviewInv'
  <1> ReviewTypeOK'
    BY ReviewTypeStep DEF ReviewInv
  <1>1. ASSUME NEW i \in Items, NEW p \in Places, NEW flag \in Flags, RaiseFlag(i, p, flag)
        PROVE  ReviewInv'
    <2>1. [place |-> p, flag |-> flag, status |-> "pending"] \in Item
      BY FlagAssumption DEF Item
    <2>2. QED
      BY <1>1, <2>1, NewItemStep DEF RaiseFlag, ReviewInv
  <1>2. ASSUME NEW i \in Items, NEW p \in Places, CreateCandidate(i, p)
        PROVE  ReviewInv'
    <2> DEFINE x == [place |-> p, flag |-> "new_pharmacy", status |-> "pending"]
    <2>1. x \in Item
      BY DEF Item
    <2>2. ~place[p].verified
      <3>1. ASSUME place[p].verified
            PROVE  FALSE
        <4>1. PICK j \in ItemsOf(p) : place[p].status = StatusAfter(item[j].flag)
          BY <3>1 DEF ReviewInv, ReviewsAgree
        <4>2. StatusAfter(item[j].flag) # "none"
          BY <4>1, ReviewFields DEF ItemsOf, ReviewInv
        <4>3. QED
          BY <1>2, <4>1, <4>2 DEF CreateCandidate
      <3>2. QED
        BY <3>1
    <2>3. p \notin Known /\ FirstStatus(p) = "pending_review"
      BY <1>2 DEF CreateCandidate, ReviewInv, KnownAreThere, FirstStatus
    <2>4. \A q \in Places : \/ place'[q] = place[q]
                            \/ ~place[q].verified /\ ~place'[q].verified /\ place'[q].status = FirstStatus(q)
      BY <1>2, <2>2, <2>3 DEF CreateCandidate, ReviewInv, ReviewTypeOK
    <2>5. QED
      BY <1>2, <2>1, <2>4, NewItemStep DEF CreateCandidate, ReviewInv
  <1>3. ASSUME NEW r \in Reviews, NEW ids \in SUBSET Items, NEW d \in Decisions, Resolve(r, ids, d)
        PROVE  ReviewInv'
    BY <1>3, ResolveStep
  <1>4. ASSUME NEW r \in Reviews, NEW i \in Items, LockItem(r, i)
        PROVE  ReviewInv'
    <2>1. /\ review[r] \in OpenReview /\ UNCHANGED <<item, place, met>>
          /\ review'[r] = [review[r] EXCEPT !.locked = @ \cup {i}]
      BY <1>4, ReviewFields DEF LockItem, ReviewInv, ReviewTypeOK
    <2>2. \A o \in Reviews : /\ AtWork(o)' <=> AtWork(o)
                             /\ AtWork(o) => /\ review'[o].ids = review[o].ids
                                             /\ review'[o].applied = review[o].applied
                                             /\ review'[o].wrote = review[o].wrote
                                             /\ review'[o].decision = review[o].decision
      BY <1>4, <2>1 DEF LockItem, ReviewInv, ReviewTypeOK, AtWork, OpenReview
    <2>3. KnownAreThere' /\ ReviewsAgree'
      BY <2>1, ReviewsAgreeSame
    <2>4. WorkedItems' /\ WorkersMeet' /\ WrittenByItems'
      BY <2>1, <2>2 DEF ReviewInv, WorkedItems, WorkersMeet, WrittenByItems, WrittenBy
    <2>5. QED
      BY <2>3, <2>4 DEF ReviewInv
  <1>5. ASSUME NEW r \in Reviews, NEW i \in Items, ApplySideEffects(r, i)
        PROVE  ReviewInv'
    BY <1>5, ApplyStep
  <1>6. ASSUME NEW r \in Reviews, CommitReview(r)
        PROVE  ReviewInv'
    BY <1>6, CommitStep
  <1>7. ASSUME NEW r \in Reviews, RollBackReview(r)
        PROVE  ReviewInv'
    <2>1. \A o \in Reviews : AtWork(o)' => AtWork(o) /\ review'[o] = review[o]
      BY <1>7 DEF RollBackReview, ReviewInv, ReviewTypeOK, AtWork, Served
    <2>2. KnownAreThere' /\ ReviewsAgree'
      BY <1>7, ReviewsAgreeSame DEF RollBackReview
    <2>3. WorkedItems' /\ WorkersMeet' /\ WrittenByItems'
      BY <1>7, <2>1 DEF RollBackReview, ReviewInv, WorkedItems, WorkersMeet, WrittenByItems, WrittenBy
    <2>4. QED
      BY <2>2, <2>3 DEF ReviewInv
  <1>8. CASE UNCHANGED reviewVars
    <2>1. KnownAreThere' /\ ReviewsAgree'
      BY <1>8, ReviewsAgreeSame DEF reviewVars
    <2>2. WorkedItems' /\ WorkersMeet' /\ WrittenByItems'
      BY <1>8 DEF reviewVars, ReviewInv, WorkedItems, WorkersMeet, WrittenByItems, WrittenBy, AtWork
    <2>3. QED
      BY <2>1, <2>2 DEF ReviewInv
  <1>9. QED
    BY <1>1, <1>2, <1>3, <1>4, <1>5, <1>6, <1>7, <1>8 DEF ReviewNext

LEMMA ReviewInvInit ==
  ASSUME ReviewInit
  PROVE  ReviewInv
  <1>1. ReviewTypeOK
    BY DEF ReviewInit, ReviewTypeOK, PlaceStatuses
  <1>2. \A r \in Reviews : ~AtWork(r)
    BY DEF ReviewInit, AtWork, Unserved
  <1>3. WorkedItems /\ WorkersMeet /\ WrittenByItems
    BY <1>2 DEF WorkedItems, WorkersMeet, WrittenByItems
  <1>4. KnownAreThere
    BY KnownAssumption DEF ReviewInit, KnownAreThere
  <1>5. ReviewsAgree
    BY DEF ReviewInit, ReviewsAgree, Approved, ItemsOf, FirstStatus
  <1>6. QED
    BY <1>1, <1>3, <1>4, <1>5 DEF ReviewInv

\* Items, pharmacies and requests keep their types.
THEOREM ReviewTyped == ReviewSpec => []ReviewTypeOK
  <1>1. ReviewInv => ReviewTypeOK
    BY DEF ReviewInv
  <1>2. QED
    BY <1>1, ReviewInvInit, ReviewInvStep, PTL DEF ReviewSpec

\* resolve, batchResolve: a pharmacy says what was decided about it, for any
\* pharmacies, items and requests, whichever of them overlap or fail.
THEOREM DecisionsAgree == ReviewSpec => []ReviewsAgree
  <1>1. ReviewInv => ReviewsAgree
    BY DEF ReviewInv
  <1>2. QED
    BY <1>1, ReviewInvInit, ReviewInvStep, PTL DEF ReviewSpec

-----------------------------------------------------------------------------
(* Links for invitations and passwords                                     *)

Issued(c) == issue[c].pc \in {"inserted", "mailed"}

(* Two calls that issue the same link at once are recorded as having raced,*)
(* and a call that has superseded the open links is told of every link     *)
(* that is open again.                                                     *)
OverlapsKnown ==
  /\ \A c, o \in Issues :
       c # o /\ Issuing(c) /\ Issuing(o) /\ issue[c].owner = issue[o].owner => {c, o} \in raced
  /\ \A c \in Issues : issue[c].pc = "superseded" =>
       \A l \in DOMAIN links :
         Owner(l) = issue[c].owner => links[l].used \/ {links[l].by, c} \in raced

(* The link a call has inserted is its own, and who closed it while the    *)
(* call lasted used it or raced.                                           *)
OwnLink(c, l) ==
  /\ links[l].by = c /\ Owner(l) = issue[c].owner
  /\ links[l].used => links[l].uses > 0 \/ \E o \in Issues : {c, o} \in raced

OwnLinks == \A c \in Issues : Issued(c) => OwnLink(c, issue[c].link)

(* No password was set with an open link, nor with one that is about to be *)
(* used by a call that is alone.                                           *)
UsesInOrder ==
  /\ \A l \in DOMAIN links : ~links[l].used => links[l].uses = 0
  /\ \A d \in Uses : use[d].pc = "found" =>
       \/ links[use[d].link].shared
       \/ /\ links[use[d].link].uses = 0
          /\ \A e \in Uses : use[e].pc = "found" /\ use[e].link = use[d].link => e = d

LinksInv == LinksTypeOK /\ OverlapsKnown /\ OwnLinks /\ UsesInOrder /\ LinksHonoured

\* The fields of the calls that are under way.
LEMMA LinkFields ==
  ASSUME LinksTypeOK
  PROVE  /\ \A l \in DOMAIN links :
              /\ links[l] \in Link /\ l \in Nat /\ l >= 1 /\ l <= Len(links)
              /\ links[l].by \in Issues /\ links[l].user \in Users /\ links[l].purpose \in Purposes
              /\ links[l].uses \in Nat /\ links[l].used \in BOOLEAN /\ links[l].shared \in BOOLEAN
         /\ \A c \in Issues : Issuing(c) =>
              /\ issue[c].owner \in Users \X Purposes
              /\ issue[c].pc \in {"read", "superseded"} =>
                   issue[c] = [pc |-> issue[c].pc, owner |-> issue[c].owner]
              /\ Issued(c) => issue[c].link \in DOMAIN links
              /\ issue[c].pc = "mailed" => issue[c].delivered \in BOOLEAN
         /\ \A d \in Uses : use[d].pc = "found" => use[d].link \in DOMAIN links
  <1>1. \A l \in DOMAIN links : links[l] \in Link /\ l \in Nat /\ l >= 1 /\ l <= Len(links)
    BY DEF LinksTypeOK
  <1>2. ASSUME NEW c \in Issues, Issuing(c)
        PROVE  /\ issue[c].owner \in Users \X Purposes
               /\ issue[c].pc \in {"read", "superseded"} =>
                    issue[c] = [pc |-> issue[c].pc, owner |-> issue[c].owner]
               /\ Issued(c) => issue[c].link \in DOMAIN links
               /\ issue[c].pc = "mailed" => issue[c].delivered \in BOOLEAN
    BY <1>2 DEF LinksTypeOK, Issuing, Issued, NotCalled, Answered
  <1>3. \A d \in Uses : use[d].pc = "found" => use[d].link \in DOMAIN links
    BY DEF LinksTypeOK, NotCalled, Answered
  <1>4. QED
    BY <1>1, <1>2, <1>3 DEF Link

-----------------------------------------------------------------------------
(* Steps that leave the links alone                                        *)

\* What is known of the links stays true when calls only end or go on.
LEMMA LinksSame ==
  ASSUME LinksInv, LinksTypeOK', UNCHANGED <<links, account>>, raced \subseteq raced'
  PROVE  LinksHonoured'
  <1>1. \A l \in DOMAIN links : Owner(l)' = Owner(l)
    BY DEF Owner
  <1>2. QED
    BY <1>1 DEF LinksInv, LinksHonoured

LEMMA UsesSame ==
  ASSUME LinksInv, UNCHANGED <<links, use>>
  PROVE  UsesInOrder'
  BY DEF LinksInv, UsesInOrder

LEMMA ReadUserStep ==
  ASSUME LinksInv, NEW c \in Issues, NEW u \in Users, NEW purpose \in Purposes, ReadUser(c, u, purpose)
  PROVE  LinksInv'
  <1>1. /\ issue'[c] = [pc |-> "read", owner |-> <<u, purpose>>]
        /\ \A o \in Issues \ {c} : issue'[o] = issue[o]
        /\ UNCHANGED <<links, account, use>> /\ ~Issuing(c)
    BY DEF ReadUser, Issuing, LinksInv, LinksTypeOK
  <1>2. /\ raced \subseteq raced'
        /\ \A o \in Issues : Issuing(o) /\ issue[o].owner = <<u, purpose>> => {c, o} \in raced'
        /\ raced' \in SUBSET SUBSET Issues
    <2> DEFINE S == {o \in Issues : Issuing(o) /\ issue[o].owner = <<u, purpose>>}
    <2>1. raced' = raced \cup {{c, o} : o \in S}
      BY DEF ReadUser
    <2>2. \A o \in S : {c, o} \in raced' /\ o \in Issues
      BY <2>1
    <2>3. \A x \in raced' : x \in raced \/ \E o \in S : x = {c, o}
      BY <2>1
    <2>4. \A x \in raced' : x \subseteq Issues
      BY <2>2, <2>3 DEF LinksInv, LinksTypeOK
    <2>5. QED
      BY <2>1, <2>2, <2>4
  <1>3. LinksTypeOK'
    <2>1. <<u, purpose>> \in Users \X Purposes
      OBVIOUS
    <2>2. issue'[c] \in [pc : {"read", "superseded"}, owner : Users \X Purposes]
      BY <1>1, <2>1
    <2>3. QED
      BY <1>1, <1>2, <2>2 DEF LinksInv, LinksTypeOK, ReadUser
  <1>4. \A l \in DOMAIN links : Owner(l)' = Owner(l)
    BY <1>1 DEF Owner
  <1>5. OverlapsKnown'
    <2>1. ASSUME NEW a \in Issues, NEW b \in Issues, a # b, Issuing(a)', Issuing(b)',
                 issue'[a].owner = issue'[b].owner
          PROVE  {a, b} \in raced'
      <3>1. CASE a = c
        BY <1>1, <1>2, <2>1, <3>1 DEF Issuing
      <3>2. CASE b = c
        <4>1. {c, a} \in raced'
          BY <1>1, <1>2, <2>1, <3>2 DEF Issuing
        <4>2. {c, a} = {a, b}
          BY <3>2
        <4>3. QED
          BY <4>1, <4>2
      <3>3. CASE a # c /\ b # c
        BY <1>1, <1>2, <2>1, <3>3 DEF Issuing, LinksInv, OverlapsKnown
      <3>4. QED
        BY <3>1, <3>2, <3>3
    <2>2. \A a \in Issues : issue'[a].pc = "superseded" => a # c /\ issue'[a] = issue[a]
      BY <1>1
    <2>3. QED
      BY <1>1, <1>2, <1>4, <2>1, <2>2 DEF LinksInv, OverlapsKnown
  <1>6. OwnLinks'
    <2>1. ASSUME NEW o \in Issues, Issued(o)'
          PROVE  OwnLink(o, issue[o].link)'
      <3>1. Issued(o) /\ issue'[o] = issue[o] /\ OwnLink(o, issue[o].link)
        BY <1>1, <2>1 DEF Issued, LinksInv, OwnLinks
      <3>2. QED
        BY <1>1, <1>2, <3>1 DEF OwnLink, Owner
    <2>2. QED
      BY <2>1 DEF OwnLinks
  <1>7. UsesInOrder' /\ LinksHonoured'
    BY <1>1, <1>2, <1>3, LinksSame, UsesSame
  <1>8. QED
    BY <1>3, <1>5, <1>6, <1>7 DEF LinksInv

-----------------------------------------------------------------------------
(* Steps that change links where they stand                                *)

SameLinks ==
  /\ DOMAIN links' = DOMAIN links
  /\ \A l \in DOMAIN links :
       /\ links'[l].by = links[l].by /\ links'[l].user = links[l].user
       /\ links'[l].purpose = links[l].purpose
       /\ links[l].used => links'[l].used
  /\ raced' = raced

\* A function on the same positions is a sequence of links again.
LEMMA LinksAreSeq ==
  ASSUME LinksTypeOK, NEW f \in [DOMAIN links -> Link]
  PROVE  f \in Seq(Link) /\ DOMAIN f = DOMAIN links
  <1>1. Len(links) \in Nat /\ DOMAIN links = 1..Len(links)
    BY DEF LinksTypeOK
  <1>2. QED
    BY <1>1

LEMMA OverlapsKept ==
  ASSUME LinksInv, SameLinks,
         \A c \in Issues : Issuing(c)' =>
           /\ Issuing(c) /\ issue'[c].owner = issue[c].owner
           /\ issue'[c].pc = "superseded" =>
                \/ issue[c].pc = "superseded"
                \/ \A l \in DOMAIN links : Owner(l) = issue[c].owner => links'[l].used
  PROVE  OverlapsKnown'
  <1>1. \A l \in DOMAIN links : Owner(l)' = Owner(l)
    BY DEF SameLinks, Owner
  <1>2. \A c \in Issues : issue'[c].pc = "superseded" => Issuing(c)'
    BY DEF Issuing
  <1>3. QED
    BY <1>1, <1>2 DEF LinksInv, OverlapsKnown, SameLinks

LEMMA OwnKept ==
  ASSUME LinksInv, SameLinks,
         \A c \in Issues : Issued(c)' =>
           Issued(c) /\ issue'[c].link = issue[c].link /\ issue'[c].owner = issue[c].owner,
         \A c \in Issues : Issued(c)' =>
           LET l == issue[c].link
           IN  links'[l].used => \/ links'[l].uses > 0
                                 \/ links[l].used /\ links'[l].uses = links[l].uses
                                 \/ \E o \in Issues : {c, o} \in raced
  PROVE  OwnLinks'
  <1>1. ASSUME NEW c \in Issues, Issued(c)'
        PROVE  OwnLink(c, issue[c].link)'
    <2>1. Issued(c) /\ issue'[c].link = issue[c].link /\ issue'[c].owner = issue[c].owner
          /\ OwnLink(c, issue[c].link) /\ issue[c].link \in DOMAIN links
      BY <1>1, LinkFields DEF LinksInv, OwnLinks, Issued, Issuing
    <2>0. PICK l \in DOMAIN links : l = issue[c].link
      BY <2>1
    <2>2. links'[l].by = c /\ <<links'[l].user, links'[l].purpose>> = issue'[c].owner
      BY <2>0, <2>1 DEF OwnLink, Owner, SameLinks
    <2>3. links'[l].used => links'[l].uses > 0 \/ \E o \in Issues : {c, o} \in raced
      <3>1. links'[l].used => \/ links'[l].uses > 0
                              \/ links[l].used /\ links'[l].uses = links[l].uses
                              \/ \E o \in Issues : {c, o} \in raced
        BY <1>1, <2>0
      <3>2. links[l].used => links[l].uses > 0 \/ \E o \in Issues : {c, o} \in raced
        BY <2>0, <2>1 DEF OwnLink
      <3>3. QED
        BY ONLY <3>1, <3>2
    <2>4. issue'[c].link = l /\ raced' = raced
      BY <2>0, <2>1 DEF SameLinks
    <2>5. QED
      BY ONLY <2>2, <2>3, <2>4 DEF OwnLink, Owner
  <1>2. QED
    BY <1>1 DEF OwnLinks

LEMMA UsesKept ==
  ASSUME LinksInv, SameLinks, use' = use,
         \A l \in DOMAIN links : links'[l].uses = links[l].uses /\ links'[l].shared = links[l].shared
  PROVE  UsesInOrder'
  BY LinkFields DEF LinksInv, UsesInOrder, SameLinks

LEMMA HonouredKept ==
  ASSUME LinksInv, SameLinks, account' = account,
         \A l \in DOMAIN links :
           /\ links'[l].uses = links[l].uses /\ (links[l].shared => links'[l].shared)
           /\ links'[l].used => \/ links[l].used /\ links'[l].error = links[l].error
                                \/ links'[l].error = "superseded"
                                \/ links[l].uses > 0
                                \/ \E o \in Issues : {links[l].by, o} \in raced
  PROVE  LinksHonoured'
  <1>1. \A l \in DOMAIN links : Owner(l)' = Owner(l)
    BY DEF SameLinks, Owner
  <1>2. \A k, l \in DOMAIN links' :
          k < l /\ Owner(k)' = Owner(l)' => links'[k].used \/ {links'[k].by, links'[l].by} \in raced'
    BY <1>1 DEF LinksInv, LinksHonoured, SameLinks
  <1>3. ASSUME NEW l \in DOMAIN links'
        PROVE  /\ links'[l].used => \/ links'[l].uses > 0
                                    \/ links'[l].error = "superseded"
                                    \/ \E o \in Issues : {links'[l].by, o} \in raced'
               /\ links'[l].uses <= 1 \/ links'[l].shared
               /\ links'[l].uses > 0 =>
                    /\ links'[l].used /\ ~account'[links'[l].user].mustChange
                    /\ links'[l].purpose = "invitation" => account'[links'[l].user].active
    <2>1. l \in DOMAIN links
      BY DEF SameLinks
    <2>2. QED
      BY <2>1 DEF LinksInv, LinksHonoured, SameLinks
  <1>4. QED
    BY <1>2, <1>3 DEF LinksHonoured

LEMMA SupersedeStep ==
  ASSUME LinksInv, NEW c \in Issues, Supersede(c)
  PROVE  LinksInv'
  <1> DEFINE closes(l) == Outstanding(l, issue[c].owner)
             f == [l \in DOMAIN links |->
                     IF closes(l) THEN [links[l] EXCEPT !.used = TRUE, !.error = "superseded"] ELSE links[l]]
  <1>1. /\ links' = f /\ issue' = [issue EXCEPT ![c].pc = "superseded"]
        /\ UNCHANGED <<account, use, raced>> /\ issue[c].pc = "read"
    BY DEF Supersede
  <1>2. f \in [DOMAIN links -> Link]
    <2>1. \A x \in Link : [x EXCEPT !.used = TRUE, !.error = "superseded"] \in Link
      BY DEF Link
    <2>2. QED
      BY <2>1, LinkFields DEF LinksInv
  <1>3. \A l \in DOMAIN links :
          /\ links[l] \in Link
          /\ IF closes(l) THEN links'[l] = [links[l] EXCEPT !.used = TRUE, !.error = "superseded"]
                          ELSE links'[l] = links[l]
    BY <1>1, LinkFields DEF LinksInv
  <1>4. SameLinks
    BY <1>1, <1>3 DEF SameLinks, Link
  <1>5. /\ issue'[c] = [issue[c] EXCEPT !.pc = "superseded"] /\ issue[c].owner \in Users \X Purposes
        /\ issue[c] = [pc |-> "read", owner |-> issue[c].owner]
        /\ \A o \in Issues \ {c} : issue'[o] = issue[o]
    BY <1>1, LinkFields DEF LinksInv, LinksTypeOK, Issuing
  <1>6. issue'[c] = [pc |-> "superseded", owner |-> issue[c].owner]
    BY <1>5
  <1>7. LinksTypeOK'
    <2>1. links' \in Seq(Link) /\ DOMAIN links' = DOMAIN links
      BY <1>1, <1>2, LinksAreSeq DEF LinksInv
    <2>2. issue'[c] \in [pc : {"read", "superseded"}, owner : Users \X Purposes]
      BY <1>5, <1>6
    <2>3. QED
      <3>1. issue' \in [Issues -> {NotCalled, Answered} \cup
                 [pc : {"read", "superseded"}, owner : Users \X Purposes] \cup
                 [pc : {"inserted"}, owner : Users \X Purposes, link : DOMAIN links] \cup
                 [pc : {"mailed"}, owner : Users \X Purposes, link : DOMAIN links, delivered : BOOLEAN]]
        BY <1>1, <1>5, <2>2 DEF LinksInv, LinksTypeOK
      <3>2. /\ account' = account /\ use' = use /\ raced' = raced
        BY <1>1
      <3>3. QED
        BY <2>1, <3>1, <3>2 DEF LinksInv, LinksTypeOK
  <1>8. OverlapsKnown'
    <2>1. \A l \in DOMAIN links : Owner(l) = issue[c].owner => links'[l].used
      BY <1>3 DEF Outstanding, Link
    <2>2. \A o \in Issues : Issuing(o)' =>
            /\ Issuing(o) /\ issue'[o].owner = issue[o].owner
            /\ issue'[o].pc = "superseded" => o = c \/ issue[o].pc = "superseded"
      <3>1. Issuing(c)
        BY <1>1 DEF Issuing
      <3>2. issue'[c].owner = issue[c].owner
        BY ONLY <1>6
      <3>3. ASSUME NEW o \in Issues, o # c
            PROVE  issue'[o] = issue[o] /\ (Issuing(o)' => Issuing(o))
        BY <1>5, <3>3 DEF Issuing
      <3>4. QED
        BY <3>1, <3>2, <3>3
    <2>3. QED
      BY <1>4, <2>1, <2>2, OverlapsKept
  <1>9. \A l \in DOMAIN links : /\ links'[l].uses = links[l].uses /\ links'[l].shared = links[l].shared
                                /\ \/ links'[l] = links[l]
                                   \/ closes(l) /\ links'[l].error = "superseded"
    BY <1>3 DEF Link
  <1>10. OwnLinks'
    <2>1. ASSUME NEW o \in Issues, Issued(o)'
          PROVE  /\ Issued(o) /\ issue'[o] = issue[o]
                 /\ \/ links'[issue[o].link] = links[issue[o].link]
                    \/ \E a \in Issues : {o, a} \in raced
      <3>1. o # c /\ Issued(o) /\ issue'[o] = issue[o]
        BY <1>5, <1>6, <2>1 DEF Issued
      <3>2. issue[o].link \in DOMAIN links /\ OwnLink(o, issue[o].link)
        BY <3>1, LinkFields DEF LinksInv, OwnLinks, Issued, Issuing
      <3>3. closes(issue[o].link) => {o, c} \in raced
        BY <1>1, <3>1, <3>2 DEF OwnLink, Outstanding, LinksInv, OverlapsKnown, Issued, Issuing
      <3>4. QED
        BY <1>9, <3>1, <3>2, <3>3
    <2>2. QED
      BY <1>4, <2>1, OwnKept
  <1>11. UsesInOrder'
    BY <1>1, <1>4, <1>9, UsesKept
  <1>12. LinksHonoured'
    BY <1>1, <1>4, <1>9, HonouredKept
  <1>13. QED
    BY <1>7, <1>8, <1>10, <1>11, <1>12 DEF LinksInv

LEMMA RecordDeliveryStep ==
  ASSUME LinksInv, NEW c \in Issues, RecordDelivery(c)
  PROVE  LinksInv'
  <1> DEFINE l == issue[c].link
             x == [links[l] EXCEPT !.sent = issue[c].delivered,
                                   !.error = IF issue[c].delivered THEN "none" ELSE "failed"]
  <1>1. Issued(c) /\ Issuing(c) /\ issue[c].delivered \in BOOLEAN /\ l \in DOMAIN links /\ OwnLink(c, l)
    BY LinkFields DEF RecordDelivery, Issued, Issuing, LinksInv, OwnLinks
  <1>2. x \in Link
    <2>1. links[l] \in Link
      BY <1>1, LinkFields DEF LinksInv
    <2>2. QED
      BY <1>1, <2>1 DEF Link
  <1>3. /\ links' = [links EXCEPT ![l] = x] /\ links' \in [DOMAIN links -> Link]
        /\ links'[l] = x /\ \A k \in DOMAIN links : k # l => links'[k] = links[k]
    BY <1>1, <1>2, LinkFields DEF RecordDelivery, LinksInv
  <1>4. /\ links[l] \in Link
        /\ \A k \in DOMAIN links :
             /\ links'[k].by = links[k].by /\ links'[k].user = links[k].user
             /\ links'[k].purpose = links[k].purpose /\ links'[k].used = links[k].used
             /\ links'[k].uses = links[k].uses /\ links'[k].shared = links[k].shared
             /\ k # l => links'[k].error = links[k].error
    BY <1>1, <1>3, LinkFields DEF LinksInv, Link
  <1>5. SameLinks
    BY <1>3, <1>4 DEF SameLinks, RecordDelivery
  <1>6. /\ issue'[c] = Answered /\ \A o \in Issues \ {c} : issue'[o] = issue[o]
        /\ UNCHANGED <<account, use, raced>>
    BY DEF RecordDelivery, LinksInv, LinksTypeOK
  <1>7. LinksTypeOK'
    <2>1. links' \in Seq(Link) /\ DOMAIN links' = DOMAIN links
      BY <1>3, LinksAreSeq DEF LinksInv
    <2>2. QED
      BY <1>6, <2>1 DEF LinksInv, LinksTypeOK, RecordDelivery
  <1>8. \A o \in Issues : Issuing(o)' \/ Issued(o)' => o # c /\ issue'[o] = issue[o]
    BY <1>6 DEF Issuing, Issued, Answered
  <1>9. OverlapsKnown'
    <2>1. \A o \in Issues : Issuing(o)' =>
            /\ Issuing(o) /\ issue'[o].owner = issue[o].owner
            /\ issue'[o].pc = "superseded" => issue[o].pc = "superseded"
      BY <1>8 DEF Issuing
    <2>2. QED
      BY <1>5, <2>1, OverlapsKept
  <1>10. OwnLinks'
    <2>1. \A o \in Issues : Issued(o)' => Issued(o) /\ issue'[o] = issue[o] /\ issue[o].link \in DOMAIN links
      <3>1. \A o \in Issues : Issued(o)' => Issued(o) /\ issue'[o] = issue[o]
        BY <1>8 DEF Issued
      <3>2. QED
        BY <3>1, LinkFields DEF LinksInv, Issued, Issuing
    <2>2. QED
      BY <1>4, <1>5, <2>1, OwnKept
  <1>11. UsesInOrder'
    BY <1>4, <1>5, <1>6, UsesKept
  <1>12. LinksHonoured'
    BY <1>1, <1>4, <1>5, <1>6, HonouredKept DEF OwnLink
  <1>13. QED
    BY <1>7, <1>9, <1>10, <1>11, <1>12 DEF LinksInv

LEMMA ExpireStep ==
  ASSUME LinksInv, NEW l \in DOMAIN links, Expire(l)
  PROVE  LinksInv'
  <1>1. [links[l] EXCEPT !.expired = TRUE] \in Link /\ links[l] \in Link
    <2>1. links[l] \in Link
      BY LinkFields DEF LinksInv
    <2>2. QED
      BY <2>1 DEF Link
  <1>2. /\ links' = [links EXCEPT ![l] = [links[l] EXCEPT !.expired = TRUE]]
        /\ links' \in [DOMAIN links -> Link]
    BY <1>1, LinkFields DEF Expire, LinksInv
  <1>3. \A k \in DOMAIN links :
          /\ links'[k].by = links[k].by /\ links'[k].user = links[k].user
          /\ links'[k].purpose = links[k].purpose /\ links'[k].used = links[k].used
          /\ links'[k].uses = links[k].uses /\ links'[k].shared = links[k].shared
          /\ links'[k].error = links[k].error
    BY <1>1, <1>2, LinkFields DEF LinksInv, Link
  <1>4. SameLinks /\ UNCHANGED <<account, issue, use, raced>>
    BY <1>2, <1>3 DEF SameLinks, Expire
  <1>5. LinksTypeOK'
    <2>1. links' \in Seq(Link) /\ DOMAIN links' = DOMAIN links
      BY <1>2, LinksAreSeq DEF LinksInv
    <2>2. QED
      BY <1>4, <2>1 DEF LinksInv, LinksTypeOK
  <1>6. \A o \in Issues : (Issuing(o)' <=> Issuing(o)) /\ (Issued(o)' <=> Issued(o))
    BY <1>4 DEF Issuing, Issued
  <1>7. \A o \in Issues : Issued(o) => issue[o].link \in DOMAIN links
    BY LinkFields DEF LinksInv, Issued, Issuing
  <1>8. OverlapsKnown' /\ OwnLinks' /\ UsesInOrder' /\ LinksHonoured'
    BY <1>3, <1>4, <1>6, <1>7, OverlapsKept, OwnKept, UsesKept, HonouredKept
  <1>9. QED
    BY <1>5, <1>8 DEF LinksInv

\* Calls that end, or go on with the same link.
LEMMA IssueGoesOn ==
  ASSUME LinksInv, LinksTypeOK', UNCHANGED <<links, account, use, raced>>,
         \A o \in Issues : issue'[o] # issue[o] =>
           \/ issue'[o] = Answered
           \/ /\ issue[o].pc = "inserted" /\ issue'[o].pc = "mailed"
              /\ issue'[o].owner = issue[o].owner /\ issue'[o].link = issue[o].link
  PROVE  LinksInv'
  <1>1. SameLinks
    BY DEF SameLinks
  <1>2. \A o \in Issues : Issuing(o)' =>
          /\ Issuing(o) /\ issue'[o].owner = issue[o].owner
          /\ issue'[o].pc = "superseded" => issue[o].pc = "superseded"
    BY DEF Issuing, Answered
  <1>3. \A o \in Issues : Issued(o)' =>
          Issued(o) /\ issue'[o].link = issue[o].link /\ issue'[o].owner = issue[o].owner
    BY DEF Issued, Answered
  <1>4. OverlapsKnown'
    BY <1>1, <1>2, OverlapsKept
  <1>5. OwnLinks'
    BY <1>1, <1>3, OwnKept
  <1>6. UsesInOrder' /\ LinksHonoured'
    BY UsesSame, LinksSame
  <1>7. QED
    BY <1>4, <1>5, <1>6 DEF LinksInv

LEMMA MailLinkStep ==
  ASSUME LinksInv, NEW c \in Issues, NEW delivered \in BOOLEAN, MailLink(c, delivered)
  PROVE  LinksInv'
  <1> DEFINE y == [pc |-> "mailed", owner |-> issue[c].owner, link |-> issue[c].link,
                   delivered |-> delivered]
  <1>1. issue[c].owner \in Users \X Purposes /\ issue[c].link \in DOMAIN links
    BY LinkFields DEF MailLink, LinksInv, Issued, Issuing
  <1>2. y \in [pc : {"mailed"}, owner : Users \X Purposes, link : DOMAIN links, delivered : BOOLEAN]
    BY <1>1
  <1>3. /\ issue'[c] = Answered \/ issue'[c] = y
        /\ \A o \in Issues \ {c} : issue'[o] = issue[o]
        /\ UNCHANGED <<links, account, use, raced>> /\ issue[c].pc = "inserted"
    BY DEF MailLink, LinksInv, LinksTypeOK
  <1>4. LinksTypeOK'
    <2>1. issue' \in [Issues -> {NotCalled, Answered} \cup
            [pc : {"read", "superseded"}, owner : Users \X Purposes] \cup
            [pc : {"inserted"}, owner : Users \X Purposes, link : DOMAIN links] \cup
            [pc : {"mailed"}, owner : Users \X Purposes, link : DOMAIN links, delivered : BOOLEAN]]
      BY <1>2, <1>3 DEF MailLink, LinksInv, LinksTypeOK
    <2>2. QED
      BY <1>3, <2>1 DEF LinksInv, LinksTypeOK
  <1>5. QED
    BY <1>3, <1>4, IssueGoesOn

LEMMA DieIssuingStep ==
  ASSUME LinksInv, NEW c \in Issues, DieIssuing(c)
  PROVE  LinksInv'
  <1>1. LinksTypeOK'
    BY DEF DieIssuing, LinksInv, LinksTypeOK
  <1>2. \A o \in Issues : issue'[o] # issue[o] => issue'[o] = Answered
    BY DEF DieIssuing, LinksInv, LinksTypeOK
  <1>3. QED
    BY <1>1, <1>2, IssueGoesOn DEF DieIssuing

LEMMA DieUsingStep ==
  ASSUME LinksInv, NEW d \in Uses, DieUsing(d)
  PROVE  LinksInv'
  <1>1. LinksTypeOK' /\ UNCHANGED <<links, account, issue, raced>>
    BY DEF DieUsing, LinksInv, LinksTypeOK
  <1>2. \A e \in Uses : use'[e].pc = "found" => use'[e] = use[e]
    BY DEF DieUsing, LinksInv, LinksTypeOK, Answered
  <1>3. UsesInOrder'
    BY <1>1, <1>2 DEF LinksInv, UsesInOrder
  <1>4. LinksHonoured'
    BY <1>1, LinksSame
  <1>5. \A l \in DOMAIN links : Owner(l)' = Owner(l)
    BY <1>1 DEF Owner
  <1>6. OverlapsKnown' /\ OwnLinks'
    BY <1>1, <1>5 DEF LinksInv, OverlapsKnown, OwnLinks, OwnLink, Issuing, Issued, Owner
  <1>7. QED
    BY <1>1, <1>3, <1>4, <1>6 DEF LinksInv

-----------------------------------------------------------------------------
(* A link is inserted                                                      *)

LEMMA InsertLinkStep ==
  ASSUME LinksInv, NEW c \in Issues, InsertLink(c)
  PROVE  LinksInv'
  <1>0. PICK n \in Nat : n = Len(links) + 1
    BY DEF LinksInv, LinksTypeOK
  <1> DEFINE x == [by |-> c, user |-> issue[c].owner[1], purpose |-> issue[c].owner[2], used |-> FALSE,
                   expired |-> FALSE, sent |-> FALSE, error |-> "none", uses |-> 0, shared |-> FALSE]
             y == [pc |-> "inserted", owner |-> issue[c].owner, link |-> n]
  <1>1. /\ issue[c].pc = "superseded" /\ issue[c].owner \in Users \X Purposes
        /\ links' = Append(links, x) /\ issue' = [issue EXCEPT ![c] = y]
        /\ UNCHANGED <<account, use, raced>>
    BY <1>0, LinkFields DEF InsertLink, LinksInv, Issuing
  <1>2. x \in Link
    BY <1>1 DEF Link
  <1>3. /\ links' \in Seq(Link) /\ Len(links') = n /\ Len(links) \in Nat
        /\ DOMAIN links = 1..Len(links) /\ DOMAIN links' = 1..n
        /\ links'[n] = x /\ links'[n].by = c /\ \A l \in DOMAIN links : links'[l] = links[l]
    BY <1>0, <1>1, <1>2 DEF LinksInv, LinksTypeOK
  <1>4. DOMAIN links' = DOMAIN links \cup {n} /\ n \notin DOMAIN links
    BY <1>0, <1>3
  <1>5. issue'[c] = y /\ \A o \in Issues \ {c} : issue'[o] = issue[o]
    BY <1>1 DEF LinksInv, LinksTypeOK
  <1>6. LinksTypeOK'
    <2>1. y \in [pc : {"inserted"}, owner : Users \X Purposes, link : DOMAIN links']
      BY <1>1, <1>4
    <2>2. \A o \in Issues \ {c} : issue'[o] \in {NotCalled, Answered} \cup
            [pc : {"read", "superseded"}, owner : Users \X Purposes] \cup
            [pc : {"inserted"}, owner : Users \X Purposes, link : DOMAIN links'] \cup
            [pc : {"mailed"}, owner : Users \X Purposes, link : DOMAIN links', delivered : BOOLEAN]
      BY <1>4, <1>5 DEF LinksInv, LinksTypeOK
    <2>3. issue' \in [Issues -> {NotCalled, Answered} \cup
            [pc : {"read", "superseded"}, owner : Users \X Purposes] \cup
            [pc : {"inserted"}, owner : Users \X Purposes, link : DOMAIN links'] \cup
            [pc : {"mailed"}, owner : Users \X Purposes, link : DOMAIN links', delivered : BOOLEAN]]
      BY <1>1, <1>5, <2>1, <2>2 DEF LinksInv, LinksTypeOK
    <2>4. use' \in [Uses -> {NotCalled, Answered} \cup [pc : {"found"}, link : DOMAIN links']]
      BY <1>1, <1>4 DEF LinksInv, LinksTypeOK
    <2>5. QED
      BY <1>1, <1>3, <2>3, <2>4 DEF LinksInv, LinksTypeOK
  <1>7. /\ \A l \in DOMAIN links : Owner(l)' = Owner(l)
        /\ Owner(n)' = issue[c].owner
    <2>1. issue[c].owner = <<issue[c].owner[1], issue[c].owner[2]>>
      BY <1>1
    <2>2. QED
      BY <1>3, <2>1 DEF Owner
  <1>8. \A o \in Issues \ {c} : Issuing(o) /\ issue[o].owner = issue[c].owner => {c, o} \in raced
    BY <1>1 DEF LinksInv, OverlapsKnown, Issuing
  <1>9. OverlapsKnown'
    <2>1. ASSUME NEW a \in Issues, NEW b \in Issues, a # b, Issuing(a)', Issuing(b)',
                 issue'[a].owner = issue'[b].owner
          PROVE  {a, b} \in raced'
      <3>1. Issuing(a) /\ Issuing(b) /\ issue[a].owner = issue[b].owner
        BY <1>1, <1>5, <2>1 DEF Issuing
      <3>2. QED
        BY <1>1, <2>1, <3>1 DEF LinksInv, OverlapsKnown
    <2>2. ASSUME NEW o \in Issues, issue'[o].pc = "superseded", NEW l \in DOMAIN links',
                 Owner(l)' = issue'[o].owner
          PROVE  links'[l].used \/ {links'[l].by, o} \in raced'
      <3>1. o # c /\ issue[o] = issue'[o] /\ issue[o].pc = "superseded" /\ Issuing(o)
        BY <1>5, <2>2 DEF Issuing
      <3>2. CASE l = n
        BY <1>1, <1>3, <1>7, <1>8, <2>2, <3>1, <3>2
      <3>3. CASE l \in DOMAIN links
        BY <1>1, <1>3, <1>7, <2>2, <3>1, <3>3 DEF LinksInv, OverlapsKnown
      <3>4. QED
        BY <1>4, <3>2, <3>3
    <2>3. QED
      BY <2>1, <2>2 DEF OverlapsKnown
  <1>10. OwnLinks'
    <2>1. OwnLink(c, issue[c].link)'
      BY <1>3, <1>5, <1>7 DEF OwnLink, Owner
    <2>2. ASSUME NEW o \in Issues \ {c}, Issued(o)'
          PROVE  OwnLink(o, issue[o].link)'
      <3>1. Issued(o) /\ issue'[o] = issue[o] /\ OwnLink(o, issue[o].link) /\ issue[o].link \in DOMAIN links
        BY <1>5, <2>2, LinkFields DEF LinksInv, OwnLinks, Issued, Issuing
      <3>2. QED
        BY <1>1, <1>3, <3>1 DEF OwnLink, Owner
    <2>3. QED
      BY <2>1, <2>2 DEF OwnLinks
  <1>11. UsesInOrder'
    <2>1. \A l \in DOMAIN links' : ~links'[l].used => links'[l].uses = 0
      <3>1. links'[n].uses = 0
        BY <1>3
      <3>2. QED
        BY <1>3, <1>4, <3>1 DEF LinksInv, UsesInOrder
    <2>2. \A d \in Uses : use[d].pc = "found" => use[d].link \in DOMAIN links
      BY LinkFields DEF LinksInv
    <2>3. QED
      BY <1>1, <1>3, <2>1, <2>2 DEF LinksInv, UsesInOrder
  <1>12. LinksHonoured'
    <2>1. ASSUME NEW k \in DOMAIN links', NEW l \in DOMAIN links', k < l, Owner(k)' = Owner(l)'
          PROVE  links'[k].used \/ {links'[k].by, links'[l].by} \in raced'
      <3>1. k \in DOMAIN links
        BY <1>0, <1>3, <2>1
      <3>2. CASE l = n
        <4>1. Owner(k) = issue[c].owner
          BY <1>7, <2>1, <3>1, <3>2
        <4>2. links[k].used \/ {links[k].by, c} \in raced
          BY <1>1, <3>1, <4>1 DEF LinksInv, OverlapsKnown
        <4>3. QED
          BY <1>1, <1>3, <3>1, <3>2, <4>2
      <3>3. CASE l \in DOMAIN links
        BY <1>1, <1>3, <1>7, <2>1, <3>1, <3>3 DEF LinksInv, LinksHonoured
      <3>4. QED
        BY <1>4, <3>2, <3>3
    <2>2. ASSUME NEW l \in DOMAIN links'
          PROVE  /\ links'[l].used => \/ links'[l].uses > 0
                                      \/ links'[l].error = "superseded"
                                      \/ \E o \in Issues : {links'[l].by, o} \in raced'
                 /\ links'[l].uses <= 1 \/ links'[l].shared
                 /\ links'[l].uses > 0 =>
                      /\ links'[l].used /\ ~account'[links'[l].user].mustChange
                      /\ links'[l].purpose = "invitation" => account'[links'[l].user].active
      <3>1. CASE l = n
        BY <1>3, <3>1
      <3>2. CASE l \in DOMAIN links
        <4>1. links'[l] = links[l] /\ account' = account /\ raced' = raced
          BY <1>1, <1>3, <3>2
        <4>2. /\ links[l].used => \/ links[l].uses > 0
                                  \/ links[l].error = "superseded"
                                  \/ \E o \in Issues : {links[l].by, o} \in raced
              /\ links[l].uses <= 1 \/ links[l].shared
              /\ links[l].uses > 0 =>
                   /\ links[l].used /\ ~account[links[l].user].mustChange
                   /\ links[l].purpose = "invitation" => account[links[l].user].active
          BY <3>2 DEF LinksInv, LinksHonoured
        <4>3. QED
          BY ONLY <4>1, <4>2
      <3>3. QED
        BY <1>4, <3>1, <3>2
    <2>3. QED
      BY <2>1, <2>2 DEF LinksHonoured
  <1>13. QED
    BY <1>6, <1>9, <1>10, <1>11, <1>12 DEF LinksInv

-----------------------------------------------------------------------------
(* A link is used                                                          *)

LEMMA FindLinkStep ==
  ASSUME LinksInv, NEW d \in Uses, NEW l \in DOMAIN links, FindLink(d, l)
  PROVE  LinksInv'
  <1>1. /\ \A e \in Uses \ {d} : use'[e] = use[e]
        /\ use[d].pc = "ready"
        /\ UNCHANGED <<account, issue, raced>>
    BY DEF FindLink, LinksInv, LinksTypeOK
  <1>2. CASE links[l].used \/ links[l].expired
    <2>1. links' = links /\ use'[d] = Answered /\ use' = [use EXCEPT ![d] = Answered]
      BY <1>2 DEF FindLink, LinksInv, LinksTypeOK
    <2>2. LinksTypeOK'
      BY <1>1, <2>1 DEF LinksInv, LinksTypeOK
    <2>3. \A e \in Uses : use'[e].pc = "found" => use'[e] = use[e]
      BY <1>1, <2>1 DEF Answered
    <2>4. UsesInOrder'
      BY <2>1, <2>3 DEF LinksInv, UsesInOrder
    <2>5. LinksHonoured'
      BY <1>1, <2>1, <2>2, LinksSame
    <2>6. OverlapsKnown' /\ OwnLinks'
      BY <1>1, <2>1 DEF LinksInv, OverlapsKnown, OwnLinks, OwnLink, Issuing, Issued, Owner
    <2>7. QED
      BY <2>2, <2>4, <2>5, <2>6 DEF LinksInv
  <1>3. CASE ~(links[l].used \/ links[l].expired)
    <2> DEFINE sh == links[l].shared \/ \E o \in Uses : Using(o, l)
               x == [links[l] EXCEPT !.shared = sh]
               y == [pc |-> "found", link |-> l]
    <2>1. x \in Link /\ links[l] \in Link
      <3>1. links[l] \in Link /\ sh \in BOOLEAN
        BY LinkFields DEF LinksInv
      <3>2. QED
        BY <3>1 DEF Link
    <2>2. /\ links' = [links EXCEPT ![l] = x] /\ use' = [use EXCEPT ![d] = y]
          /\ links' \in [DOMAIN links -> Link]
      BY <1>3, <2>1, LinkFields DEF FindLink, LinksInv
    <2>3. use'[d] = y /\ y \in [pc : {"found"}, link : DOMAIN links]
      BY <2>2 DEF LinksInv, LinksTypeOK
    <2>4. /\ links'[l].shared = sh
          /\ \A k \in DOMAIN links :
               /\ links'[k].by = links[k].by /\ links'[k].user = links[k].user
               /\ links'[k].purpose = links[k].purpose /\ links'[k].used = links[k].used
               /\ links'[k].uses = links[k].uses /\ links'[k].error = links[k].error
               /\ k # l => links'[k].shared = links[k].shared
      BY <2>1, <2>2, LinkFields DEF LinksInv, Link
    <2>5. SameLinks
      BY <1>1, <2>2, <2>4 DEF SameLinks
    <2>6. LinksTypeOK'
      <3>1. links' \in Seq(Link) /\ DOMAIN links' = DOMAIN links
        BY <2>2, LinksAreSeq DEF LinksInv
      <3>2. QED
        BY <1>1, <2>2, <2>3, <3>1 DEF LinksInv, LinksTypeOK
    <2>7. \A o \in Issues : (Issuing(o)' <=> Issuing(o)) /\ (Issued(o)' <=> Issued(o))
      BY <1>1 DEF Issuing, Issued
    <2>8. \A o \in Issues : Issued(o) => issue[o].link \in DOMAIN links
      BY LinkFields DEF LinksInv, Issued, Issuing
    <2>9. OverlapsKnown' /\ OwnLinks'
      BY <1>1, <2>4, <2>5, <2>7, <2>8, OverlapsKept, OwnKept
    <2>10. LinksHonoured'
      BY <1>1, <2>4, <2>5, HonouredKept
    <2>11. UsesInOrder'
      <3>1. \A k \in DOMAIN links' : ~links'[k].used => links'[k].uses = 0
        BY <2>4, <2>5 DEF LinksInv, UsesInOrder, SameLinks
      <3>2. ASSUME NEW e \in Uses, use'[e].pc = "found"
            PROVE  \/ links'[use'[e].link].shared
                   \/ /\ links'[use'[e].link].uses = 0
                      /\ \A o \in Uses : use'[o].pc = "found" /\ use'[o].link = use'[e].link => o = e
        <4>1. CASE e = d
          <5>1. use'[e].link = l /\ links'[l].uses = 0
            BY <1>3, <2>3, <2>4, <4>1 DEF LinksInv, UsesInOrder
          <5>2. ~sh => \A o \in Uses : use'[o].pc = "found" /\ use'[o].link = l => o = d
            BY <1>1 DEF Using
          <5>3. QED
            BY <2>4, <4>1, <5>1, <5>2
        <4>2. CASE e # d
          <5>1. use'[e] = use[e] /\ use[e].pc = "found" /\ use[e].link \in DOMAIN links
            BY <1>1, <3>2, <4>2, LinkFields DEF LinksInv
          <5>2. CASE use[e].link = l
            <6>1. sh
              BY <5>1, <5>2 DEF Using
            <6>2. QED
              BY <2>4, <5>1, <5>2, <6>1
          <5>3. CASE use[e].link # l
            BY <1>1, <2>3, <2>4, <5>1, <5>3 DEF LinksInv, UsesInOrder
          <5>4. QED
            BY <5>2, <5>3
        <4>3. QED
          BY <4>1, <4>2
      <3>3. QED
        BY <3>1, <3>2 DEF UsesInOrder
    <2>12. QED
      BY <2>6, <2>9, <2>10, <2>11 DEF LinksInv
  <1>4. QED
    BY <1>2, <1>3

LEMMA SetPasswordStep ==
  ASSUME LinksInv, NEW d \in Uses, SetPassword(d)
  PROVE  LinksInv'
  <1>0. PICK l \in DOMAIN links : l = use[d].link
    BY LinkFields DEF SetPassword, LinksInv
  <1> DEFINE x == [links[l] EXCEPT !.used = TRUE, !.uses = @ + 1]
             u == links[l].user
             a == [active |-> IF links[l].purpose = "invitation" THEN TRUE ELSE account[u].active,
                   mustChange |-> FALSE]
  <1>1. links[l] \in Link /\ x \in Link /\ u \in Users
    <2>1. links[l] \in Link /\ u \in Users
      BY LinkFields DEF LinksInv
    <2>2. \A y \in Link : y.uses + 1 \in Nat
      BY DEF Link
    <2>3. \A y \in Link, n \in Nat : [y EXCEPT !.used = TRUE, !.uses = n] \in Link
      BY DEF Link
    <2>4. QED
      BY <2>1, <2>2, <2>3
  <1>2. /\ links' = [links EXCEPT ![l] = x] /\ links' \in [DOMAIN links -> Link]
        /\ account' = [account EXCEPT ![u] = a]
        /\ use' = [use EXCEPT ![d] = Answered] /\ UNCHANGED <<issue, raced>>
        /\ use[d].pc = "found"
    BY <1>0, <1>1, LinkFields DEF SetPassword, LinksInv
  <1>3. /\ links'[l].uses = links[l].uses + 1 /\ links'[l].used
        /\ links[l].uses \in Nat /\ links'[l].shared = links[l].shared
        /\ \A k \in DOMAIN links :
             /\ links'[k].by = links[k].by /\ links'[k].user = links[k].user
             /\ links'[k].purpose = links[k].purpose
             /\ k # l => links'[k] = links[k]
    BY <1>1, <1>2, LinkFields DEF LinksInv, Link
  <1>4. SameLinks
    BY <1>2, <1>3 DEF SameLinks
  <1>5. LinksTypeOK'
    <2>1. links' \in Seq(Link) /\ DOMAIN links' = DOMAIN links
      BY <1>2, LinksAreSeq DEF LinksInv
    <2>2. a \in [active : BOOLEAN, mustChange : BOOLEAN]
      BY <1>1 DEF LinksInv, LinksTypeOK
    <2>3. QED
      BY <1>2, <2>1, <2>2 DEF LinksInv, LinksTypeOK
  <1>6. \A o \in Issues : (Issuing(o)' <=> Issuing(o)) /\ (Issued(o)' <=> Issued(o))
    BY <1>2 DEF Issuing, Issued
  <1>7. OverlapsKnown'
    BY <1>2, <1>4, <1>6, OverlapsKept
  <1>8. OwnLinks'
    <2>1. \A o \in Issues : Issued(o) => issue[o].link \in DOMAIN links
      BY LinkFields DEF LinksInv, Issued, Issuing
    <2>2. \A k \in DOMAIN links : \/ links'[k].uses > 0
                                  \/ links'[k] = links[k]
      BY <1>3
    <2>3. QED
      BY <1>2, <1>4, <1>6, <2>1, <2>2, OwnKept
  <1>9. UsesInOrder'
    <2>1. \A k \in DOMAIN links' : ~links'[k].used => links'[k].uses = 0
      BY <1>3, <1>4 DEF LinksInv, UsesInOrder, SameLinks
    <2>2. \A e \in Uses : use'[e].pc = "found" => e # d /\ use'[e] = use[e] /\ use[e].link \in DOMAIN links
      BY <1>2, LinkFields DEF LinksInv, LinksTypeOK, Answered
    <2>3. ASSUME NEW e \in Uses, use'[e].pc = "found"
          PROVE  \/ links'[use'[e].link].shared
                 \/ /\ links'[use'[e].link].uses = 0
                    /\ \A o \in Uses : use'[o].pc = "found" /\ use'[o].link = use'[e].link => o = e
      <3>1. CASE use[e].link = l
        BY <1>0, <1>2, <1>3, <2>2, <2>3, <3>1 DEF LinksInv, UsesInOrder
      <3>2. CASE use[e].link # l
        BY <1>3, <2>2, <2>3, <3>2 DEF LinksInv, UsesInOrder
      <3>3. QED
        BY <3>1, <3>2
    <2>4. QED
      BY <2>1, <2>3 DEF UsesInOrder
  <1>10. LinksHonoured'
    <2>1. \A k \in DOMAIN links : Owner(k)' = Owner(k)
      BY <1>4 DEF SameLinks, Owner
    <2>2. \A k, m \in DOMAIN links' :
            k < m /\ Owner(k)' = Owner(m)' => links'[k].used \/ {links'[k].by, links'[m].by} \in raced'
      BY <1>4, <2>1 DEF LinksInv, LinksHonoured, SameLinks
    <2>3. \A v \in Users : /\ ~account[v].mustChange => ~account'[v].mustChange
                           /\ account[v].active => account'[v].active
      BY <1>1, <1>2 DEF LinksInv, LinksTypeOK
    <2>4. account'[u] = a
      BY <1>1, <1>2 DEF LinksInv, LinksTypeOK
    <2>5. ASSUME NEW k \in DOMAIN links'
          PROVE  /\ links'[k].used => \/ links'[k].uses > 0
                                      \/ links'[k].error = "superseded"
                                      \/ \E o \in Issues : {links'[k].by, o} \in raced'
                 /\ links'[k].uses <= 1 \/ links'[k].shared
                 /\ links'[k].uses > 0 =>
                      /\ links'[k].used /\ ~account'[links'[k].user].mustChange
                      /\ links'[k].purpose = "invitation" => account'[links'[k].user].active
      <3>1. k \in DOMAIN links
        BY <1>4 DEF SameLinks
      <3>2. CASE k = l
        <4>1. links[l].uses = 0 \/ links[l].shared
          BY <1>0, <1>2 DEF LinksInv, UsesInOrder
        <4>2. links'[k].uses <= 1 \/ links'[k].shared
          BY <1>3, <3>2, <4>1
        <4>3. links'[k].uses > 0 /\ links'[k].used /\ links'[k].user = u /\ links'[k].purpose = links[l].purpose
          BY <1>3, <3>2
        <4>4. ~account'[u].mustChange /\ (links[l].purpose = "invitation" => account'[u].active)
          BY <2>4
        <4>5. QED
          BY <4>2, <4>3, <4>4
      <3>3. CASE k # l
        <4>1. links'[k] = links[k] /\ links[k].user \in Users
          BY <1>3, <3>1, <3>3, LinkFields DEF LinksInv
        <4>2. /\ links[k].used => \/ links[k].uses > 0
                                  \/ links[k].error = "superseded"
                                  \/ \E o \in Issues : {links[k].by, o} \in raced
              /\ links[k].uses <= 1 \/ links[k].shared
              /\ links[k].uses > 0 =>
                   /\ links[k].used /\ ~account[links[k].user].mustChange
                   /\ links[k].purpose = "invitation" => account[links[k].user].active
          BY <3>1 DEF LinksInv, LinksHonoured
        <4>3. /\ ~account[links[k].user].mustChange => ~account'[links[k].user].mustChange
              /\ account[links[k].user].active => account'[links[k].user].active
          BY <2>3, <4>1
        <4>4. raced' = raced
          BY <1>2
        <4>5. QED
          BY <4>1, <4>2, <4>3, <4>4, Zenon
      <3>4. QED
        BY <3>2, <3>3
    <2>6. QED
      BY <2>2, <2>5 DEF LinksHonoured
  <1>11. QED
    BY <1>5, <1>7, <1>8, <1>9, <1>10 DEF LinksInv

-----------------------------------------------------------------------------

LEMMA LinksInvStep ==
  ASSUME LinksInv, [LinksNext]_linkVars
  PROVE  LinksInv'
  <1>1. CASE LinksNext
    BY <1>1, ReadUserStep, SupersedeStep, InsertLinkStep, MailLinkStep, RecordDeliveryStep, DieIssuingStep,
       ExpireStep, FindLinkStep, SetPasswordStep, DieUsingStep DEF LinksNext
  <1>2. CASE UNCHANGED linkVars
    <2>1. LinksTypeOK'
      BY <1>2 DEF linkVars, LinksInv, LinksTypeOK
    <2>2. QED
      BY <1>2, <2>1, IssueGoesOn DEF linkVars
  <1>3. QED
    BY <1>1, <1>2

LEMMA LinksInvInit ==
  ASSUME LinksInit
  PROVE  LinksInv
  <1>1. LinksTypeOK /\ DOMAIN links = {}
    BY DEF LinksInit, LinksTypeOK
  <1>2. /\ \A c \in Issues : ~Issuing(c) /\ ~Issued(c) /\ issue[c].pc # "superseded"
        /\ \A d \in Uses : use[d].pc # "found"
    BY DEF LinksInit, Issuing, Issued, NotCalled
  <1>3. OverlapsKnown /\ OwnLinks /\ UsesInOrder /\ LinksHonoured
    BY <1>1, <1>2 DEF OverlapsKnown, OwnLinks, UsesInOrder, LinksHonoured
  <1>4. QED
    BY <1>1, <1>3 DEF LinksInv

\* Links, accounts and calls keep their types.
THEOREM LinksTyped == LinksSpec => []LinksTypeOK
  <1>1. LinksInv => LinksTypeOK
    BY DEF LinksInv
  <1>2. QED
    BY <1>1, LinksInvInit, LinksInvStep, PTL DEF LinksSpec

\* createInvitation, requestPasswordReset, completeActivation and
\* completePasswordReset: one-shot links, wherever a call dies, for any users, calls
\* and number of links.
THEOREM LinksAreOneShot == LinksSpec => []LinksHonoured
  <1>1. LinksInv => LinksHonoured
    BY DEF LinksInv
  <1>2. QED
    BY <1>1, LinksInvInit, LinksInvStep, PTL DEF LinksSpec
=============================================================================
