----------------------------- MODULE FieldVisits -----------------------------
(***************************************************************************)
(* Territory assignments and the visits that resolve their stops on one    *)
(* day: assignments.service (create, updateStatus, reassign, addStops,     *)
(* removeStop), visits.service.submit and verifications.service            *)
(* (createForAssignment, syncAssignmentReassignment, syncVisitSubmission). *)
(*                                                                         *)
(* Every request reads first and writes later, at READ COMMITTED: what it  *)
(* has read may be old. The transaction of a submission is shown step by   *)
(* step: it inserts the visit and resolves the stop, counts the stops that *)
(* are still pending, and commits. A submission may carry an idempotency   *)
(* key, the same one when its client sends it again.                       *)
(***************************************************************************)
EXTENDS Integers, FiniteSets

CONSTANTS
  Assignments, Pharmacies, Visitors,
  Keys,       \* idempotency keys
  FieldRequests,   \* requests in flight, each served once
  NoVisitor, NoKey, NoStop

(* A stop is a pharmacy of an assignment: addStops skips what is in it. *)
AssignmentStops == Assignments \X Pharmacies

ASSUME NoStopAssumption == NoStop \notin AssignmentStops

ASSUME FiniteAssumption == IsFiniteSet(Assignments) /\ IsFiniteSet(Pharmacies)

VARIABLES
  assignment, \* territory_assignments: status, rep
  stop,       \* assignment_stops: stop_status, or "none"
  visits,     \* visit_reports
  verif,      \* pharmacy_verifications
  sub

fieldVars == <<assignment, stop, visits, verif, sub>>

Statuses == {"unassigned", "assigned", "in_progress", "completed"}

Transitions(from) ==
  CASE from = "unassigned"  -> {"assigned"}
    [] from = "assigned"    -> {"in_progress", "unassigned"}
    [] from = "in_progress" -> {"completed", "assigned"}
    [] from = "completed"   -> {}

StopStatuses == {"none", "pending", "skipped", "completed"}

Visit == [pharmacy: Pharmacies, rep: Visitors, key: Keys \cup {NoKey}, stop: AssignmentStops \cup {NoStop}]

(* of: the assignment it was created for, if any; it outlives its stop.    *)
Verification == [pharmacy: Pharmacies, rep: Visitors, stop: AssignmentStops \cup {NoStop}, of: SUBSET Assignments,
                 completed: BOOLEAN, at: Nat]

Ready == [pc |-> "ready"]

Over(how) == [pc |-> how]

(* createForAssignment: one verification per stop, for the rep, assigned   *)
(* after all that exist.                                                   *)
NextAt == IF verif = {} THEN 1 ELSE 1 + (CHOOSE t \in {r.at : r \in verif} : \A r \in verif : r.at <= t)

VerificationsFor(a, rep, places, at) ==
  {[pharmacy |-> p, rep |-> rep, stop |-> <<a, p>>, of |-> {a}, completed |-> FALSE, at |-> at]
   : p \in places}

(* createAssignmentWithStops, for a rep or for nobody yet, with different  *)
(* pharmacies.                                                             *)
FieldInit ==
  /\ \E rep \in [Assignments -> Visitors \cup {NoVisitor}],
        places \in {f \in [Assignments -> SUBSET Pharmacies] :
                      \A a, b \in Assignments : a # b => f[a] \cap f[b] = {}} :
       /\ assignment = [a \in Assignments |->
            [status |-> IF rep[a] = NoVisitor THEN "unassigned" ELSE "assigned", rep |-> rep[a]]]
       /\ stop = [s \in AssignmentStops |-> IF s[2] \in places[s[1]] THEN "pending" ELSE "none"]
       /\ verif = UNION {IF rep[a] = NoVisitor THEN {} ELSE VerificationsFor(a, rep[a], places[a], 1)
                         : a \in Assignments}
  /\ visits = {}
  /\ sub = [q \in FieldRequests |-> Ready]

-----------------------------------------------------------------------------
(* Locks of the open submissions: the unique entry of their visit, the row *)
(* of their stop, then that of the pharmacy (the outcome of its last visit *)
(* is kept there), and the assignment once they complete it.               *)

Submitting(q) == sub[q].pc \in {"inserted", "counted"}

SameEntry(v, w) ==
  \/ v.pharmacy = w.pharmacy /\ v.rep = w.rep
  \/ v.key # NoKey /\ v.key = w.key

EntryFree(q, v) == \A o \in FieldRequests \ {q} : Submitting(o) => ~SameEntry(sub[o].visit, v)

StopFree(q, s) == \A o \in FieldRequests \ {q} : Submitting(o) => sub[o].visit.stop # s

PharmacyFree(q, p) == \A o \in FieldRequests \ {q} :
  sub[o].pc = "counted" => sub[o].visit.pharmacy # p

AssignmentFree(q, a) == \A o \in FieldRequests \ {q} :
  sub[o].pc = "counted" /\ sub[o].completes => sub[o].visit.stop[1] # a

-----------------------------------------------------------------------------
(* visits.service.submit *)

(* Today's visits of the rep at the pharmacy are read first.               *)
SubmitCheck(q, v, outcome) ==
  /\ sub[q].pc = "ready"
  /\ sub' = [sub EXCEPT ![q] =
       IF \E w \in visits : w.pharmacy = v.pharmacy /\ w.rep = v.rep
         THEN [pc |-> "visit_already_today", visit |-> v]
         ELSE [pc |-> "checked", visit |-> v, outcome |-> outcome]]
  /\ UNCHANGED <<assignment, stop, visits, verif>>

(* Then the idempotency key: a visit that has it is the answer.            *)
SubmitLookup(q) ==
  /\ sub[q].pc = "checked"
  /\ sub' = [sub EXCEPT ![q] =
       IF sub[q].visit.key # NoKey /\ \E w \in visits : w.key = sub[q].visit.key
         THEN Over("answered") ELSE [@ EXCEPT !.pc = "looked"]]
  /\ UNCHANGED <<assignment, stop, visits, verif>>

(* The transaction inserts the visit, unless a unique index or the foreign *)
(* key to its stop refuses it, and resolves the stop.                      *)
RefusedByStop(v) == v.stop # NoStop /\ stop[v.stop] = "none"   \* mutant: no unique index

Refused(v) ==
  \/ \E w \in visits : SameEntry(v, w)
  \/ v.stop # NoStop /\ stop[v.stop] = "none"

SubmitInsertAfterStop(q) ==   \* mutant: the stop is resolved outside the transaction
  LET v == sub[q].visit IN
  /\ sub[q].pc = "looked"
  /\ EntryFree(q, v)
  /\ v.stop # NoStop => StopFree(q, v.stop)
  /\ sub' = [sub EXCEPT ![q] = IF Refused(v) THEN Over("failed") ELSE [@ EXCEPT !.pc = "inserted"]]
  /\ stop' = IF v.stop # NoStop /\ stop[v.stop] # "none" THEN [stop EXCEPT ![v.stop] = sub[q].outcome] ELSE stop
  /\ UNCHANGED <<assignment, visits, verif>>

SubmitInsert(q) ==
  LET v == sub[q].visit IN
  /\ sub[q].pc = "looked"
  /\ EntryFree(q, v)
  /\ v.stop # NoStop => StopFree(q, v.stop)
  /\ sub' = [sub EXCEPT ![q] = IF Refused(v) THEN Over("failed") ELSE [@ EXCEPT !.pc = "inserted"]]
  /\ UNCHANGED <<assignment, stop, visits, verif>>

(* It counts the stops of the assignment that are pending: its own is not, *)
(* those that other transactions resolve and have not committed still are. *)
Pending(a, own) == {s \in AssignmentStops : s[1] = a /\ s # own /\ stop[s] = "pending"}

SubmitCount(q) ==
  LET s == sub[q].visit.stop IN
  /\ sub[q].pc = "inserted"
  /\ s # NoStop => AssignmentFree(q, s[1])
  /\ PharmacyFree(q, sub[q].visit.pharmacy)
  /\ sub' = [sub EXCEPT ![q] = [pc |-> "counted", visit |-> @.visit, outcome |-> @.outcome,
       completes |-> s # NoStop /\ Pending(s[1], s) = {}]]
  /\ UNCHANGED <<assignment, stop, visits, verif>>

(* getVerificationByStopOrLatest: the one of the stop, or else the latest  *)
(* of the rep for the pharmacy; none at all may be found.                  *)
Latest(found) == {r \in found : \A o \in found : o.at <= r.at}

VerificationOf(v) ==
  LET ofStop == {r \in verif : v.stop # NoStop /\ r.stop = v.stop}
      ofRep  == {r \in verif : r.pharmacy = v.pharmacy /\ r.rep = v.rep}
  IN IF ofStop # {} THEN ofStop ELSE Latest(ofRep)

SyncedIfFound(v) ==   \* mutant: no verification is created
  LET found == VerificationOf(v) IN
  IF found = {} THEN verif ELSE LET r == CHOOSE x \in found : TRUE IN (verif \ {r}) \cup {[r EXCEPT !.completed = TRUE]}

SyncedVisit(v) ==
  LET found == VerificationOf(v) IN
  IF found = {}
    THEN verif \cup {[pharmacy |-> v.pharmacy, rep |-> v.rep, stop |-> v.stop, of |-> {},
                       completed |-> TRUE, at |-> NextAt]}
    ELSE LET r == CHOOSE x \in found : TRUE IN (verif \ {r}) \cup {[r EXCEPT !.completed = TRUE]}

SubmitCommit(q) ==
  LET v == sub[q].visit IN
  /\ sub[q].pc = "counted"
  /\ visits' = visits \cup {v}
  /\ stop' = IF v.stop = NoStop THEN stop ELSE [stop EXCEPT ![v.stop] = sub[q].outcome]
  /\ assignment' = IF sub[q].completes THEN [assignment EXCEPT ![v.stop[1]].status = "completed"]
                                       ELSE assignment
  /\ verif' = SyncedVisit(v)
  /\ sub' = [sub EXCEPT ![q] = Over("answered")]

-----------------------------------------------------------------------------
(* assignments.service *)

StatusRead(q, a, to) ==
  /\ sub[q].pc = "ready"
  /\ to \in Transitions(assignment[a].status)
  /\ sub' = [sub EXCEPT ![q] = [pc |-> "status", a |-> a, to |-> to]]
  /\ UNCHANGED <<assignment, stop, visits, verif>>

StatusWrite(q) ==
  /\ sub[q].pc = "status"
  /\ AssignmentFree(q, sub[q].a)
  /\ assignment' = [assignment EXCEPT ![sub[q].a].status = sub[q].to]
  /\ sub' = [sub EXCEPT ![q] = Over("answered")]
  /\ UNCHANGED <<stop, visits, verif>>

(* reassign, to a rep or to nobody: the status it writes follows from the  *)
(* one it read; verifications are created when the assignment has none and *)
(* are left as they are otherwise, for the caller does not say that the    *)
(* rep has changed.                                                        *)
ReassignRead(q, a, rep) ==
  /\ sub[q].pc = "ready"
  /\ sub' = [sub EXCEPT ![q] = [pc |-> "reassign", a |-> a, rep |-> rep, was |-> assignment[a]]]
  /\ UNCHANGED <<assignment, stop, visits, verif>>

ReassignedStatus(a, rep, was) ==
  CASE rep # NoVisitor /\ was.status = "unassigned" -> "assigned"
    [] rep = NoVisitor /\ was.status = "assigned"   -> "unassigned"
    [] OTHER                                    -> assignment[a].status

InAssignment(a) == {p \in Pharmacies : stop[<<a, p>>] # "none"}

HasVerifications(a) == \E r \in verif : a \in r.of

ReassignWrite(q) ==
  LET a == sub[q].a
      rep == sub[q].rep IN
  /\ sub[q].pc = "reassign"
  /\ AssignmentFree(q, a)
  /\ assignment' = [assignment EXCEPT ![a] =
       [status |-> ReassignedStatus(a, rep, sub[q].was), rep |-> rep]]
  /\ verif' = IF rep # sub[q].was.rep /\ rep # NoVisitor /\ ~HasVerifications(a)
                THEN verif \cup VerificationsFor(a, rep, InAssignment(a), NextAt) ELSE verif
  /\ sub' = [sub EXCEPT ![q] = Over("answered")]
  /\ UNCHANGED <<stop, visits>>

(* addStops: pharmacies that are active in another assignment are skipped. *)
ActiveElsewhere(a, p) == \E b \in Assignments \ {a} :
  stop[<<b, p>>] # "none" /\ assignment[b].status \in {"assigned", "in_progress"}

AddRead(q, a, p) ==
  /\ sub[q].pc = "ready"
  /\ stop[<<a, p>>] = "none" /\ ~ActiveElsewhere(a, p)
  /\ sub' = [sub EXCEPT ![q] = [pc |-> "add", s |-> <<a, p>>]]
  /\ UNCHANGED <<assignment, stop, visits, verif>>

AddWrite(q) ==
  /\ sub[q].pc = "add"
  /\ stop[sub[q].s] = "none"   \* bound: a pharmacy is added once to an assignment
  /\ AssignmentFree(q, sub[q].s[1])
  /\ stop' = [stop EXCEPT ![sub[q].s] = "pending"]
  /\ sub' = [sub EXCEPT ![q] = Over("answered")]
  /\ UNCHANGED <<assignment, visits, verif>>

(* removeStop: the status is read, then the row is deleted by id; visits   *)
(* and verifications that refer to it lose the reference.                  *)
RemoveRead(q, s) ==
  /\ sub[q].pc = "ready"
  /\ stop[s] \in {"pending", "skipped"}
  /\ sub' = [sub EXCEPT ![q] = [pc |-> "remove", s |-> s]]
  /\ UNCHANGED <<assignment, stop, visits, verif>>

Unlinked(row, s) == IF row.stop = s THEN [row EXCEPT !.stop = NoStop] ELSE row

RemoveWrite(q) ==
  LET s == sub[q].s IN
  /\ sub[q].pc = "remove"
  /\ StopFree(q, s) /\ AssignmentFree(q, s[1])
  /\ stop' = [stop EXCEPT ![s] = "none"]
  /\ visits' = {Unlinked(v, s) : v \in visits}
  /\ verif' = {Unlinked(r, s) : r \in verif}
  /\ sub' = [sub EXCEPT ![q] = Over("answered")]
  /\ UNCHANGED assignment

-----------------------------------------------------------------------------
(* A client submits a visit at a pharmacy, for the stop of an assignment   *)
(* or for none.                                                            *)
SubmitVisit(q) ==
  \E p \in Pharmacies, rep \in Visitors, key \in Keys \cup {NoKey},
     s \in AssignmentStops \cup {NoStop}, outcome \in {"completed", "skipped"} :
    /\ s # NoStop => s[2] = p /\ stop[s] # "none"
    /\ SubmitCheck(q, [pharmacy |-> p, rep |-> rep, key |-> key, stop |-> s], outcome)

FieldNext == \E q \in FieldRequests :
  \/ SubmitVisit(q) \/ SubmitLookup(q) \/ SubmitInsert(q) \/ SubmitCount(q) \/ SubmitCommit(q)
  \/ \E a \in Assignments, to \in Statuses : StatusRead(q, a, to)
  \/ \E a \in Assignments, rep \in Visitors \cup {NoVisitor} : ReassignRead(q, a, rep)
  \/ \E a \in Assignments, p \in Pharmacies : AddRead(q, a, p)
  \/ \E s \in AssignmentStops : RemoveRead(q, s)
  \/ StatusWrite(q) \/ ReassignWrite(q) \/ AddWrite(q) \/ RemoveWrite(q)

FieldSpec == FieldInit /\ [][FieldNext]_fieldVars

-----------------------------------------------------------------------------
(* Type invariant. *)
FieldTypeOK ==
  /\ \A a \in Assignments : assignment[a].status \in Statuses /\ assignment[a].rep \in Visitors \cup {NoVisitor}
  /\ stop \in [AssignmentStops -> StopStatuses]
  /\ visits \subseteq Visit
  /\ verif \subseteq Verification

(* "1 visit per pharmacy per day", and an idempotency key stands for one   *)
(* visit, however the checks of concurrent submissions interleave          *)
(* (visits.service.js:115-118, 140; migrations 052 and 015).               *)
OneVisitADay == \A v, w \in visits : v # w =>
  /\ v.pharmacy # w.pharmacy \/ v.rep # w.rep
  /\ v.key = NoKey \/ v.key # w.key

(* A stop is resolved exactly when a visit that was stored says so: a      *)
(* submission that fails resolves nothing, and one that commits is not     *)
(* forgotten (visits.service.js:142, 218-223).                             *)
StopsResolvedByVisits == \A s \in AssignmentStops :
  (stop[s] \in {"completed", "skipped"}) <=> (\E v \in visits : v.stop = s)

(* Every visit has closed a verification of its pharmacy, whoever it was   *)
(* created for and whatever became of its stop                             *)
(* (verifications.service.js:316-458).                                     *)
VisitsVerified == \A v \in visits : \E r \in verif : r.completed /\ r.pharmacy = v.pharmacy

(* "in_progress -> completed (all stops resolved)"                         *)
(* (assignments.stateMachine.js:7): the submission with which every        *)
(* pharmacy has been resolved for an assignment completes the assignment.  *)
LastStopCompletes ==
  [][\A q \in FieldRequests :
       sub[q].pc = "counted" /\ sub'[q].pc = "answered" /\ sub[q].visit.stop # NoStop =>
         LET a == sub[q].visit.stop[1] IN
         (\A p \in Pharmacies : stop'[<<a, p>>] \in {"completed", "skipped"})
           => assignment'[a].status = "completed"]_fieldVars
=============================================================================
