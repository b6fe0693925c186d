---------------------------- MODULE ReviewQueue ----------------------------
(***************************************************************************)
(* Reports about pharmacies and the decisions on them: the items that      *)
(* visits.service.submit and pharmacies.service.createCandidate put into   *)
(* the review queue, and review.service (resolve and batchResolve, of      *)
(* which the first is the second for one item).                            *)
(*                                                                         *)
(* A request reads its items without a lock, then updates them and, when   *)
(* it approves, their pharmacies in a transaction. The rows it has updated *)
(* are locked until it commits; what others read until then is old.        *)
(***************************************************************************)
EXTENDS Integers

CONSTANTS
  Items,    \* ids of review_queue_items
  Places,   \* pharmacies
  Known,    \* those in the database from the start; reps find the others
  Flags,    \* outcomes of visits that raise an item
  Reviews,  \* requests to resolve items, each served once
  NoItem

VisitFlags ==
  {"duplicate", "closed", "moved", "wrong_category", "chain_not_independent", "invalid"}

ASSUME KnownAssumption == Known \subseteq Places

ASSUME FlagAssumption == Flags \subseteq VisitFlags

VARIABLES
  item,    \* rows of review_queue_items
  place,   \* status and verification_status of the pharmacies
  review,  \* requests
  met      \* items that two requests have been at work on at once

reviewVars == <<item, place, review, met>>

Decisions == {"approved", "rejected"}

PlaceStatuses == {"none", "active", "pending_review", "closed", "invalid", "duplicate", "moved"}

Item == [place : Places, flag : VisitFlags \cup {"new_pharmacy"}, status : {"pending"} \cup Decisions]

ASSUME NoItemAssumption == NoItem \notin Item

OpenReview == [pc : {"open"}, ids : SUBSET Items, decision : Decisions, locked : SUBSET Items,
         applied : SUBSET Items, wrote : [Places -> PlaceStatuses]]

Unserved == [pc |-> "ready"]

Served(how) == [pc |-> how]

FirstStatus(p) == IF p \in Known THEN "active" ELSE "pending_review"

ReviewInit ==
  /\ item = [i \in Items |-> NoItem]
  /\ place = [p \in Places |-> [status |-> IF p \in Known THEN "active" ELSE "none", verified |-> FALSE]]
  /\ review = [r \in Reviews |-> Unserved]
  /\ met = {}

-----------------------------------------------------------------------------
(* New items                                                               *)

\* submit: the outcome of a visit raises a flag.
RaiseFlag(i, p, flag) ==
  /\ item[i] = NoItem
  /\ place[p].status # "none"
  /\ item' = [item EXCEPT ![i] = [place |-> p, flag |-> flag, status |-> "pending"]]
  /\ UNCHANGED <<place, review, met>>

\* createCandidate: the pharmacy and its item, in a transaction.
CreateCandidate(i, p) ==
  /\ item[i] = NoItem
  /\ place[p].status = "none"
  /\ item' = [item EXCEPT ![i] = [place |-> p, flag |-> "new_pharmacy", status |-> "pending"]]
  /\ place' = [place EXCEPT ![p].status = "pending_review"]
  /\ UNCHANGED <<review, met>>

-----------------------------------------------------------------------------
(* resolve, batchResolve                                                   *)

Undecided(i) == item[i] # NoItem /\ item[i].status = "pending"

AtWork(r) == review[r].pc = "open"

\* Mutant: one pending item is enough.
SomeResolvable(ids) == (\A i \in ids : item[i] # NoItem) /\ (\E i \in ids : Undecided(i))

\* 404 when an item does not exist, 409 when one is resolved already.
Resolvable(ids) == \A i \in ids : Undecided(i)

Resolve(r, ids, decision) ==
  /\ review[r].pc = "ready"
  /\ IF Resolvable(ids)
     THEN /\ review' = [review EXCEPT ![r] =
               [pc |-> "open", ids |-> ids, decision |-> decision, locked |-> {}, applied |-> {},
                wrote |-> [p \in Places |-> "none"]]]
          /\ met' = met \cup {i \in ids : \E o \in Reviews : AtWork(o) /\ i \in review[o].ids}
     ELSE review' = [review EXCEPT ![r] = Served("refused")] /\ UNCHANGED met
  /\ UNCHANGED <<item, place>>

\* The update of the items waits for the row locks, one row after the other.
LockItem(r, i) ==
  /\ AtWork(r)
  /\ i \in review[r].ids \ review[r].locked
  /\ \A o \in Reviews \ {r} : AtWork(o) => i \notin review[o].locked
  /\ review' = [review EXCEPT ![r].locked = @ \cup {i}]
  /\ UNCHANGED <<item, place, met>>

\* statusMap
StatusAfter(flag) ==
  CASE flag = "new_pharmacy" -> "active"
    [] flag \in {"wrong_category", "chain_not_independent"} -> "invalid"
    [] OTHER -> flag

\* applyApprovalSideEffects, for one item after the other.
ApplySideEffects(r, i) ==
  LET p == item[i].place
  IN  /\ AtWork(r)
      /\ review[r].decision = "approved" /\ review[r].locked = review[r].ids
      /\ i \in review[r].ids \ review[r].applied
      /\ \A o \in Reviews \ {r} : AtWork(o) => review[o].wrote[p] = "none"
      /\ review' = [review EXCEPT ![r].applied = @ \cup {i},
                                  ![r].wrote = [@ EXCEPT ![p] = StatusAfter(item[i].flag)]]
      /\ UNCHANGED <<item, place, met>>

CommitReview(r) ==
  /\ AtWork(r)
  /\ review[r].locked = review[r].ids
  /\ review[r].decision = "approved" => review[r].applied = review[r].ids
  /\ item' = [i \in Items |-> IF i \in review[r].ids
                               THEN [item[i] EXCEPT !.status = review[r].decision] ELSE item[i]]
  /\ place' = [p \in Places |-> IF review[r].wrote[p] = "none" THEN place[p]
                                 ELSE [status |-> review[r].wrote[p], verified |-> TRUE]]
  /\ review' = [review EXCEPT ![r] = Served("done")]
  /\ UNCHANGED met

\* A deadlock's victim, or a connection that is lost: all is rolled back.
RollBackReview(r) ==
  /\ AtWork(r)
  /\ review' = [review EXCEPT ![r] = Served("failed")]
  /\ UNCHANGED <<item, place, met>>

ReviewNext ==
  \/ \E i \in Items, p \in Places, flag \in Flags : RaiseFlag(i, p, flag)
  \/ \E i \in Items, p \in Places : CreateCandidate(i, p)
  \/ \E r \in Reviews, ids \in SUBSET Items \ {{}}, d \in Decisions : Resolve(r, ids, d)
  \/ \E r \in Reviews, i \in Items : LockItem(r, i) \/ ApplySideEffects(r, i)
  \/ \E r \in Reviews : CommitReview(r) \/ RollBackReview(r)

ReviewSpec == ReviewInit /\ [][ReviewNext]_reviewVars

-----------------------------------------------------------------------------
(* Properties                                                              *)

ReviewTypeOK ==
  /\ item \in [Items -> Item \cup {NoItem}]
  /\ place \in [Places -> [status : PlaceStatuses, verified : BOOLEAN]]
  /\ review \in [Reviews -> OpenReview \cup {Unserved} \cup {Served(h) : h \in {"refused", "done", "failed"}}]
  /\ met \in SUBSET Items

ItemsOf(p) == {i \in Items : item[i] # NoItem /\ item[i].place = p}

Approved(p) == {i \in ItemsOf(p) : item[i].status = "approved"}

\* resolve, batchResolve: however requests on several items wait for each other,
\* roll back, refuse or overlap, a pharmacy says what was decided about it. It
\* is verified as soon as an item of it is approved, with the status that an
\* approved item asks for; without one it is as it was found. Two requests that
\* have read an item as pending may leave it rejected, and the pharmacy with
\* the status the other one approved.
ReviewsAgree ==
  \A p \in Places :
    IF place[p].verified
    THEN \E i \in ItemsOf(p) :
           /\ place[p].status = StatusAfter(item[i].flag)
           /\ item[i].status = "approved" \/ (item[i].status = "rejected" /\ i \in met)
    ELSE Approved(p) = {} /\ place[p].status \in {FirstStatus(p), "none"}
=============================================================================
