---------------------------- MODULE RoutesBudget ----------------------------
(***************************************************************************)
(* The daily money guard of the Google Routes API (services/routesMatrix): *)
(* a call reserves its estimated cost in the row of the day, goes out, and *)
(* settles afterwards.  Reservation and settlement are transactions behind *)
(* an advisory lock whose key is the UTC day of the PROCESS clock, while   *)
(* the row is the CURRENT_DATE of the TRANSACTION: the two are read one    *)
(* after the other, and midnight may fall between them.                    *)
(*                                                                         *)
(* A call is one request to Google: a chunk of a matrix or a single route. *)
(* Costs are integers (units of 0.0001 USD, the precision of the column).  *)
(***************************************************************************)
EXTENDS Integers, FiniteSets, Functions

CONSTANTS
  Calls,    \* calls that are ever made, each once
  Costs,    \* what a call may cost
  MaxCost,  \* bound on Costs (MAX_ELEMENTS_PER_CALL times the price)
  Budget,   \* DEFAULT_DAILY_BUDGET_USD
  MaxDay    \* bound on the calendar

ASSUME CostAssumption ==
  /\ Costs \subseteq Nat \ {0}
  /\ MaxCost \in Nat
  /\ \A k \in Costs : k <= MaxCost
  /\ Budget \in Nat

ASSUME DayAssumption == MaxDay \in Nat \ {0}

ASSUME FiniteCalls == IsFiniteSet(Calls)

VARIABLES
  day,       \* the clock
  spend,     \* routes_api_spend.est_cost_usd by day
  rejected,  \* routes_api_spend.rejected_calls by day
  call,      \* what each call has read, reserved and settled
  granted,   \* history: sum of the reservations made in a day's row
  late       \* history: one of them was made under another day's lock

vars == <<day, spend, rejected, call, granted, late>>

-----------------------------------------------------------------------------
Days == 1..MaxDay

Call == [pc : {"idle", "keyed", "begun", "read", "rejecting", "reserved",
               "answered", "settle_keyed", "settle_begun", "done"},
         cost : Costs \cup {0}, key : Days \cup {0}, row : Days \cup {0},
         read : Nat, reservedOn : Days \cup {0}, settledOn : Days \cup {0}]

NotMade == [pc |-> "idle", cost |-> 0, key |-> 0, row |-> 0, read |-> 0,
            reservedOn |-> 0, settledOn |-> 0]

TypeOK ==
  /\ day \in Days
  /\ spend \in [Days -> Nat]
  /\ rejected \in [Days -> Nat]
  /\ call \in [Calls -> Call]
  /\ granted \in [Days -> Nat]
  /\ late \in [Days -> BOOLEAN]

Init ==
  /\ day = 1
  /\ spend = [d \in Days |-> 0]
  /\ rejected = [d \in Days |-> 0]
  /\ call = [c \in Calls |-> NotMade]
  /\ granted = [d \in Days |-> 0]
  /\ late = [d \in Days |-> FALSE]

-----------------------------------------------------------------------------
\* Mutant: the advisory lock is not taken.
Unlocked(c) == TRUE

\* pg_advisory_xact_lock on the day key: a reservation holds it from its read
\* to its commit; a settlement takes it for its one statement.
KeyFree(c) ==
  \A e \in Calls \ {c} : ~(call[e].pc = "read" /\ call[e].key = call[c].key)

Midnight ==
  /\ day < MaxDay
  /\ day' = day + 1
  /\ UNCHANGED <<spend, rejected, call, granted, late>>

\* assertWithinBudget: dayLockKey() is evaluated, then BEGIN is sent.
ReserveKey(c) ==
  /\ call[c].pc = "idle"
  /\ \E k \in Costs :
       call' = [call EXCEPT ![c] = [@ EXCEPT !.pc = "keyed", !.cost = k,
                                             !.key = day]]
  /\ UNCHANGED <<day, spend, rejected, granted, late>>

\* BEGIN fixes CURRENT_DATE.  It waits for a pooled connection for less than
\* a day (the pool gives up long before).
ReserveBegin(c) ==
  /\ call[c].pc = "keyed"
  /\ day <= call[c].key + 1
  /\ call' = [call EXCEPT ![c] = [@ EXCEPT !.pc = "begun", !.row = day]]
  /\ UNCHANGED <<day, spend, rejected, granted, late>>

ReserveRead(c) ==
  /\ call[c].pc = "begun"
  /\ KeyFree(c)
  /\ call' = [call EXCEPT ![c] = [@ EXCEPT !.pc = "read",
                                           !.read = spend[call[c].row]]]
  /\ UNCHANGED <<day, spend, rejected, granted, late>>

Affordable(c) == call[c].read + call[c].cost <= Budget

\* Mutant: the sum is computed from the value read, not by the UPSERT.
ReservedFromRead(c) == [spend EXCEPT ![call[c].row] = call[c].read + call[c].cost]

Reserved(c) == [spend EXCEPT ![call[c].row] = @ + call[c].cost]

Reserve(c) ==
  LET r == call[c].row
  IN  /\ call[c].pc = "read"
      /\ Affordable(c)
      /\ spend' = Reserved(c)
      /\ granted' = [granted EXCEPT ![r] = @ + call[c].cost]
      /\ late' = [late EXCEPT ![r] = @ \/ call[c].key # r]
      /\ call' = [call EXCEPT ![c] = [@ EXCEPT !.pc = "reserved",
                                               !.reservedOn = r]]
      /\ UNCHANGED <<day, rejected>>

Refuse(c) ==
  /\ call[c].pc = "read"
  /\ ~Affordable(c)
  /\ call' = [call EXCEPT ![c].pc = "rejecting"]
  /\ UNCHANGED <<day, spend, rejected, granted, late>>

\* The counter has its own statement, whose failure is swallowed.
CountRejection(c) ==
  /\ call[c].pc = "rejecting"
  /\ rejected' \in {rejected, [rejected EXCEPT ![day] = @ + 1]}
  /\ call' = [call EXCEPT ![c].pc = "done"]
  /\ UNCHANGED <<day, spend, granted, late>>

Answer(c) ==
  /\ call[c].pc = "reserved"
  /\ call' = [call EXCEPT ![c].pc = "answered"]
  /\ UNCHANGED <<day, spend, rejected, granted, late>>

\* The API answers an error, or the process dies or loses its connection: an
\* open transaction rolls back, a reservation that was committed stays.
Fail(c) ==
  /\ call[c].pc \notin {"idle", "done"}
  /\ call' = [call EXCEPT ![c].pc = "done"]
  /\ UNCHANGED <<day, spend, rejected, granted, late>>

\* recordSpend, not awaited by the call.
SettleKey(c) ==
  /\ call[c].pc = "answered"
  /\ call' = [call EXCEPT ![c] = [@ EXCEPT !.pc = "settle_keyed", !.key = day]]
  /\ UNCHANGED <<day, spend, rejected, granted, late>>

SettleBegin(c) ==
  /\ call[c].pc = "settle_keyed"
  /\ call' = [call EXCEPT ![c] = [@ EXCEPT !.pc = "settle_begun", !.row = day]]
  /\ UNCHANGED <<day, spend, rejected, granted, late>>

\* Mutant: the reservation is given back and the actual cost forgotten.
DeltaRefund(c) == 0 - call[c].cost

\* No caller passes estimatedReservedUsd, so the delta is the full cost.
Delta(c) == call[c].cost

Settle(c) ==
  /\ call[c].pc = "settle_begun"
  /\ KeyFree(c)
  /\ spend' = [spend EXCEPT ![call[c].row] = @ + Delta(c)]
  /\ call' = [call EXCEPT ![c] = [@ EXCEPT !.pc = "done",
                                           !.settledOn = call[c].row]]
  /\ UNCHANGED <<day, rejected, granted, late>>

Next ==
  \/ Midnight
  \/ \E c \in Calls :
       \/ ReserveKey(c) \/ ReserveBegin(c) \/ ReserveRead(c)
       \/ Reserve(c) \/ Refuse(c) \/ CountRejection(c)
       \/ Answer(c) \/ Fail(c)
       \/ SettleKey(c) \/ SettleBegin(c) \/ Settle(c)

Spec == Init /\ [][Next]_vars

-----------------------------------------------------------------------------
\* What is let through in a day stays within the budget as long as its
\* reservations were made under that day's lock, however many run at once;
\* those that midnight overtakes cost at most one call more, all together.
OverrunBounded ==
  \A d \in Days :
    /\ granted[d] <= Budget + MaxCost
    /\ ~late[d] => granted[d] <= Budget

CostOf == [c \in Calls |-> call[c].cost]

ReservedIn(d) == {c \in Calls : call[c].reservedOn = d}
SettledIn(d)  == {c \in Calls : call[c].settledOn = d}

\* The row of a day is the sum of what was reserved and of what was settled
\* in it: no UPSERT is lost, under whichever lock it was made.
SpendAccounted ==
  \A d \in Days : spend[d] = SumFunctionOnSet(CostOf, ReservedIn(d))
                           + SumFunctionOnSet(CostOf, SettledIn(d))
=============================================================================
