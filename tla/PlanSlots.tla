----------------------------- MODULE PlanSlots -----------------------------
(***************************************************************************)
(* What the plan lifecycle promises to whoever reads visit_plans: a slot   *)
(* (a scope and a period) is held by one plan or by none, a plan never     *)
(* leaves its slot for another, and a plan that was superseded has one     *)
(* successor and never holds its slot again.  No locks, no transactions,   *)
(* no versions: the interleavings of VisitPlans implement these steps.     *)
(***************************************************************************)
CONSTANTS
  Plans,    \* plan ids
  NoPlan,   \* a slot that nobody holds, a plan without successor
  Slots,    \* <<scope, period>>
  NoSlot    \* the home of a plan id that is not in use

VARIABLES
  holder,   \* the live plan of each slot
  home,     \* the slot a plan was made for
  succ      \* the plan that superseded a plan

slotVars == <<holder, home, succ>>

Empty ==
  /\ holder = [s \in Slots |-> NoPlan]
  /\ home = [p \in Plans |-> NoSlot]
  /\ succ = [p \in Plans |-> NoPlan]

\* A new draft takes a slot that nobody holds.
Draft(s, p) ==
  /\ home[p] = NoSlot
  /\ holder[s] = NoPlan
  /\ home' = [home EXCEPT ![p] = s]
  /\ holder' = [holder EXCEPT ![s] = p]
  /\ UNCHANGED succ

\* A plan gives way to its successor, in its own slot or in a free one.
Supersede(s, p, t, q) ==
  /\ holder[s] = p
  /\ succ[p] = NoPlan
  /\ home[q] = NoSlot
  /\ t = s \/ holder[t] = NoPlan
  /\ home' = [home EXCEPT ![q] = t]
  /\ holder' = [[holder EXCEPT ![s] = NoPlan] EXCEPT ![t] = q]
  /\ succ' = [succ EXCEPT ![p] = q]

\* A plan is archived, or put out of force by the publish of one that is not.
Vacate(s) ==
  /\ holder' = [holder EXCEPT ![s] = NoPlan]
  /\ UNCHANGED <<home, succ>>

\* A plan of the slot comes into force, whoever held it: never one that was
\* superseded.
Install(s, p) ==
  /\ home[p] = s
  /\ succ[p] = NoPlan
  /\ holder' = [holder EXCEPT ![s] = p]
  /\ UNCHANGED <<home, succ>>

SlotStep ==
  \E s \in Slots :
    \/ Vacate(s)
    \/ \E p \in Plans : Draft(s, p) \/ Install(s, p)
    \/ \E p, q \in Plans, t \in Slots : Supersede(s, p, t, q)

SlotSpec == Empty /\ [][SlotStep]_slotVars
=============================================================================
