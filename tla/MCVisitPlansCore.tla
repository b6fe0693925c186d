-------------------------- MODULE MCVisitPlansCore --------------------------
(* Behaviours whose requests overlap in time, and ones whose requests do    *)
(* not: serial is chosen at the start.                                      *)
EXTENDS MCVisitPlans

VARIABLE serial   \* in this behaviour requests do not overlap in time

MCInit == Init /\ serial \in BOOLEAN

MCNext ==
  /\ Next
  /\ serial' = serial
  /\ serial => \A v, w \in Workers : txn'[v] # Idle /\ txn'[w] # Idle => v = w

MCSpec == MCInit /\ [][MCNext]_<<vars, serial>>

\* When publishes do not overlap in time, the cascade and the conflict detector
\* leave one plan at most with planned stops on a day (visitPlans.service 611-641,
\* conflictDetector).
SerialOneVigente == serial => OneVigente
=============================================================================
