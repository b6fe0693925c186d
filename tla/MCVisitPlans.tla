---------------------------- MODULE MCVisitPlans ----------------------------
(* Two overlapping windows of one scope: a day inside a period of two.      *)
EXTENDS VisitPlans, TLC

MCDays == 1..2

MCPeriods == {[from |-> 1, to |-> 2], [from |-> 2, to |-> 2]}

\* Ids and workers are interchangeable (for safety runs only).
MCSymmetry == Permutations(Plans) \cup Permutations(Alerts) \cup Permutations(Workers)
=============================================================================
