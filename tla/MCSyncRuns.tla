----------------------------- MODULE MCSyncRuns -----------------------------
(***************************************************************************)
(* SyncRuns for two jobs that write the same row.  The first inserts it,   *)
(* with a name and a default for the pareto class (prospect_scored; for an *)
(* employee, cuadro_basico).  The second overwrites the name (hierarchy;   *)
(* clients_ecatepec does so to a column of detalle_mostrador), and has a   *)
(* row of its own, the client, whose class it carries over to the first    *)
(* row (detalle_mostrador).                                                *)
(***************************************************************************)
EXTENDS SyncRuns

MCColumns == {"name", "pareto", "client"}

MCInserts == [c \in MCColumns |-> IF c = "client" THEN 2 ELSE 1]

MCWriters == [name |-> {1, 2}, pareto |-> {1}, client |-> {2}]

MCCarried == [pareto |-> "client"]
=============================================================================
