----------------------------- MODULE MCLiveBus -----------------------------
(* The bus on its own: processes and browsers are interchangeable.          *)
EXTENDS LiveBus, TLC

MCSymmetry == Permutations(Procs) \cup Permutations(Browsers)
=============================================================================
