--------------------------- MODULE MCImportWorker ---------------------------
(* ImportWorker with interchangeable ticks (for safety only). *)
EXTENDS ImportWorker, TLC

MCSymmetry == Permutations(Workers)

=============================================================================
