------------------------- MODULE MCBatchIngestion -------------------------
(* Small instances of BatchIngestion. *)
EXTENDS BatchIngestion, TLC

CleSymmetry == Permutations(Cles)

=============================================================================
