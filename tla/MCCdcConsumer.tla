-------------------------- MODULE MCCdcConsumer --------------------------
(* Small instances of CdcConsumer. *)
EXTENDS CdcConsumer, TLC

Symmetry == Permutations(Members) \cup Permutations(Tables)

=============================================================================
