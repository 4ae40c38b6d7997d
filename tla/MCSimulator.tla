---------------------------- MODULE MCSimulator ----------------------------
(* Small instances of Simulator. *)
EXTENDS Simulator

Symmetry == Permutations(Resas)

=============================================================================
