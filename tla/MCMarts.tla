------------------------------ MODULE MCMarts ------------------------------
(* Small instances of Marts. *)
EXTENDS Marts, TLC

Symmetry == Permutations(Clients) \cup Permutations(Resas)

=============================================================================
