---------------------------- MODULE MCResultSync ----------------------------
(* ResultSync for TLC. *)
EXTENDS ResultSync, TLC

Symmetry == Permutations(Syncers)

=============================================================================
