----------------------------- MODULE MCTeardown -----------------------------
(* Teardown for TLC: two services are interchangeable.                     *)
EXTENDS Teardown, TLC

Symmetry == Permutations(Services)

=============================================================================
