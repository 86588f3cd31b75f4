--------------------------- MODULE MCArtifactStore ---------------------------
(* Small instances of ArtifactStore for TLC. *)
EXTENDS ArtifactStore, TLC

\* Processes and staging names are interchangeable; the keys are not, for one of
\* them starts with a torn entry.
Symmetry == Permutations(Procs) \cup Permutations(Names)
=============================================================================
