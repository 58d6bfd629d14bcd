---------------------------- MODULE MCJobSpool ----------------------------
(* Small instances of JobSpool for TLC. *)
EXTENDS JobSpool, TLC

\* Workers and uuids are interchangeable: sound for the invariants only.
Symmetry == Permutations(Workers) \cup Permutations(Jobs)
============================================================================
