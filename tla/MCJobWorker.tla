---------------------------- MODULE MCJobWorker ----------------------------
(* Small instances of JobWorker for TLC. *)
EXTENDS JobWorker, TLC

\* The uuids are interchangeable: sound for the invariants only.
Symmetry == Permutations(Jobs)
============================================================================
