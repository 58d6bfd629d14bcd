----------------------------- MODULE MCLogView -----------------------------
(* Small instances of LogView for TLC. *)
EXTENDS LogView, TLC

\* The logs are interchangeable.
Symmetry == Permutations(Logs)
============================================================================
