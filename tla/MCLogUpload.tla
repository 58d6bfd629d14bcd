---------------------------- MODULE MCLogUpload ----------------------------
(* Small instances of LogUpload for TLC. *)
EXTENDS LogUpload, TLC
============================================================================
