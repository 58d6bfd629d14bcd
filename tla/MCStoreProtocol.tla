-------------------------- MODULE MCStoreProtocol --------------------------
(* A small instance of StoreProtocol for TLC: its bounds are numbers.      *)
EXTENDS StoreProtocol
============================================================================
