----------------------------- MODULE MCServer -----------------------------
(* A small instance of Server for TLC. *)
EXTENDS Server

ArmAndX86 == <<"beta/arm", "beta/x86">>
Arm       == {"beta/arm"}
Channels2 == <<"c1", "c2">>
Target1   == <<"t1">>
============================================================================
