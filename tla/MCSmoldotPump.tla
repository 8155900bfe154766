---------------------------- MODULE MCSmoldotPump ----------------------------
(* Instances of SmoldotPump for TLC.                                       *)
EXTENDS SmoldotPump
=============================================================================
