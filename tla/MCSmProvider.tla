----------------------------- MODULE MCSmProvider -----------------------------
(* Instances of SmProvider for TLC.                                        *)
EXTENDS SmProvider
=============================================================================
