---------------------------- MODULE MCWsProvider ----------------------------
(* Instances of WsProvider for TLC.                                        *)
EXTENDS WsProvider
=============================================================================
