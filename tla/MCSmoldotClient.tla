--------------------------- MODULE MCSmoldotClient ---------------------------
(* Instances of SmoldotClient for TLC.                                     *)
EXTENDS SmoldotClient

AddSymmetry == Permutations(Adds)
=============================================================================
