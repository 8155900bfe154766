------------------------------ MODULE MCMultisig ------------------------------
(* Instances of Multisig for TLC.  The calls are interchangeable.          *)
EXTENDS Multisig, TLC

CallSymmetry == Permutations(Calls)
=============================================================================
