-------------------------- MODULE MCExtrinsicBuilder --------------------------
EXTENDS ExtrinsicBuilder, TLC

Symmetry == Permutations(Signers)

(* What doubles give: 488.0 / 7 * 7 is 487.99999999999994, 976.0 / 7 * 7   *)
(* twice that, 240.0 / 13 * 13 less than 240; 489.0 / 7 * 7 is 489.0.      *)
ASSUME DoublesAssumption ==
    /\ FallsShort(488, 7) /\ FallsShort(976, 7) /\ FallsShort(240, 13) /\ ~FallsShort(489, 7)
    /\ DecodedPhase(encodeMortal(488, 28673)) = 480 /\ DecodedPhase(encodeMortal(488, 20000)) = 488
    /\ \A factor \in (1..16) \ {7, 11, 13, 14, 15} : \A phase \in 0..8191 : ~FallsShort(phase, factor)
=============================================================================
