--------------------------- MODULE MCMatchSignals ---------------------------
(* A name both sides may have, two names only the gold side may have, one  *)
(* of them with a bit index of its own, and two only the gate side may     *)
(* have.                                                                   *)
EXTENDS MatchSignals, TLC

CONSTANTS shared, g0, g1, k0, k1

MCGoldName == {shared, g0, g1}
MCGateName == {shared, k0, k1}
MCBitIndex == [n \in MCGoldName \union MCGateName |-> IF n = g1 THEN 1 ELSE 0]
MCMatchType == {"NONE", "PO", "DFF"}
MCScore == {0, 1, 2}
MCSymmetry == Permutations({k0, k1})
=============================================================================
