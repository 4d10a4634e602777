---------------------------- MODULE MCBmcInduct ----------------------------
(* TLC instance of BmcInduct: miters with three states, enough for outputs *)
(* that differ, agree and differ again.                                    *)
EXTENDS BmcInduct, TLC

CONSTANTS a, b, c

MCState == {a, b, c}
MCSymmetry == Permutations(MCState)
=============================================================================
