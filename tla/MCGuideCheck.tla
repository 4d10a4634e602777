---------------------------- MODULE MCGuideCheck ----------------------------
(* TLC instance of GuideCheck: two base names, one port signature, at most *)
(* one usable line in the external match file.                             *)
EXTENDS GuideCheck, TLC

CONSTANTS a, b, s

MCBase == {a, b}
MCSig  == {s}
MCSymmetry == Permutations(MCBase)
=============================================================================
