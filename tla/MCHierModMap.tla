---------------------------- MODULE MCHierModMap ----------------------------
(* TLC instance of HierModMap: three base names, so that two modules of  *)
(* one side compete for one of the other, and two port signatures.         *)
EXTENDS HierModMap, TLC

CONSTANTS a, b, c, s, t

MCBase == {a, b, c}
MCSig  == {s, t}
MCSymmetry == Permutations(MCBase) \union Permutations(MCSig)
=============================================================================
