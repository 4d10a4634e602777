--------------------------- MODULE MCArithExtract ---------------------------
(* TLC instance of ArithExtract: two module pairs, two parameters, one     *)
(* arithmetic module, at most two cells a side: a mismatch can come first, *)
(* last or not at all.                                                     *)
EXTENDS ArithExtract, TLC

CONSTANTS p, q, i

MCPair == {p, q}
MCParam == {1, 2}
MCImpl == {i}
MCImplParam == [m \in MCImpl |-> 1]
MCSymmetry == Permutations(MCPair)
=============================================================================
