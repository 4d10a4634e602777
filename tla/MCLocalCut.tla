----------------------------- MODULE MCLocalCut -----------------------------
(* TLC instance of LocalCut: two registers on each side, a child with one  *)
(* output and no other inputs.  The gold module latches, is a two-stage    *)
(* feedback register or one the child is fed into; a gate register takes   *)
(* one of four functions.                                                  *)
EXTENDS LocalCut, TLC

CONSTANTS r1, r2, q1, q2, i

MCGoldReg == {r1, r2}
MCGateReg == {q1, q2}
MCInput == {i}
MCStepSkip == {0, 1}

Gold(f(_, _, _), g(_, _, _)) ==
  [in \in MCInput |-> [out \in BOOLEAN |-> [s \in GoldState |->
    [r \in MCGoldReg |-> IF r = r1 THEN f(out, s[r1], s[r2]) ELSE g(out, s[r1], s[r2])]]]]
MCGoldNetlist ==
  {Gold(LAMBDA o, a, b : a \/ b, LAMBDA o, a, b : a),
   Gold(LAMBDA o, a, b : ~b,     LAMBDA o, a, b : a),
   Gold(LAMBDA o, a, b : o # b,  LAMBDA o, a, b : a)}

(* Next values of a register with the value a; b is that of the other one. *)
Function(f, o, a, b) ==
  CASE f = "shift" -> b [] f = "invert" -> ~b [] f = "latch" -> a \/ b [] f = "child" -> o # b
Functions == {"shift", "invert", "latch", "child"}
MCGateNetlist ==
  {[in \in MCInput |-> [out \in BOOLEAN |-> [s \in GateState |->
      [q \in MCGateReg |-> Function(f[q], out, s[q], s[CHOOSE o \in MCGateReg : o # q])]]]] :
    f \in [MCGateReg -> Functions]}
MCSymmetry == Permutations(MCGateReg)
=============================================================================
