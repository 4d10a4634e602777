------------------------------ MODULE XorStub -------------------------------
(***************************************************************************)
(* What an arithmetic cell is replaced by (replace_mul_with_commutative_   *)
(* stub, replace_div_with_stub): for every output an $xor of the first two *)
(* operands, zero-extended or cut to the width of the output.  A gold and  *)
(* a gate module, each one arithmetic cell one output bit of which is the  *)
(* module's output, are checked after both cells became stubs.             *)
(***************************************************************************)
EXTENDS Naturals

CONSTANT
  Width          \* width of the operands and of a quotient; a product has twice as many bits

(* The inputs a and b of both modules.                                     *)
Value == 0 .. 2^Width - 1
Inputs == [a : Value, b : Value]

(* An operand is an input or the complement of one.                        *)
Operand == [input : {"a", "b"}, inverted : BOOLEAN]
Module == {m \in [op1 : Operand, op2 : Operand, bit : 0 .. 2 * Width - 1] :
             m.op1.input # m.op2.input}

VARIABLES
  kind,            \* "mul" or "div"
  gold, gate, stubbed, verdict

vars == <<kind, gold, gate, stubbed, verdict>>

OutWidth == IF kind = "mul" THEN 2 * Width ELSE Width

Init ==
  /\ kind \in {"mul", "div"}
  /\ gold \in Module
  /\ gate \in Module
  /\ gold.bit < OutWidth /\ gate.bit < OutWidth
  /\ stubbed = FALSE
  /\ verdict = "none"

OperandValue(o, in) == IF o.inverted THEN 2^Width - 1 - in[o.input] ELSE in[o.input]
Bit(v, i) == (v \div 2^i) % 2

(* The arithmetic cell.  A quotient by zero is undefined (all x).          *)
Defined(m, in) == kind = "div" => OperandValue(m.op2, in) # 0
CellOutput(m, in) ==
  LET x == OperandValue(m.op1, in)
      y == OperandValue(m.op2, in)
  IN Bit(IF kind = "mul" THEN x * y ELSE x \div y, m.bit)

(* resize_u0: bit i of an operand widened with zeros.                      *)
resize_u0(v, i) == IF i < Width THEN Bit(v, i) ELSE 0

Stub(m, in) ==
  (resize_u0(OperandValue(m.op1, in), m.bit) + resize_u0(OperandValue(m.op2, in), m.bit)) % 2

Output(m, in) == IF stubbed THEN Stub(m, in) ELSE CellOutput(m, in)

(* Both cells become stubs.                                                *)
Extract ==
  /\ ~stubbed
  /\ stubbed' = TRUE
  /\ UNCHANGED <<kind, gold, gate, verdict>>

(* The equivalence check of the two modules as they are then.              *)
Cec ==
  /\ stubbed
  /\ verdict = "none"
  /\ verdict' = IF \A in \in Inputs : Output(gold, in) = Output(gate, in)
                THEN "PASSED" ELSE "FAILED"
  /\ UNCHANGED <<kind, gold, gate, stubbed>>

Done == verdict # "none" /\ UNCHANGED vars

Next == Extract \/ Cec \/ Done

Spec == Init /\ [][Next]_vars

-----------------------------------------------------------------------------
(* "GUIDE_CHECK PASSED: Modules %s and %s are equivalent": the modules     *)
(* agree on every input for which both are defined.                        *)
PassedMeansEquivalent ==
  verdict = "PASSED" =>
    \A in \in Inputs : Defined(gold, in) /\ Defined(gate, in) =>
      CellOutput(gold, in) = CellOutput(gate, in)
=============================================================================
