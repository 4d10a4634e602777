------------------------------ MODULE LocalCut ------------------------------
(***************************************************************************)
(* The local proof that a suggested pair of registers has to pass          *)
(* (validate_partition_pair in passes/guide/check/region.cc, called from   *)
(* match_signals_module).  Both modules are cut at the registers matched   *)
(* so far and at the candidate: an output Q becomes an input both sides    *)
(* share, an input D an output that is compared, and the module's own      *)
(* outputs are dropped.  Child instances are removed too: their outputs    *)
(* become shared inputs, and what the modules feed into them is compared   *)
(* by nobody.  ABC decides; if it does not prove the pair and registers    *)
(* are left in it, bmcinduct_check decides.                                *)
(*                                                                         *)
(* The argument is circular: the registers are assumed to agree in order   *)
(* to show that they agree.  This module runs the two modules afterwards,  *)
(* each with its own children, to see what a pair that was accepted on     *)
(* its strength really does.  children_agreed and streak only record that  *)
(* run.                                                                    *)
(***************************************************************************)
EXTENDS Integers

CONSTANTS
  GoldReg, GateReg,       \* the registers of the two modules
  Input,                  \* the values of their common inputs
  ChildOut,               \* the values of the outputs of their children
  GoldNetlist,            \* what the modules may compute: the next state
  GateNetlist,
  k_induct,               \* -k; with a negative one the induction fails
  StepSkip,               \* the values of -skip
  MaxItems                \* bound on the register suggestions that are tried

ASSUME BoundAssumption == k_induct \in Nat /\ StepSkip \subseteq Int /\ MaxItems \in Nat

GoldState == [GoldReg -> BOOLEAN]
GateState == [GateReg -> BOOLEAN]

ASSUME NetlistAssumption ==
  /\ GoldNetlist \subseteq [Input -> [ChildOut -> [GoldState -> GoldState]]]
  /\ GateNetlist \subseteq [Input -> [ChildOut -> [GateState -> GateState]]]

VARIABLES
  gold_next, gate_next,   \* what the modules compute
  gold_init, gate_init,   \* initial values of the registers
  weak_mode, step_skip,   \* SeqCheckConfig
  cut_points,             \* register cut points: pairs of registers
  items,                  \* suggestions tried
  auth_ok, used_bmc_fb,   \* what the last acceptance says of itself
  paired,                 \* the registers its cec took for each other
  running,                \* the modules are in operation
  gold_state, gate_state,
  children_agreed,        \* the children's outputs have been the same
  streak                  \* states in a row, up to k_induct + 1, in which
                          \* the cut registers agree

modules == <<gold_next, gate_next, gold_init, gate_init, weak_mode, step_skip>>
matching == <<cut_points, items, auth_ok, used_bmc_fb, paired>>
operation == <<running, gold_state, gate_state, children_agreed, streak>>
vars == <<gold_next, gate_next, gold_init, gate_init, weak_mode, step_skip, cut_points, items,
          auth_ok, used_bmc_fb, paired, running, gold_state, gate_state, children_agreed, streak>>

(* The registers matched by name or by the external file are any: the code *)
(* tests names, so that a register with two names can be in two pairs.     *)
Init ==
  /\ gold_next \in GoldNetlist /\ gate_next \in GateNetlist
  /\ gold_init \in GoldState /\ gate_init \in GateState
  /\ weak_mode \in BOOLEAN /\ step_skip \in StepSkip
  /\ cut_points \in SUBSET (GoldReg \X GateReg)
  /\ items = 0
  /\ auth_ok = FALSE /\ used_bmc_fb = FALSE /\ paired = {}
  /\ running = FALSE
  /\ gold_state = gold_init /\ gate_state = gate_init
  /\ children_agreed = TRUE /\ streak = 0

-----------------------------------------------------------------------------
(* partition_module: the two modules cut at C.  Their inputs are Input,    *)
(* the outputs of the children and of the cut registers, which agree;      *)
(* their state is what is left of the registers.  A cut point that has no  *)
(* register on one side is skipped there with a warning; miter then finds  *)
(* no matching port and cec and dsec other outputs, so that no suggestion  *)
(* is accepted, and a register always has a D for its Q.                   *)
Agree(s, t, C) == \A p \in C : s[p[1]] = t[p[2]]

FreeGold(C) == {r \in GoldReg : \A p \in C : p[1] # r}
FreeGate(C) == {q \in GateReg : \A p \in C : p[2] # q}

residual_state(C) == FreeGold(C) # {} \/ FreeGate(C) # {}

ResidualState(C) == [FreeGold(C) -> BOOLEAN] \X [FreeGate(C) -> BOOLEAN]

Residual(s, t, C) == <<[r \in FreeGold(C) |-> s[r]], [q \in FreeGate(C) |-> t[q]]>>

(* One cycle of the cut modules: input, children's outputs, both states.   *)
LocalCycle(C) ==
  {c \in Input \X ChildOut \X GoldState \X GateState : Agree(c[3], c[4], C)}

GoldAfter(c) == gold_next[c[1]][c[2]][c[3]]
GateAfter(c) == gate_next[c[1]][c[2]][c[4]]

(* The compared outputs, the next values of the cut registers.             *)
OutputsAgree(c, C) == Agree(GoldAfter(c), GateAfter(c), C)

Follows(c, d, C) == Residual(d[3], d[4], C) = Residual(GoldAfter(c), GateAfter(c), C)

-----------------------------------------------------------------------------
(* What an ABC proof with a clean audit means.                             *)

(* A set of residual states that is never left and in which the compared   *)
(* outputs agree.                                                          *)
Closed(R, C) ==
  \A c \in LocalCycle(C) :
    Residual(c[3], c[4], C) \in R =>
      OutputsAgree(c, C) /\ Residual(GoldAfter(c), GateAfter(c), C) \in R

(* dsec: the cut modules have the same outputs in every cycle.             *)
DsecProves(C) ==
  \E R \in SUBSET ResidualState(C) :
    Residual(gold_init, gate_init, C) \in R /\ Closed(R, C)

(* cec: every residual register has one of the other side with the same    *)
(* next value; initial values are not looked at.                           *)
Pairing(P, C) ==
  /\ P \in SUBSET (FreeGold(C) \X FreeGate(C))
  /\ \A r \in FreeGold(C) : \E p \in P : p[1] = r
  /\ \A q \in FreeGate(C) : \E p \in P : p[2] = q

CecProves(P, C) ==
  /\ Pairing(P, C)
  /\ \A c \in LocalCycle(C) :
       Agree(c[3], c[4], P) => OutputsAgree(c, C) /\ OutputsAgree(c, P)

-----------------------------------------------------------------------------
(* bmcinduct_check; BmcInduct has the loops behind the two queries.  With  *)
(* -noinit the bounded check starts anywhere and accepts less.             *)

Path(p, n, C) == \A i \in 0..n-1 : Follows(p[i], p[i+1], C)

(* smtbmc -t step_skip:k_induct                                            *)
BmcPasses(C) ==
  \A n \in 0..k_induct-1 : n >= step_skip =>
    \A p \in [0..n -> LocalCycle(C)] :
      /\ Path(p, n, C)
      /\ Residual(p[0][3], p[0][4], C) = Residual(gold_init, gate_init, C)
      => OutputsAgree(p[n], C)

CircularInductionDepths(C) ==        \* mutant: the cycle to be shown is assumed too
  {n \in 0..k_induct :
     \A p \in [0..n -> LocalCycle(C)] :
       /\ Path(p, n, C)
       /\ \A i \in 0..n : OutputsAgree(p[i], C)
       => OutputsAgree(p[n], C)}

(* The depths at which no disagreement follows that many cycles of         *)
(* agreement, from whatever residual state.                                *)
InductionDepths(C) ==
  {n \in 0..k_induct :
     \A p \in [0..n -> LocalCycle(C)] :
       /\ Path(p, n, C)
       /\ \A i \in 0..n-1 : OutputsAgree(p[i], C)
       => OutputsAgree(p[n], C)}

(* smtbmc -i -t low:k_induct                                               *)
InductionSucceeds(low, C) == \E n \in InductionDepths(C) : n >= low

InductionOnly(C) ==                  \* mutant: strict mode has no base case either
  IF weak_mode THEN InductionSucceeds(step_skip, C)
  ELSE InductionSucceeds(0, C)

bmcinduct_check(C) ==
  IF weak_mode THEN InductionSucceeds(step_skip, C)
  ELSE BmcPasses(C) /\ InductionSucceeds(0, C)

-----------------------------------------------------------------------------
(* The registers matched so far and the candidate.                         *)
select_local_dff_cutpoints(cand) == cut_points \union {cand}

Applicable == ~running /\ items < MaxItems

AcceptSwapped(cand, auth, fb, P) ==  \* mutant: gold and gate are exchanged
  /\ cut_points' = cut_points \union {<<cand[2], cand[1]>>}
  /\ auth_ok' = auth /\ used_bmc_fb' = fb /\ paired' = P
  /\ items' = items + 1
  /\ UNCHANGED <<modules, operation>>

Accept(cand, auth, fb, P) ==
  /\ cut_points' = cut_points \union {cand}
  /\ auth_ok' = auth /\ used_bmc_fb' = fb /\ paired' = P
  /\ items' = items + 1
  /\ UNCHANGED <<modules, operation>>

(* ABC proves the cut modules, and the audit of its log finds nothing.     *)
ValidateByAbc(cand) ==
  LET C == select_local_dff_cutpoints(cand)
  IN  /\ Applicable
      /\ \/ DsecProves(C) /\ Accept(cand, TRUE, FALSE, {})
         \/ \E P \in SUBSET (FreeGold(C) \X FreeGate(C)) :
              CecProves(P, C) /\ Accept(cand, TRUE, FALSE, P)

(* ABC proves something, but the audit finds nets it had to complete with  *)
(* constants, boundaries that are not resolved or a name map that was not  *)
(* applied.  That clears auth_ok; the caller looks at proved only.         *)
ValidateUnaudited(cand) ==
  /\ Applicable
  /\ Accept(cand, FALSE, FALSE, {})

FallbackKeepsAuth(cand) ==           \* mutant: the fallback counts as authoritative
  LET C == select_local_dff_cutpoints(cand)
  IN  /\ Applicable
      /\ residual_state(C)
      /\ bmcinduct_check(C)
      /\ Accept(cand, TRUE, TRUE, {})

(* ABC does not, for whatever reason, and the fallback does.               *)
ValidateByBmc(cand) ==
  LET C == select_local_dff_cutpoints(cand)
  IN  /\ Applicable
      /\ residual_state(C)
      /\ bmcinduct_check(C)
      /\ Accept(cand, FALSE, TRUE, {})

(* Neither does: the suggestion is dropped.  A tool may always give up.    *)
Reject ==
  /\ Applicable
  /\ items' = items + 1
  /\ UNCHANGED <<modules, cut_points, auth_ok, used_bmc_fb, paired, operation>>

-----------------------------------------------------------------------------
(* The two modules run side by side, on the same inputs and each with its  *)
(* own children.                                                           *)
Start ==
  /\ ~running
  /\ running' = TRUE
  /\ streak' = IF Agree(gold_state, gate_state, cut_points) THEN 1 ELSE 0
  /\ UNCHANGED <<modules, matching, gold_state, gate_state, children_agreed>>

Longer(n) == IF n <= k_induct THEN n + 1 ELSE n

Clock(in, gold_out, gate_out) ==
  /\ running
  /\ gold_state' = gold_next[in][gold_out][gold_state]
  /\ gate_state' = gate_next[in][gate_out][gate_state]
  /\ children_agreed' = (children_agreed /\ gold_out = gate_out)
  /\ streak' = IF Agree(gold_state', gate_state', cut_points) THEN Longer(streak) ELSE 0
  /\ UNCHANGED <<modules, matching, running>>

Next ==
  \/ \E cand \in GoldReg \X GateReg : ValidateByAbc(cand)
  \/ \E cand \in GoldReg \X GateReg : ValidateUnaudited(cand)
  \/ \E cand \in GoldReg \X GateReg : ValidateByBmc(cand)
  \/ Reject
  \/ Start
  \/ \E in \in Input, gold_out, gate_out \in ChildOut : Clock(in, gold_out, gate_out)

Spec == Init /\ [][Next]_vars

-----------------------------------------------------------------------------
TypeOK ==
  /\ gold_next \in GoldNetlist /\ gate_next \in GateNetlist
  /\ gold_init \in GoldState /\ gate_init \in GateState
  /\ weak_mode \in BOOLEAN /\ step_skip \in StepSkip
  /\ cut_points \in SUBSET (GoldReg \X GateReg)
  /\ items \in 0..MaxItems
  /\ auth_ok \in BOOLEAN /\ used_bmc_fb \in BOOLEAN
  /\ paired \in SUBSET (GoldReg \X GateReg)
  /\ running \in BOOLEAN
  /\ gold_state \in GoldState /\ gate_state \in GateState
  /\ children_agreed \in BOOLEAN /\ streak \in 0..k_induct+1

(* The cut registers agree now if they did initially and the children's    *)
(* outputs always have; so have initially the registers a cec identified.  *)
(* No engine compares these initial values or what the children read.      *)
CutsAgree ==
  children_agreed /\ Agree(gold_init, gate_init, cut_points \union paired)
    => Agree(gold_state, gate_state, cut_points)

(* A strict fallback without -skip that accepted the last suggestion has   *)
(* proved the matched registers, those included that were matched by name  *)
(* or by a weaker proof before: base case and induction fit together, and  *)
(* assuming the registers it is about does no harm.                        *)
StrictFallbackIsSound ==
  used_bmc_fb /\ ~weak_mode /\ step_skip <= 0 => CutsAgree

(* What validate_partition_pair calls authoritative is sound in both modes *)
(* and with any -skip.                                                     *)
AuthoritativeIsSound == auth_ok => CutsAgree

(* What is left in weak mode or with -skip: registers that have agreed     *)
(* through k_induct cycles do not part again while their children agree.   *)
FallbackKeepsAgreement ==
  [][used_bmc_fb /\ streak > k_induct /\ children_agreed' => streak' > k_induct]_vars
=============================================================================
