----------------------------- MODULE BmcInduct -----------------------------
(***************************************************************************)
(* bmcinduct_check (passes/guide/check/core.cc): the sequential check that *)
(* stands for a retimed module pair and, as a fallback, for a local        *)
(* partition.  It runs yosys-smtbmc (backends/smt2/smtbmc.py) on the miter *)
(* of the two modules: bounded model checking and then temporal induction, *)
(* or with -weak induction alone.                                          *)
(*                                                                         *)
(* The miter is any total transition relation with the states in which the *)
(* outputs agree (its assertion); it has no cell that depends on being in  *)
(* the first step.  The solver is exact: a query is the set of states that *)
(* satisfy it.  A pair that passed is taken to be equivalent from then on: *)
(* Execute runs the miter from an initial state, so that a verdict can be  *)
(* compared with what the two modules do.                                  *)
(***************************************************************************)
EXTENDS Integers

CONSTANTS
  State,           \* the states of the miter, inputs included
  MaxK,            \* bound on -k
  MaxSkip,         \* bound on -skip
  MaxRun           \* bound on the cycles that are executed

ASSUME BoundAssumption == MaxK \in Nat /\ MaxSkip \in Nat /\ MaxRun \in Nat

VARIABLES
  trans,           \* the transition relation of the miter
  init,            \* its initial states
  agree,           \* the states in which the outputs of both modules agree
  conf,            \* SeqCheckConfig: k_induct, step_skip, weak_mode
  phase,           \* the command that is running, or "done"
  step,            \* the time step of smtbmc's loop
  front,           \* where that step may be, given all that is asserted
  proved,          \* what bmcinduct_check returned
  packet,          \* the failure packet, "none" if there is none
  cycle,           \* cycles executed after the verdict
  trace            \* the states the execution went through

miter == <<trans, init, agree, conf>>
execution == <<cycle, trace>>
vars == <<trans, init, agree, conf, phase, step, front, proved, packet, cycle, trace>>

k_induct  == conf.k_induct
step_skip == conf.step_skip
weak_mode == conf.weak_mode

(* -k and -skip are read with atoi and not tested: zero and negative       *)
(* numbers reach smtbmc.                                                   *)
SeqCheckConfig ==
  [k_induct : -1..MaxK, step_skip : -1..MaxSkip, weak_mode : BOOLEAN]

(* Hardware always has a next state.                                       *)
Total == {t \in SUBSET (State \X State) : \A s \in State : \E u \in State : <<s, u>> \in t}

Init ==
  /\ trans \in Total
  /\ init \in SUBSET State \ {{}}
  /\ agree \in SUBSET State
  /\ conf \in SeqCheckConfig
  /\ phase = IF weak_mode THEN "weak" ELSE "bmc"
  /\ step = IF weak_mode THEN k_induct ELSE 0
  /\ front = {}
  /\ proved = FALSE
  /\ packet = "none"
  /\ cycle = 0
  /\ trace = [i \in {} |-> 0]

Image(S) == {u \in State : \E s \in S : <<s, u>> \in trans}
Preimage(S) == {s \in State : \E u \in S : <<s, u>> \in trans}

Return(ok) ==
  /\ proved' = ok
  /\ packet' = IF ok THEN "none" ELSE phase
  /\ phase' = "done"

-----------------------------------------------------------------------------
(* Bounded model checking, -t step_skip:k_induct.                          *)

(* The states the execution can be in at this step.                        *)
BmcFrame == IF step = 0 THEN init ELSE Image(front)

BmcSkippedOneMore == step <= step_skip     \* mutant: the first checked step is skipped

BmcSkipped == step < step_skip

BmcSkip ==
  /\ phase = "bmc" /\ step < k_induct
  /\ BmcSkipped
  /\ front' = BmcFrame
  /\ step' = step + 1
  /\ UNCHANGED <<miter, phase, proved, packet, execution>>

BmcHold ==
  /\ phase = "bmc" /\ step < k_induct
  /\ ~BmcSkipped
  /\ BmcFrame \subseteq agree
  /\ front' = BmcFrame
  /\ step' = step + 1
  /\ UNCHANGED <<miter, phase, proved, packet, execution>>

BmcFail ==
  /\ phase = "bmc" /\ step < k_induct
  /\ ~BmcSkipped
  /\ ~(BmcFrame \subseteq agree)
  /\ Return(FALSE)
  /\ UNCHANGED <<miter, step, front, execution>>

BmcPassOneMore ==    \* mutant: the induction starts one step too high
  /\ phase = "bmc" /\ step >= k_induct
  /\ phase' = "induct"
  /\ step' = k_induct + 1
  /\ front' = {}
  /\ UNCHANGED <<miter, proved, packet, execution>>

(* All steps passed: the induction starts.                                 *)
BmcPass ==
  /\ phase = "bmc" /\ step >= k_induct
  /\ phase' = "induct"
  /\ step' = k_induct
  /\ front' = {}
  /\ UNCHANGED <<miter, proved, packet, execution>>

-----------------------------------------------------------------------------
(* Temporal induction: -i -t k_induct after the bounded check, and         *)
(* -i -t step_skip:k_induct in weak mode.  The loop goes back in time from *)
(* a disagreement at step k_induct, through steps that agree.              *)

inducting == phase \in {"induct", "weak"}

IndFrameFromInit ==  \* mutant: the induction assumes the initial conditions too
  IF step = k_induct THEN State \ agree ELSE init \intersect agree \intersect Preimage(front)

IndFrame == IF step = k_induct THEN State \ agree ELSE agree \intersect Preimage(front)

IndSkipped == weak_mode /\ step > k_induct - step_skip

IndSkip ==
  /\ inducting /\ step >= 0
  /\ IndSkipped
  /\ front' = IndFrame
  /\ step' = step - 1
  /\ UNCHANGED <<miter, phase, proved, packet, execution>>

IndSat ==
  /\ inducting /\ step >= 0
  /\ ~IndSkipped
  /\ IndFrame # {}
  /\ front' = IndFrame
  /\ step' = step - 1
  /\ UNCHANGED <<miter, phase, proved, packet, execution>>

(* No way back to this step: the induction succeeds.                       *)
IndUnsat ==
  /\ inducting /\ step >= 0
  /\ ~IndSkipped
  /\ IndFrame = {}
  /\ Return(TRUE)
  /\ UNCHANGED <<miter, step, front, execution>>

IndExhausted ==
  /\ inducting /\ step < 0
  /\ Return(FALSE)
  /\ UNCHANGED <<miter, step, front, execution>>

-----------------------------------------------------------------------------
(* The command fails for a reason of its own: exec_cmd returns a status.   *)
ToolFails ==
  /\ phase # "done"
  /\ Return(FALSE)
  /\ UNCHANGED <<miter, step, front, execution>>

(* The two modules run side by side after they passed.                     *)
Execute(s) ==
  /\ phase = "done" /\ proved
  /\ cycle < MaxRun
  /\ s \in IF cycle = 0 THEN init ELSE Image({trace[cycle - 1]})
  /\ trace' = [i \in 0..cycle |-> IF i = cycle THEN s ELSE trace[i]]
  /\ cycle' = cycle + 1
  /\ UNCHANGED <<miter, phase, step, front, proved, packet>>

Done == phase = "done" /\ (proved => cycle = MaxRun) /\ UNCHANGED vars

Next ==
  \/ BmcSkip \/ BmcHold \/ BmcFail \/ BmcPass
  \/ IndSkip \/ IndSat \/ IndUnsat \/ IndExhausted
  \/ ToolFails
  \/ \E s \in State : Execute(s)
  \/ Done

Spec == Init /\ [][Next]_vars

-----------------------------------------------------------------------------
TypeOK ==
  /\ trans \in Total
  /\ init \in SUBSET State \ {{}}
  /\ agree \in SUBSET State
  /\ conf \in SeqCheckConfig
  /\ phase \in {"bmc", "induct", "weak", "done"}
  /\ step \in -1..MaxK
  /\ front \in SUBSET State
  /\ proved \in BOOLEAN
  /\ packet \in {"none", "bmc", "induct", "weak"}
  /\ cycle \in 0..MaxRun
  /\ trace \in [0..cycle-1 -> State]

AgreeAt(i) == trace[i] \in agree

(* The steps the successful induction looked back over.                    *)
Depth == k_induct - step

(* "Once outputs are equal for K cycles they will never diverge": what a   *)
(* pass promises in either mode, for the modules as they run.              *)
EqualStaysEqual ==
  proved =>
    \A i, j \in 0..cycle-1 :
      i + k_induct <= j /\ (\A m \in 0..cycle-1 : i <= m /\ m < i + k_induct => AgreeAt(m))
        => AgreeAt(j)

(* In strict mode the bounded check is the base case of the induction: it  *)
(* covers as many cycles as the induction looks back over unless -skip     *)
(* takes some of them away, and then the modules agree from the first      *)
(* checked cycle on.                                                       *)
StrictProofIsSound ==
  proved /\ ~weak_mode /\ Depth + step_skip <= k_induct =>
    \A i \in 0..cycle-1 : i >= step_skip => AgreeAt(i)

(* -skip N ignores "equivalence checks in the first N cycles" and no       *)
(* others: when cycles are left to check, modules that passed agree from   *)
(* cycle N on.                                                             *)
SkipIgnoresWarmupOnly ==
  proved /\ ~weak_mode /\ step_skip < k_induct =>
    \A i \in 0..cycle-1 : i >= step_skip => AgreeAt(i)
=============================================================================
