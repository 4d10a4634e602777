-------------------------- MODULE BmcInduct_proofs --------------------------
(* Proofs about BmcInduct, for every miter, every -k and every -skip.      *)
EXTENDS BmcInduct, TLAPS

-----------------------------------------------------------------------------
(* The inductive invariant.                                                *)

(* A path of the miter over the steps lo..hi.                              *)
Path(p, lo, hi) ==
  /\ p \in [lo..hi -> State]
  /\ \A i \in lo..hi-1 : <<p[i], p[i+1]>> \in trans

(* An execution of n+1 cycles.                                             *)
Run(p, n) == Path(p, 0, n) /\ p[0] \in init

(* What the bounded check has established before step n.                   *)
BaseUpTo(n) ==
  \A m \in 0..n-1 : m >= step_skip => \A p : Run(p, m) => p[m] \in agree

(* A way to disagree at step k_induct through agreeing steps from n on.    *)
Divergence(q, n) ==
  /\ Path(q, n, k_induct)
  /\ \A i \in n..k_induct-1 : q[i] \in agree
  /\ q[k_induct] \notin agree

PhaseInv ==
  /\ phase = "bmc" => ~weak_mode /\ ~proved /\ step >= 0
  /\ phase = "induct" => ~weak_mode /\ ~proved /\ step <= k_induct
  /\ phase = "weak" => weak_mode /\ ~proved /\ step <= k_induct
  /\ proved => phase = "done" /\ 0 <= step /\ step <= k_induct

(* The bounded check follows every execution ...                           *)
BmcInv ==
  phase = "bmc" =>
    /\ BaseUpTo(step)
    /\ step > 0 => \A p : Run(p, step - 1) => p[step - 1] \in front

(* ... and leaves the base case.                                           *)
BaseInv == (phase = "induct" \/ proved) /\ ~weak_mode => BaseUpTo(k_induct)

(* The induction follows every divergence back in time ...                 *)
IndInv ==
  /\ inducting /\ step < k_induct =>
       \A q : Divergence(q, step + 1) => q[step + 1] \in front
  (* ... and ends with a depth that has none.                              *)
  /\ proved => \A q : ~Divergence(q, step)

(* The execution is one of the miter.                                      *)
TraceInv ==
  /\ cycle > 0 => Run(trace, cycle - 1)
  /\ cycle > 0 => proved

BmcInductInv == TypeOK /\ PhaseInv /\ BmcInv /\ BaseInv /\ IndInv /\ TraceInv

-----------------------------------------------------------------------------
(* A beginning of an execution is an execution.                            *)
LEMMA RunPrefix ==
  ASSUME NEW p, NEW n \in Nat, n > 0, Run(p, n)
  PROVE  /\ Run([i \in 0..n-1 |-> p[i]], n - 1)
         /\ p[n] \in State /\ p[n-1] \in State /\ <<p[n-1], p[n]>> \in trans
BY DEF Run, Path

(* The last state of an execution is in the next frame of the check.       *)
LEMMA FrameCovers ==
  ASSUME TypeOK, BmcInv, phase = "bmc", step >= 0, NEW p, Run(p, step)
  PROVE  p[step] \in BmcFrame
<1>1. step \in Nat
  BY DEF TypeOK
<1>2. CASE step = 0
  BY <1>2 DEF BmcFrame, Run
<1>3. CASE step > 0
  <2>1. p[step - 1] \in front
    <3> DEFINE q == [i \in 0..step-1 |-> p[i]]
    <3>1. Run(q, step - 1)
      BY <1>1, <1>3, RunPrefix
    <3>2. q[step - 1] \in front
      BY <1>3, <3>1 DEF BmcInv
    <3> QED
      BY <1>1, <1>3, <3>2
  <2>2. p[step] \in State /\ <<p[step-1], p[step]>> \in trans
    BY <1>1, <1>3, RunPrefix
  <2> QED
    BY <1>3, <2>1, <2>2 DEF BmcFrame, Image
<1> QED
  BY <1>1, <1>2, <1>3

(* The first state of a divergence is in the next frame of the induction.  *)
LEMMA DivergenceCovers ==
  ASSUME TypeOK, IndInv, inducting, 0 <= step, step <= k_induct, NEW q, Divergence(q, step)
  PROVE  q[step] \in IndFrame
<1>1. step \in Int /\ k_induct \in Int
  BY DEF TypeOK, SeqCheckConfig, k_induct
<1>2. CASE step = k_induct
  BY <1>1, <1>2 DEF IndFrame, Divergence, Path
<1>3. CASE step < k_induct
  <2> DEFINE r == [i \in step+1..k_induct |-> q[i]]
  <2>1. Divergence(r, step + 1)
    BY <1>1, <1>3 DEF Divergence, Path
  <2>2. r[step + 1] \in front
    BY <1>3, <2>1 DEF IndInv
  <2>3. q[step + 1] \in front /\ q[step] \in agree /\ q[step] \in State
        /\ <<q[step], q[step + 1]>> \in trans
    BY <1>1, <1>3, <2>2 DEF Divergence, Path
  <2>4. step # k_induct
    BY <1>1, <1>3
  <2> QED
    BY <2>3, <2>4 DEF IndFrame, Preimage
<1> QED
  BY <1>1, <1>2, <1>3

(* The notions above depend on the miter and the configuration only.       *)
LEMMA MiterFixed ==
  ASSUME UNCHANGED miter
  PROVE  /\ \A p, n : Run(p, n)' <=> Run(p, n)
         /\ \A n : BaseUpTo(n)' <=> BaseUpTo(n)
         /\ \A q, n : Divergence(q, n)' <=> Divergence(q, n)
         /\ k_induct' = k_induct /\ step_skip' = step_skip /\ weak_mode' = weak_mode
BY DEF miter, Run, Path, BaseUpTo, Divergence, k_induct, step_skip, weak_mode

-----------------------------------------------------------------------------
(* The invariant holds initially.                                          *)
LEMMA InitInv == Init => BmcInductInv
<1> SUFFICES ASSUME Init PROVE BmcInductInv
  OBVIOUS
<1> USE DEF Init
<1>1. /\ conf \in SeqCheckConfig /\ k_induct \in -1..MaxK /\ weak_mode \in BOOLEAN
      /\ MaxK \in Nat /\ MaxRun \in Nat
  BY BoundAssumption DEF SeqCheckConfig, k_induct, weak_mode
<1>2. TypeOK
  <2>1. step \in -1..MaxK
    BY <1>1
  <2>2. phase \in {"bmc", "weak"}
    BY <1>1
  <2>3. cycle \in 0..MaxRun /\ trace \in [0..cycle-1 -> State]
    BY <1>1
  <2>4. /\ trans \in Total /\ init \in SUBSET State \ {{}} /\ agree \in SUBSET State
        /\ front \in SUBSET State /\ proved \in BOOLEAN /\ packet = "none"
    OBVIOUS
  <2> QED
    BY <1>1, <2>1, <2>2, <2>3, <2>4 DEF TypeOK
<1>3. PhaseInv
  BY <1>1 DEF PhaseInv
<1>4. BmcInv /\ BaseInv
  BY <1>1 DEF BmcInv, BaseInv, BaseUpTo
<1>5. IndInv
  BY <1>1 DEF IndInv, inducting
<1>6. TraceInv
  BY DEF TraceInv
<1> QED
  BY <1>2, <1>3, <1>4, <1>5, <1>6 DEF BmcInductInv

(* Facts every step of the check relies on.                                *)
LEMMA Types ==
  ASSUME TypeOK
  PROVE  /\ step \in Int /\ k_induct \in -1..MaxK /\ step_skip \in Int
         /\ weak_mode \in BOOLEAN /\ MaxK \in Nat /\ MaxRun \in Nat /\ cycle \in Nat
         /\ proved \in BOOLEAN
BY BoundAssumption DEF TypeOK, SeqCheckConfig, k_induct, step_skip, weak_mode

(* No frame leaves the state space.                                        *)
LEMMA Frames ==
  ASSUME TypeOK
  PROVE  BmcFrame \subseteq State /\ IndFrame \subseteq State
BY DEF TypeOK, BmcFrame, IndFrame, Image, Preimage

(* A step of the bounded check that goes on.                               *)
LEMMA BmcStepInv ==
  ASSUME BmcInductInv, BmcSkip \/ BmcHold
  PROVE  BmcInductInv'
<1>1. /\ phase = "bmc" /\ phase' = "bmc" /\ step < k_induct /\ step' = step + 1
      /\ front' = BmcFrame /\ UNCHANGED <<miter, proved, packet, cycle, trace>>
      /\ step >= step_skip => BmcFrame \subseteq agree
  <2>1. TypeOK
    BY DEF BmcInductInv
  <2>2. step \in Int /\ step_skip \in Int
    BY <2>1, Types
  <2> QED
    BY <2>2 DEF BmcSkip, BmcHold, BmcSkipped, execution
<1>2. TypeOK /\ PhaseInv /\ BmcInv /\ TraceInv
  BY DEF BmcInductInv
<1>3. /\ step \in Int /\ k_induct \in -1..MaxK /\ step_skip \in Int
      /\ weak_mode \in BOOLEAN /\ MaxK \in Nat
  BY <1>2, Types
<1>4. step >= 0 /\ ~proved /\ ~weak_mode
  BY <1>1, <1>2 DEF PhaseInv
<1>5. /\ \A p, n : Run(p, n)' <=> Run(p, n)
      /\ \A n : BaseUpTo(n)' <=> BaseUpTo(n)
      /\ k_induct' = k_induct /\ step_skip' = step_skip /\ weak_mode' = weak_mode
  BY <1>1, MiterFixed
<1>6. TypeOK'
  <2>1. step' \in -1..MaxK
    BY <1>1, <1>3, <1>4
  <2>2. front' \in SUBSET State
    BY <1>1, <1>2, Frames
  <2> QED
    BY <1>1, <1>2, <2>1, <2>2 DEF TypeOK, miter
<1>7. PhaseInv'
  BY <1>1, <1>3, <1>4, <1>5 DEF PhaseInv
<1>8. BmcInv'
  <2>1. \A p : Run(p, step) => p[step] \in BmcFrame
    BY <1>1, <1>2, <1>4, FrameCovers
  <2>2. BaseUpTo(step + 1)
    <3> SUFFICES ASSUME NEW m \in 0..step, m >= step_skip, NEW p, Run(p, m)
                 PROVE  p[m] \in agree
      BY <1>3 DEF BaseUpTo
    <3>1. CASE m = step
      BY <1>1, <2>1, <3>1
    <3>2. CASE m # step
      <4>1. m \in 0..step-1
        BY <1>3, <3>2
      <4>2. BaseUpTo(step)
        BY <1>1, <1>2 DEF BmcInv
      <4> QED
        BY <4>1, <4>2 DEF BaseUpTo
    <3> QED
      BY <3>1, <3>2
  <2>3. step' - 1 = step
    BY <1>1, <1>3
  <2> QED
    BY <1>1, <1>5, <2>1, <2>2, <2>3 DEF BmcInv
<1>9. BaseInv' /\ IndInv'
  BY <1>1, <1>4 DEF BaseInv, IndInv, inducting
<1>10. TraceInv'
  BY <1>1, <1>2, <1>5 DEF TraceInv
<1> QED
  BY <1>6, <1>7, <1>8, <1>9, <1>10 DEF BmcInductInv

(* The end of the bounded check: the base case is complete.                *)
LEMMA BmcPassInv ==
  ASSUME BmcInductInv, BmcPass
  PROVE  BmcInductInv'
<1>1. /\ phase = "bmc" /\ phase' = "induct" /\ step >= k_induct /\ step' = k_induct
      /\ front' = {} /\ UNCHANGED <<miter, proved, packet, cycle, trace>>
  BY DEF BmcPass, execution
<1>2. TypeOK /\ PhaseInv /\ BmcInv /\ TraceInv
  BY DEF BmcInductInv
<1>3. step \in Int /\ k_induct \in -1..MaxK /\ step_skip \in Int /\ MaxK \in Nat
  BY <1>2, Types
<1>4. ~proved /\ ~weak_mode
  BY <1>1, <1>2 DEF PhaseInv
<1>5. /\ \A p, n : Run(p, n)' <=> Run(p, n)
      /\ \A n : BaseUpTo(n)' <=> BaseUpTo(n)
      /\ k_induct' = k_induct /\ weak_mode' = weak_mode
  BY <1>1, MiterFixed
<1>6. TypeOK'
  BY <1>1, <1>2, <1>3 DEF TypeOK, miter
<1>7. PhaseInv'
  BY <1>1, <1>3, <1>4, <1>5 DEF PhaseInv
<1>8. BaseUpTo(k_induct)
  <2>1. BaseUpTo(step)
    BY <1>1, <1>2 DEF BmcInv
  <2> QED
    BY <1>1, <1>3, <2>1 DEF BaseUpTo
<1>9. BmcInv' /\ BaseInv'
  BY <1>1, <1>5, <1>8 DEF BmcInv, BaseInv
<1>10. IndInv'
  BY <1>1, <1>3, <1>4, <1>5 DEF IndInv
<1>11. TraceInv'
  BY <1>1, <1>2, <1>5 DEF TraceInv
<1> QED
  BY <1>6, <1>7, <1>9, <1>10, <1>11 DEF BmcInductInv

(* A step of the induction that goes on.                                   *)
LEMMA IndStepInv ==
  ASSUME BmcInductInv, IndSkip \/ IndSat
  PROVE  BmcInductInv'
<1>1. /\ inducting /\ step >= 0 /\ phase' = phase /\ step' = step - 1
      /\ front' = IndFrame /\ UNCHANGED <<miter, proved, packet, cycle, trace>>
  BY DEF IndSkip, IndSat, execution
<1>2. TypeOK /\ PhaseInv /\ BaseInv /\ IndInv /\ TraceInv
  BY DEF BmcInductInv
<1>3. step \in Int /\ k_induct \in -1..MaxK /\ MaxK \in Nat
  BY <1>2, Types
<1>4. ~proved /\ step <= k_induct /\ phase # "bmc"
  BY <1>1, <1>2 DEF PhaseInv, inducting
<1>5. /\ \A p, n : Run(p, n)' <=> Run(p, n)
      /\ \A n : BaseUpTo(n)' <=> BaseUpTo(n)
      /\ \A q, n : Divergence(q, n)' <=> Divergence(q, n)
      /\ k_induct' = k_induct /\ weak_mode' = weak_mode
  BY <1>1, MiterFixed
<1>6. TypeOK'
  <2>1. step' \in -1..MaxK
    BY <1>1, <1>3, <1>4
  <2>2. front' \in SUBSET State
    BY <1>1, <1>2, Frames
  <2> QED
    BY <1>1, <1>2, <2>1, <2>2 DEF TypeOK, miter
<1>7. PhaseInv'
  BY <1>1, <1>2, <1>3, <1>4, <1>5 DEF PhaseInv
<1>8. BmcInv' /\ BaseInv'
  BY <1>1, <1>2, <1>4, <1>5 DEF BmcInv, BaseInv
<1>9. IndInv'
  <2>1. \A q : Divergence(q, step) => q[step] \in IndFrame
    BY <1>1, <1>2, <1>4, DivergenceCovers
  <2>2. step' + 1 = step
    BY <1>1, <1>3
  <2> QED
    BY <1>1, <1>4, <1>5, <2>1, <2>2 DEF IndInv
<1>10. TraceInv'
  BY <1>1, <1>2, <1>5 DEF TraceInv
<1> QED
  BY <1>6, <1>7, <1>8, <1>9, <1>10 DEF BmcInductInv

(* The induction succeeds: there is no divergence of this depth.           *)
LEMMA IndUnsatInv ==
  ASSUME BmcInductInv, IndUnsat
  PROVE  BmcInductInv'
<1>1. /\ inducting /\ step >= 0 /\ IndFrame = {} /\ phase' = "done" /\ proved' = TRUE
      /\ packet' = "none" /\ UNCHANGED <<miter, step, front, cycle, trace>>
  BY DEF IndUnsat, Return, execution
<1>2. TypeOK /\ PhaseInv /\ BaseInv /\ IndInv /\ TraceInv
  BY DEF BmcInductInv
<1>3. step \in Int /\ k_induct \in -1..MaxK /\ cycle \in Nat /\ weak_mode \in BOOLEAN
  BY <1>2, Types
<1>4. ~proved /\ step <= k_induct /\ (weak_mode \/ phase = "induct")
  BY <1>1, <1>2 DEF PhaseInv, inducting
<1>5. /\ \A p, n : Run(p, n)' <=> Run(p, n)
      /\ \A n : BaseUpTo(n)' <=> BaseUpTo(n)
      /\ \A q, n : Divergence(q, n)' <=> Divergence(q, n)
      /\ k_induct' = k_induct /\ weak_mode' = weak_mode
  BY <1>1, MiterFixed
<1>6. TypeOK'
  BY <1>1, <1>2 DEF TypeOK, miter
<1>7. PhaseInv'
  BY <1>1, <1>4, <1>5 DEF PhaseInv
<1>8. BmcInv' /\ BaseInv'
  BY <1>1, <1>2, <1>4, <1>5 DEF BmcInv, BaseInv
<1>9. IndInv'
  <2>1. \A q : ~Divergence(q, step)
    BY <1>1, <1>2, <1>4, DivergenceCovers
  <2> QED
    BY <1>1, <1>5, <2>1 DEF IndInv, inducting
<1>10. TraceInv'
  BY <1>1, <1>2, <1>5 DEF TraceInv
<1> QED
  BY <1>6, <1>7, <1>8, <1>9, <1>10 DEF BmcInductInv

(* A failure promises nothing.                                             *)
LEMMA FailInv ==
  ASSUME BmcInductInv, BmcFail \/ IndExhausted \/ ToolFails
  PROVE  BmcInductInv'
<1>1. /\ phase # "done" /\ phase' = "done" /\ proved' = FALSE /\ packet' = phase
      /\ UNCHANGED <<miter, step, front, cycle, trace>>
  BY DEF BmcFail, IndExhausted, ToolFails, Return, inducting, execution
<1>2. TypeOK /\ PhaseInv /\ TraceInv
  BY DEF BmcInductInv
<1>3. cycle \in Nat
  BY <1>2, Types
<1>4. cycle = 0
  BY <1>1, <1>2, <1>3 DEF PhaseInv, TraceInv
<1>5. TypeOK'
  BY <1>1, <1>2 DEF TypeOK, miter
<1>6. PhaseInv' /\ BmcInv' /\ BaseInv' /\ IndInv' /\ TraceInv'
  BY <1>1, <1>4 DEF PhaseInv, BmcInv, BaseInv, IndInv, TraceInv, inducting
<1> QED
  BY <1>5, <1>6 DEF BmcInductInv

(* The execution goes on along the miter: what has run so far is a run.     *)
LEMMA ExecuteRun ==
  ASSUME BmcInductInv, NEW s \in State, Execute(s)
  PROVE  Run(trace', cycle)
<1>1. /\ cycle' = cycle + 1
      /\ trace' = [i \in 0..cycle |-> IF i = cycle THEN s ELSE trace[i]]
      /\ s \in IF cycle = 0 THEN init ELSE Image({trace[cycle - 1]})
  BY DEF Execute
<1>2. TypeOK /\ TraceInv
  BY DEF BmcInductInv
<1>3. cycle \in Nat
  BY <1>2, Types
<1>4. trace \in [0..cycle-1 -> State]
  BY <1>2 DEF TypeOK
<1>6. trace' \in [0..cycle -> State]
  BY <1>1, <1>3, <1>4
<1>7. Run(trace', cycle)
  <2>1. trace'[0] \in init
    <3>1. CASE cycle = 0
      BY <1>1, <3>1
    <3>2. CASE cycle > 0
      BY <1>1, <1>2, <1>3, <3>2 DEF TraceInv, Run
    <3> QED
      BY <1>3, <3>1, <3>2
  <2>2. ASSUME NEW i \in 0..cycle-1 PROVE <<trace'[i], trace'[i+1]>> \in trans
    <3>1. CASE i = cycle - 1
      <4>1. trace'[i] = trace[cycle - 1] /\ trace'[i+1] = s /\ cycle # 0
        BY <1>1, <1>3, <3>1
      <4> QED
        BY <1>1, <4>1 DEF Image
    <3>2. CASE i # cycle - 1
      <4>1. /\ trace'[i] = trace[i] /\ trace'[i+1] = trace[i+1]
            /\ i \in 0..(cycle-1)-1 /\ cycle > 0
        BY <1>1, <1>3, <3>2
      <4> QED
        BY <1>2, <4>1 DEF TraceInv, Run, Path
    <3> QED
      BY <3>1, <3>2
  <2> QED
    BY <1>6, <2>1, <2>2 DEF Run, Path
<1> QED
  BY <1>7

(* One more cycle leaves the invariant alone.                              *)
LEMMA ExecuteInv ==
  ASSUME BmcInductInv, NEW s \in State, Execute(s)
  PROVE  BmcInductInv'
<1>1. /\ phase = "done" /\ proved /\ cycle < MaxRun /\ cycle' = cycle + 1
      /\ trace' = [i \in 0..cycle |-> IF i = cycle THEN s ELSE trace[i]]
      /\ UNCHANGED <<miter, phase, step, front, proved, packet>>
      /\ s \in IF cycle = 0 THEN init ELSE Image({trace[cycle - 1]})
  BY DEF Execute
<1>2. TypeOK /\ PhaseInv /\ BaseInv /\ IndInv /\ TraceInv
  BY DEF BmcInductInv
<1>3. cycle \in Nat /\ MaxRun \in Nat
  BY <1>2, Types
<1>4. trace \in [0..cycle-1 -> State]
  BY <1>2 DEF TypeOK
<1>5. /\ \A p, n : Run(p, n)' <=> Run(p, n)
      /\ \A n : BaseUpTo(n)' <=> BaseUpTo(n)
      /\ \A q, n : Divergence(q, n)' <=> Divergence(q, n)
      /\ k_induct' = k_induct /\ weak_mode' = weak_mode
  BY <1>1, MiterFixed
<1>6. trace' \in [0..cycle -> State] /\ cycle' - 1 = cycle /\ cycle' \in 0..MaxRun
  BY <1>1, <1>3, <1>4
<1>7. TypeOK'
  BY <1>1, <1>2, <1>6 DEF TypeOK, miter
<1>8. PhaseInv' /\ BmcInv' /\ BaseInv' /\ IndInv'
  BY <1>1, <1>2, <1>5 DEF PhaseInv, BmcInv, BaseInv, IndInv, inducting
<1>9. Run(trace', cycle)
  BY ExecuteRun
<1>10. TraceInv'
  BY <1>1, <1>5, <1>6, <1>9 DEF TraceInv
<1> QED
  BY <1>7, <1>8, <1>10 DEF BmcInductInv

(* The inductive invariant of the check and the execution after it.        *)
THEOREM BmcInductInvariant == Spec => []BmcInductInv
<1>1. ASSUME BmcInductInv, UNCHANGED vars PROVE BmcInductInv'
  <2>1. UNCHANGED <<miter, phase, step, front, proved, packet, cycle, trace>>
    BY <1>1 DEF vars, miter
  <2>2. TypeOK /\ PhaseInv /\ BmcInv /\ BaseInv /\ IndInv /\ TraceInv
    BY <1>1 DEF BmcInductInv
  <2>3. /\ \A p, n : Run(p, n)' <=> Run(p, n)
        /\ \A n : BaseUpTo(n)' <=> BaseUpTo(n)
        /\ \A q, n : Divergence(q, n)' <=> Divergence(q, n)
        /\ k_induct' = k_induct /\ weak_mode' = weak_mode
    BY <2>1, MiterFixed
  <2>4. TypeOK'
    BY <2>1, <2>2 DEF TypeOK, miter
  <2>5. PhaseInv' /\ BmcInv' /\ BaseInv' /\ IndInv' /\ TraceInv'
    BY <2>1, <2>2, <2>3 DEF PhaseInv, BmcInv, BaseInv, IndInv, TraceInv, inducting
  <2> QED
    BY <2>4, <2>5 DEF BmcInductInv
<1>2. ASSUME BmcInductInv, Next PROVE BmcInductInv'
  BY <1>1, <1>2, BmcStepInv, BmcPassInv, IndStepInv, IndUnsatInv, FailInv, ExecuteInv
  DEF Next, Done
<1> QED
  BY <1>1, <1>2, InitInv, PTL DEF Spec

-----------------------------------------------------------------------------
(* The step of the induction: in an execution that agreed for as many      *)
(* cycles as the check looked back over, the next cycle agrees.            *)
LEMMA Window ==
  ASSUME BmcInductInv, proved, NEW n \in Nat, NEW p, Run(p, n),
         n >= k_induct - step,
         \A m \in 0..n-1 : n - (k_induct - step) <= m => p[m] \in agree
  PROVE  p[n] \in agree
<1>1. TypeOK /\ PhaseInv /\ IndInv
  BY DEF BmcInductInv
<1>2. step \in Int /\ k_induct \in Int /\ MaxK \in Nat
  BY <1>1, Types
<1>3. step <= k_induct
  BY <1>1 DEF PhaseInv
<1> DEFINE q == [j \in step..k_induct |-> p[j - k_induct + n]]
<1>4. \A j \in step..k_induct : j - k_induct + n \in 0..n
  BY <1>2
<1>5. Path(q, step, k_induct)
  <2>1. q \in [step..k_induct -> State]
    BY <1>4 DEF Run, Path
  <2>2. ASSUME NEW j \in step..k_induct-1 PROVE <<q[j], q[j+1]>> \in trans
    <3>1. /\ j \in step..k_induct /\ j + 1 \in step..k_induct
          /\ j - k_induct + n \in 0..n-1
          /\ (j + 1) - k_induct + n = (j - k_induct + n) + 1
      BY <1>2
    <3>2. q[j] = p[j - k_induct + n] /\ q[j+1] = p[(j - k_induct + n) + 1]
      BY <3>1
    <3> QED
      BY <3>1, <3>2 DEF Run, Path
  <2> QED
    BY <2>1, <2>2 DEF Path
<1>6. ASSUME NEW j \in step..k_induct-1 PROVE q[j] \in agree
  <2>1. /\ j \in step..k_induct /\ j - k_induct + n \in 0..n-1
        /\ n - (k_induct - step) <= j - k_induct + n
    BY <1>2
  <2> QED
    BY <2>1
<1>7. q[k_induct] = p[n]
  <2>1. k_induct \in step..k_induct /\ k_induct - k_induct + n = n
    BY <1>2, <1>3
  <2> QED
    BY <2>1
<1>8. ~Divergence(q, step)
  BY <1>1 DEF IndInv
<1> HIDE DEF q
<1> QED
  BY <1>5, <1>6, <1>7, <1>8 DEF Divergence

(* What an execution adds to the trace.                                    *)
LEMMA ExecuteFacts ==
  ASSUME BmcInductInv, NEW s \in State, Execute(s)
  PROVE  /\ proved /\ proved' = proved /\ UNCHANGED <<agree, step>>
         /\ k_induct' = k_induct /\ step_skip' = step_skip /\ weak_mode' = weak_mode
         /\ cycle \in Nat /\ cycle' = cycle + 1
         /\ \A i \in 0..cycle-1 : trace'[i] = trace[i]
         /\ step \in Int /\ k_induct \in Int /\ step_skip \in Int
         /\ 0 <= step /\ step <= k_induct
<1>1. TypeOK /\ PhaseInv
  BY DEF BmcInductInv
<1>2. cycle \in Nat /\ step \in Int /\ k_induct \in Int /\ step_skip \in Int
  BY <1>1, Types
<1>3. proved /\ UNCHANGED <<miter, step, proved>> /\ cycle' = cycle + 1
  BY DEF Execute
<1>4. \A i \in 0..cycle-1 : trace'[i] = trace[i]
  BY <1>2 DEF Execute
<1> QED
  BY <1>1, <1>2, <1>3, <1>4, MiterFixed DEF miter, PhaseInv

(* One more cycle of a pair that passed in strict mode agrees: the bounded *)
(* check saw it, or the cycles before it are in the induction's window.    *)
LEMMA StrictStep ==
  ASSUME BmcInductInv, StrictProofIsSound, NEW s \in State, Execute(s)
  PROVE  StrictProofIsSound'
<1>0. /\ UNCHANGED <<agree, step>> /\ cycle \in Nat /\ cycle' = cycle + 1
      /\ k_induct' = k_induct /\ step_skip' = step_skip /\ weak_mode' = weak_mode
      /\ 0..cycle'-1 = 0..cycle
  <2>1. cycle \in Nat /\ cycle' = cycle + 1
    BY ExecuteFacts
  <2> QED
    BY <2>1, ExecuteFacts
<1> SUFFICES ASSUME ~weak_mode, Depth + step_skip <= k_induct,
                    NEW i \in 0..cycle, i >= step_skip
             PROVE  trace'[i] \in agree
  BY <1>0 DEF StrictProofIsSound, Depth, AgreeAt
<1>1. /\ proved /\ cycle \in Nat /\ \A m \in 0..cycle-1 : trace'[m] = trace[m]
      /\ step \in Int /\ k_induct \in Int /\ step_skip \in Int /\ 0 <= step
  BY ExecuteFacts
<1>2. \A m \in 0..cycle-1 : m >= step_skip => trace'[m] \in agree
  BY <1>1 DEF StrictProofIsSound, AgreeAt
<1>3. CASE i < cycle
  BY <1>1, <1>2, <1>3
<1>4. CASE i = cycle /\ cycle < k_induct
  <2>1. BaseUpTo(k_induct)
    BY <1>1 DEF BmcInductInv, BaseInv
  <2>2. cycle \in 0..k_induct-1 /\ cycle >= step_skip
    BY <1>1, <1>4
  <2>3. Run(trace', cycle)
    BY ExecuteRun
  <2> QED
    BY <1>4, <2>1, <2>2, <2>3 DEF BaseUpTo
<1>5. CASE i = cycle /\ cycle >= k_induct
  <2>1. step_skip <= step
    BY <1>1 DEF Depth
  <2>2. \A m \in 0..cycle-1 : cycle - (k_induct - step) <= m => trace'[m] \in agree
    BY <1>1, <1>2, <1>5, <2>1
  <2>3. Run(trace', cycle) /\ cycle >= k_induct - step
    BY <1>1, <1>5, ExecuteRun
  <2> QED
    BY <1>1, <1>5, <2>2, <2>3, Window
<1> QED
  BY <1>1, <1>3, <1>4, <1>5

(* One more cycle after k_induct cycles of agreement agrees.               *)
LEMMA WeakStep ==
  ASSUME BmcInductInv, EqualStaysEqual, NEW s \in State, Execute(s)
  PROVE  EqualStaysEqual'
<1>0. /\ UNCHANGED <<agree, step>> /\ cycle \in Nat /\ cycle' = cycle + 1
      /\ k_induct' = k_induct /\ step_skip' = step_skip /\ weak_mode' = weak_mode
      /\ 0..cycle'-1 = 0..cycle
  <2>1. cycle \in Nat /\ cycle' = cycle + 1
    BY ExecuteFacts
  <2> QED
    BY <2>1, ExecuteFacts
<1> SUFFICES ASSUME NEW i \in 0..cycle, NEW j \in 0..cycle, i + k_induct <= j,
                    \A m \in 0..cycle : i <= m /\ m < i + k_induct => trace'[m] \in agree
             PROVE  trace'[j] \in agree
  BY <1>0 DEF EqualStaysEqual, AgreeAt
<1>1. /\ proved /\ cycle \in Nat /\ \A m \in 0..cycle-1 : trace'[m] = trace[m]
      /\ step \in Int /\ k_induct \in Int /\ 0 <= step /\ step <= k_induct
  BY ExecuteFacts
<1>2. \A m \in 0..cycle-1 : i <= m /\ m < i + k_induct => trace[m] \in agree
  BY <1>1
<1>3. \A m \in 0..cycle-1 : i + k_induct <= m => trace[m] \in agree
  BY <1>1, <1>2 DEF EqualStaysEqual, AgreeAt
<1>4. \A m \in 0..cycle-1 : i <= m => trace'[m] \in agree
  BY <1>1, <1>2, <1>3
<1>5. CASE j < cycle
  BY <1>1, <1>4, <1>5
<1>6. CASE j = cycle
  <2>1. \A m \in 0..cycle-1 : cycle - (k_induct - step) <= m => trace'[m] \in agree
    BY <1>1, <1>4, <1>6
  <2>2. Run(trace', cycle) /\ cycle >= k_induct - step
    BY <1>1, <1>6, ExecuteRun
  <2> QED
    BY <1>1, <1>6, <2>1, <2>2, Window
<1> QED
  BY <1>1, <1>5, <1>6

(* A step that executes nothing leaves an execution alone that has not     *)
(* begun, or changes nothing.                                              *)
LEMMA OtherSteps ==
  ASSUME BmcInductInv, [Next]_vars
  PROVE  \/ UNCHANGED vars
         \/ cycle' = 0
         \/ \E s \in State : Execute(s)
<1>1. phase # "done" => cycle = 0
  <2>1. TypeOK /\ PhaseInv /\ TraceInv
    BY DEF BmcInductInv
  <2>2. cycle \in Nat
    BY <2>1, Types
  <2> QED
    BY <2>1, <2>2 DEF PhaseInv, TraceInv
<1> QED
  BY <1>1 DEF Next, BmcSkip, BmcHold, BmcFail, BmcPass, IndSkip, IndSat, IndUnsat,
     IndExhausted, ToolFails, Done, inducting, execution

(* Type correctness of bmcinduct_check for every miter, -k and -skip.      *)
THEOREM TypeCorrect == Spec => []TypeOK
<1>1. BmcInductInv => TypeOK
  BY DEF BmcInductInv
<1> QED
  BY <1>1, BmcInductInvariant, PTL

(* A pass of the strict check is sound from the first checked cycle on     *)
(* when -skip does not reach into the base case of the induction.          *)
THEOREM StrictCorrect == Spec => []StrictProofIsSound
<1>1. Init => StrictProofIsSound
  BY DEF Init, StrictProofIsSound
<1>2. ASSUME BmcInductInv, StrictProofIsSound, [Next]_vars PROVE StrictProofIsSound'
  <2>1. CASE UNCHANGED vars
    BY <1>2, <2>1 DEF vars, StrictProofIsSound, Depth, AgreeAt, k_induct, step_skip, weak_mode
  <2>2. CASE cycle' = 0
    BY <2>2 DEF StrictProofIsSound
  <2>3. ASSUME NEW s \in State, Execute(s) PROVE StrictProofIsSound'
    BY <1>2, <2>3, StrictStep
  <2> QED
    BY <1>2, <2>1, <2>2, <2>3, OtherSteps
<1> QED
  BY <1>1, <1>2, BmcInductInvariant, PTL DEF Spec

(* What a pass promises in either mode: modules that agreed for k_induct   *)
(* cycles in a row agree ever after.                                       *)
THEOREM WeakCorrect == Spec => []EqualStaysEqual
<1>1. Init => EqualStaysEqual
  BY DEF Init, EqualStaysEqual
<1>2. ASSUME BmcInductInv, EqualStaysEqual, [Next]_vars PROVE EqualStaysEqual'
  <2>1. CASE UNCHANGED vars
    BY <1>2, <2>1 DEF vars, EqualStaysEqual, AgreeAt, k_induct
  <2>2. CASE cycle' = 0
    BY <2>2 DEF EqualStaysEqual
  <2>3. ASSUME NEW s \in State, Execute(s) PROVE EqualStaysEqual'
    BY <1>2, <2>3, WeakStep
  <2> QED
    BY <1>2, <2>1, <2>2, <2>3, OtherSteps
<1> QED
  BY <1>1, <1>2, BmcInductInvariant, PTL DEF Spec
=============================================================================
