-------------------------- MODULE LocalCut_proofs ---------------------------
(***************************************************************************)
(* Proofs about LocalCut, for any registers, inputs, children, netlists,   *)
(* any -k and any -skip.                                                   *)
(***************************************************************************)
EXTENDS LocalCut, WellFoundedInduction, TLAPS

-----------------------------------------------------------------------------
(* The inductive invariant.                                                *)

StrictFallback == used_bmc_fb /\ ~weak_mode /\ step_skip <= 0

(* Each acceptance that counts has proved all cut points there are.        *)
ProvedInv ==
  /\ auth_ok => DsecProves(cut_points) \/ CecProves(paired, cut_points)
  /\ StrictFallback => DsecProves(cut_points)

(* Any fallback has found a depth at which the induction step holds.       *)
FallbackInv == used_bmc_fb => InductionDepths(cut_points) # {}

NotStarted ==
  ~running => gold_state = gold_init /\ gate_state = gate_init /\ streak = 0

(* The modules in operation stay in every closed set of the cut modules,   *)
(* although there the cut registers are free.                              *)
StaysIn(R) == Agree(gold_state, gate_state, cut_points)
                /\ Residual(gold_state, gate_state, cut_points) \in R

OperationInv ==
  children_agreed /\ Agree(gold_init, gate_init, cut_points) =>
    \A R \in SUBSET ResidualState(cut_points) :
      Residual(gold_init, gate_init, cut_points) \in R /\ Closed(R, cut_points) => StaysIn(R)

(* The last m cycles of the modules in operation, with agreement in all of *)
(* them, are cycles of the cut modules.                                    *)
History(p, m) ==
  /\ p \in [0..m-1 -> LocalCycle(cut_points)]
  /\ Path(p, m-1, cut_points)
  /\ \A j \in 0..m-1 : OutputsAgree(p[j], cut_points)
  /\ m > 0 => gold_state = GoldAfter(p[m-1]) /\ gate_state = GateAfter(p[m-1])

StreakInv ==
  children_agreed /\ streak > 0 =>
    Agree(gold_state, gate_state, cut_points) /\ \E p : History(p, streak - 1)

LocalCutInv ==
  TypeOK /\ ProvedInv /\ FallbackInv /\ NotStarted /\ OperationInv /\ StreakInv

-----------------------------------------------------------------------------
(* Facts about cycles and paths.                                           *)

LEMMA NetlistTypes ==
  ASSUME TypeOK
  PROVE  /\ gold_next \in [Input -> [ChildOut -> [GoldState -> GoldState]]]
         /\ gate_next \in [Input -> [ChildOut -> [GateState -> GateState]]]
BY NetlistAssumption DEF TypeOK

LEMMA CycleTypes ==
  ASSUME TypeOK, NEW C, NEW c \in LocalCycle(C)
  PROVE  /\ c[3] \in GoldState /\ c[4] \in GateState
         /\ GoldAfter(c) \in GoldState /\ GateAfter(c) \in GateState
<1>1. /\ c[1] \in Input /\ c[2] \in ChildOut /\ c[3] \in GoldState /\ c[4] \in GateState
  BY DEF LocalCycle
<1> QED
  BY <1>1, NetlistTypes DEF GoldAfter, GateAfter

LEMMA ResidualType ==
  ASSUME NEW C, NEW s \in GoldState, NEW t \in GateState
  PROVE  Residual(s, t, C) \in ResidualState(C)
<1>1. [r \in FreeGold(C) |-> s[r]] \in [FreeGold(C) -> BOOLEAN]
  BY DEF FreeGold, GoldState
<1>2. [q \in FreeGate(C) |-> t[q]] \in [FreeGate(C) -> BOOLEAN]
  BY DEF FreeGate, GateState
<1> QED
  BY <1>1, <1>2 DEF Residual, ResidualState

(* A nonempty set of natural numbers has a least member.                   *)
LEMMA LeastNumber ==
  ASSUME NEW T \in SUBSET Nat, T # {}
  PROVE  \E x \in T : \A y \in T : x <= y
<1>1. PICK x \in T : \A y \in T : <<y, x>> \notin OpToRel(<, Nat)
  BY NatLessThanWellFounded, WFMin
<1>2. ASSUME NEW y \in T PROVE x <= y
  <2>1. <<y, x>> \notin OpToRel(<, Nat) /\ <<y, x>> \in Nat \X Nat
    BY <1>1
  <2>2. ~(y < x)
    BY <2>1 DEF OpToRel
  <2> QED
    BY <2>2
<1> QED
  BY <1>2

(* A path can be left where one likes, entered where one likes and made    *)
(* longer by a cycle that follows its last one.                            *)
LEMMA PathBegin ==
  ASSUME NEW C, NEW m \in Nat, NEW p \in [0..m -> LocalCycle(C)], Path(p, m, C), NEW n \in 0..m
  PROVE  LET q == [j \in 0..n |-> p[j]]
         IN  q \in [0..n -> LocalCycle(C)] /\ Path(q, n, C) /\ q[0] = p[0] /\ q[n] = p[n]
BY DEF Path

LEMMA PathEnd ==
  ASSUME NEW C, NEW m \in Nat, NEW p \in [0..m -> LocalCycle(C)], Path(p, m, C), NEW n \in 0..m
  PROVE  LET q == [j \in 0..n |-> p[j + (m - n)]]
         IN  /\ q \in [0..n -> LocalCycle(C)] /\ Path(q, n, C) /\ q[n] = p[m]
             /\ \A j \in 0..n : j + (m - n) \in 0..m
             /\ \A j \in 0..n-1 : j + (m - n) \in 0..m-1
<1> DEFINE q == [j \in 0..n |-> p[j + (m - n)]]
<1>1. /\ \A j \in 0..n : j + (m - n) \in 0..m
      /\ \A j \in 0..n-1 : j + (m - n) \in 0..m-1
  OBVIOUS
<1>2. q \in [0..n -> LocalCycle(C)] /\ q[n] = p[m]
  BY <1>1
<1>3. ASSUME NEW j \in 0..n-1 PROVE Follows(q[j], q[j+1], C)
  <2>1. j + (m - n) \in 0..m-1 /\ (j + (m - n)) + 1 = (j + 1) + (m - n) /\ j \in 0..n /\ j + 1 \in 0..n
    BY <1>1
  <2>2. Follows(p[j + (m - n)], p[(j + (m - n)) + 1], C)
    BY <2>1 DEF Path
  <2> QED
    BY <2>1, <2>2
<1> QED
  BY <1>1, <1>2, <1>3 DEF Path

LEMMA PathLonger ==
  ASSUME NEW C, NEW m \in Nat, NEW p \in [0..m-1 -> LocalCycle(C)], Path(p, m-1, C),
         NEW c \in LocalCycle(C), m > 0 => Follows(p[m-1], c, C)
  PROVE  LET q == [j \in 0..m |-> IF j < m THEN p[j] ELSE c]
         IN  q \in [0..m -> LocalCycle(C)] /\ Path(q, m, C) /\ q[m] = c
             /\ \A j \in 0..m-1 : q[j] = p[j]
<1> DEFINE q == [j \in 0..m |-> IF j < m THEN p[j] ELSE c]
<1>1. q \in [0..m -> LocalCycle(C)] /\ q[m] = c /\ \A j \in 0..m-1 : q[j] = p[j]
  OBVIOUS
<1>2. ASSUME NEW j \in 0..m-1 PROVE Follows(q[j], q[j+1], C)
  <2>1. CASE j = m - 1
    <3>1. q[j] = p[m-1] /\ q[j+1] = c /\ m > 0
      BY <2>1
    <3> QED
      BY <3>1
  <2>2. CASE j # m - 1
    <3>1. j \in 0..(m-1)-1 /\ q[j] = p[j] /\ q[j+1] = p[j+1]
      BY <2>2
    <3> QED
      BY <3>1 DEF Path
  <2> QED
    BY <2>1, <2>2
<1> QED
  BY <1>1, <1>2 DEF Path

(* The induction step at some depth up to k_induct, applied to the end of  *)
(* a longer path.                                                          *)
LEMMA InductionApplies ==
  ASSUME NEW C, InductionDepths(C) # {}, NEW m \in Nat, k_induct <= m,
         NEW p \in [0..m -> LocalCycle(C)], Path(p, m, C),
         \A j \in 0..m-1 : OutputsAgree(p[j], C)
  PROVE  OutputsAgree(p[m], C)
<1>1. PICK n \in 0..k_induct :
        \A q \in [0..n -> LocalCycle(C)] :
          Path(q, n, C) /\ (\A j \in 0..n-1 : OutputsAgree(q[j], C)) => OutputsAgree(q[n], C)
  BY DEF InductionDepths
<1>2. n \in 0..m
  BY BoundAssumption
<1> DEFINE q == [j \in 0..n |-> p[j + (m - n)]]
<1>3. /\ q \in [0..n -> LocalCycle(C)] /\ Path(q, n, C) /\ q[n] = p[m]
      /\ \A j \in 0..n-1 : j + (m - n) \in 0..m-1
  BY <1>2, PathEnd
<1>4. \A j \in 0..n-1 : OutputsAgree(q[j], C)
  <2>1. \A j \in 0..n-1 : q[j] = p[j + (m - n)]
    BY <1>2
  <2> QED
    BY <1>3, <2>1
<1> HIDE DEF q
<1> QED
  BY <1>1, <1>3, <1>4

-----------------------------------------------------------------------------
(* What the engines prove.                                                 *)

(* The paths of the cut modules that start with the initial values.        *)
InitialPath(p, m, C) ==
  /\ p \in [0..m -> LocalCycle(C)]
  /\ Path(p, m, C)
  /\ Residual(p[0][3], p[0][4], C) = Residual(gold_init, gate_init, C)

(* Base case and induction fit together: a shortest path to a disagreement *)
(* is too long for the bounded check and too short for the induction.      *)
LEMMA InitialPathsAgree ==
  ASSUME NEW C, BmcPasses(C), InductionDepths(C) # {}, TypeOK, step_skip <= 0
  PROVE  \A m \in Nat : \A p : InitialPath(p, m, C) => OutputsAgree(p[m], C)
<1> DEFINE T == {m \in Nat : \E p : InitialPath(p, m, C) /\ ~OutputsAgree(p[m], C)}
<1>0. step_skip \in Int /\ k_induct \in Nat
  BY BoundAssumption DEF TypeOK
<1>1. ASSUME T # {} PROVE FALSE
  <2>1. PICK m \in T : \A y \in T : m <= y
    BY <1>1, LeastNumber
  <2>2. m \in Nat
    OBVIOUS
  <2>3. PICK p : InitialPath(p, m, C) /\ ~OutputsAgree(p[m], C)
    OBVIOUS
  <2>4. p \in [0..m -> LocalCycle(C)] /\ Path(p, m, C)
    BY <2>3 DEF InitialPath
  <2>5. ASSUME NEW j \in 0..m-1 PROVE OutputsAgree(p[j], C)
    <3> DEFINE q == [h \in 0..j |-> p[h]]
    <3>1. j \in 0..m /\ j \in Nat /\ j < m
      BY <2>2
    <3>2. q \in [0..j -> LocalCycle(C)] /\ Path(q, j, C) /\ q[0] = p[0] /\ q[j] = p[j]
      BY <2>2, <2>4, <3>1, PathBegin
    <3> HIDE DEF q
    <3>3. InitialPath(q, j, C)
      BY <2>3, <3>2 DEF InitialPath
    <3>4. j \notin T
      BY <2>1, <2>2, <3>1
    <3> QED
      BY <3>1, <3>2, <3>3, <3>4
  <2>6. CASE m < k_induct
    <3>1. m \in 0..k_induct-1 /\ m >= step_skip
      BY <1>0, <2>2, <2>6
    <3> QED
      BY <2>3, <2>4, <3>1 DEF BmcPasses, InitialPath
  <2>7. CASE k_induct <= m
    BY <2>2, <2>3, <2>4, <2>5, <2>7, InductionApplies
  <2> QED
    BY <1>0, <2>2, <2>6, <2>7
<1> QED
  BY <1>1

(* So the residual states these paths lead to are a closed set.            *)
LEMMA StrictProves ==
  ASSUME NEW C, BmcPasses(C), InductionDepths(C) # {}, TypeOK, step_skip <= 0
  PROVE  DsecProves(C)
<1> DEFINE first == Residual(gold_init, gate_init, C)
           Reached(x) == \E m \in Nat : \E p : InitialPath(p, m, C)
                                                 /\ x = Residual(GoldAfter(p[m]), GateAfter(p[m]), C)
           R == {x \in ResidualState(C) : x = first \/ Reached(x)}
<1>1. first \in R
  BY ResidualType DEF TypeOK
<1>2. ASSUME NEW c \in LocalCycle(C), Residual(c[3], c[4], C) \in R
      PROVE  OutputsAgree(c, C) /\ Residual(GoldAfter(c), GateAfter(c), C) \in R
  <2>1. \E m \in Nat : \E q : InitialPath(q, m, C) /\ q[m] = c
    <3>1. CASE Residual(c[3], c[4], C) = first
      <4> DEFINE q == [j \in 0..0 |-> c]
      <4>1. q \in [0..0 -> LocalCycle(C)] /\ Path(q, 0, C) /\ q[0] = c
        BY DEF Path
      <4> HIDE DEF q
      <4>2. InitialPath(q, 0, C)
        BY <3>1, <4>1 DEF InitialPath
      <4> QED
        BY <4>1, <4>2
    <3>2. CASE Reached(Residual(c[3], c[4], C))
      <4>1. PICK m, p : m \in Nat /\ InitialPath(p, m, C)
                  /\ Residual(c[3], c[4], C) = Residual(GoldAfter(p[m]), GateAfter(p[m]), C)
        BY <3>2
      <4> DEFINE n == m + 1
                 q == [j \in 0..n |-> IF j < n THEN p[j] ELSE c]
      <4>2. n \in Nat /\ n - 1 = m /\ 0 \in 0..n-1 /\ n > 0
        BY <4>1
      <4>3. p \in [0..n-1 -> LocalCycle(C)] /\ Path(p, n-1, C) /\ Follows(p[n-1], c, C)
        BY <4>1, <4>2 DEF InitialPath, Follows
      <4> HIDE DEF n
      <4>4. q \in [0..n -> LocalCycle(C)] /\ Path(q, n, C) /\ q[n] = c
            /\ \A j \in 0..n-1 : q[j] = p[j]
        BY <4>2, <4>3, PathLonger
      <4> HIDE DEF q
      <4>5. q[0] = p[0]
        BY <4>2, <4>4
      <4>6. InitialPath(q, n, C)
        BY <4>1, <4>4, <4>5 DEF InitialPath
      <4> QED
        BY <4>2, <4>4, <4>6
    <3> QED
      BY <1>2, <3>1, <3>2
  <2>2. PICK m, q : m \in Nat /\ InitialPath(q, m, C) /\ q[m] = c
    BY <2>1
  <2>3. OutputsAgree(c, C)
    BY <2>2, InitialPathsAgree
  <2>4. Residual(GoldAfter(c), GateAfter(c), C) \in ResidualState(C)
    BY CycleTypes, ResidualType
  <2> QED
    BY <2>2, <2>3, <2>4
<1> HIDE DEF R
<1>3. Closed(R, C)
  BY <1>2 DEF Closed
<1>4. R \in SUBSET ResidualState(C)
  BY DEF R
<1> QED
  BY <1>1, <1>3, <1>4 DEF DsecProves

(* A cec of registers whose initial values agree proves what a dsec does.  *)
LEMMA CecWithInitialValues ==
  ASSUME NEW C, NEW P, CecProves(P, C), Agree(gold_init, gate_init, P), TypeOK
  PROVE  DsecProves(C)
<1> DEFINE R == {x \in ResidualState(C) : \A p \in P : x[1][p[1]] = x[2][p[2]]}
<1>1. \A p \in P : p[1] \in FreeGold(C) /\ p[2] \in FreeGate(C)
  BY DEF CecProves, Pairing
<1>2. ASSUME NEW s \in GoldState, NEW t \in GateState
      PROVE  Residual(s, t, C) \in R <=> Agree(s, t, P)
  <2>1. Residual(s, t, C) \in ResidualState(C)
    BY ResidualType
  <2>2. \A p \in P : Residual(s, t, C)[1][p[1]] = s[p[1]] /\ Residual(s, t, C)[2][p[2]] = t[p[2]]
    BY <1>1 DEF Residual
  <2> QED
    BY <2>1, <2>2 DEF Agree
<1>3. R \in SUBSET ResidualState(C)
  OBVIOUS
<1> HIDE DEF R
<1>4. Residual(gold_init, gate_init, C) \in R
  BY <1>2 DEF TypeOK
<1>5. ASSUME NEW c \in LocalCycle(C), Residual(c[3], c[4], C) \in R
      PROVE  OutputsAgree(c, C) /\ Residual(GoldAfter(c), GateAfter(c), C) \in R
  <2>1. /\ c[3] \in GoldState /\ c[4] \in GateState
        /\ GoldAfter(c) \in GoldState /\ GateAfter(c) \in GateState
    BY CycleTypes
  <2>2. OutputsAgree(c, C) /\ OutputsAgree(c, P)
    BY <1>2, <1>5, <2>1 DEF CecProves
  <2> QED
    BY <1>2, <2>1, <2>2 DEF OutputsAgree
<1> QED
  BY <1>3, <1>4, <1>5 DEF DsecProves, Closed
-----------------------------------------------------------------------------
(* The cycles of operation.                                                *)

(* The m cycles before now, in which the cut registers agreed, and c.      *)
Continued(q, m, c) ==
  /\ q \in [0..m -> LocalCycle(cut_points)]
  /\ Path(q, m, cut_points) /\ q[m] = c
  /\ \A j \in 0..m-1 : OutputsAgree(q[j], cut_points)

(* A cycle in which the children agree is one of the cut modules, and      *)
(* continues what happened before.                                         *)
LEMMA HistoryLonger ==
  ASSUME TypeOK, Agree(gold_state, gate_state, cut_points), NEW m \in Nat, NEW p, History(p, m),
         NEW in \in Input, NEW out \in ChildOut
  PROVE  \E q : Continued(q, m, <<in, out, gold_state, gate_state>>)
<1> DEFINE c == <<in, out, gold_state, gate_state>>
           q == [j \in 0..m |-> IF j < m THEN p[j] ELSE c]
<1>1. c \in LocalCycle(cut_points)
  BY DEF TypeOK, LocalCycle
<1>2. p \in [0..m-1 -> LocalCycle(cut_points)] /\ Path(p, m-1, cut_points)
  BY DEF History
<1>3. m > 0 => Follows(p[m-1], c, cut_points)
  BY DEF History, Follows
<1> HIDE DEF c
<1>4. /\ q \in [0..m -> LocalCycle(cut_points)] /\ Path(q, m, cut_points) /\ q[m] = c
      /\ \A j \in 0..m-1 : q[j] = p[j]
  BY <1>1, <1>2, <1>3, PathLonger
<1>5. \A j \in 0..m-1 : OutputsAgree(q[j], cut_points)
  BY <1>4 DEF History
<1> HIDE DEF q
<1>6. Continued(q, m, c)
  BY <1>4, <1>5 DEF Continued
<1> QED
  BY <1>6 DEF c

(* What a step of operation does when the children agree.                  *)
LEMMA ClockFacts ==
  ASSUME LocalCutInv, NEW in \in Input, NEW gold_out \in ChildOut, NEW gate_out \in ChildOut,
         Clock(in, gold_out, gate_out)
  PROVE  LET c == <<in, gold_out, gold_state, gate_state>>
         IN  /\ gold_state' \in GoldState /\ gate_state' \in GateState
             /\ children_agreed' => /\ children_agreed /\ gold_out = gate_out
                                    /\ gold_state' = GoldAfter(c) /\ gate_state' = GateAfter(c)
<1>1. TypeOK
  BY DEF LocalCutInv
<1>2. gold_state' \in GoldState /\ gate_state' \in GateState
  BY <1>1, NetlistTypes DEF Clock, TypeOK
<1>3. children_agreed' => children_agreed /\ gold_out = gate_out
  BY DEF Clock
<1> QED
  BY <1>2, <1>3 DEF Clock, GoldAfter, GateAfter

(* After k_induct cycles of agreement a fallback, strict or weak, with or  *)
(* without -skip, allows no disagreement.                                  *)
LEMMA ClockKeepsAgreement ==
  ASSUME LocalCutInv, NEW in \in Input, NEW gold_out \in ChildOut, NEW gate_out \in ChildOut,
         Clock(in, gold_out, gate_out),
         used_bmc_fb, streak > k_induct, children_agreed'
  PROVE  Agree(gold_state', gate_state', cut_points)
<1> DEFINE c == <<in, gold_out, gold_state, gate_state>>
<1>1. TypeOK /\ StreakInv /\ InductionDepths(cut_points) # {}
  BY DEF LocalCutInv, FallbackInv
<1>2. k_induct \in Nat /\ streak - 1 = k_induct /\ streak > 0
  BY <1>1, BoundAssumption DEF TypeOK
<1>3. /\ children_agreed /\ gold_out = gate_out
      /\ gold_state' = GoldAfter(c) /\ gate_state' = GateAfter(c)
  BY ClockFacts
<1>4. Agree(gold_state, gate_state, cut_points) /\ \E p : History(p, k_induct)
  BY <1>1, <1>2, <1>3 DEF StreakInv
<1>5. PICK p : History(p, k_induct)
  BY <1>4
<1>6. PICK q : Continued(q, k_induct, c)
  BY <1>1, <1>2, <1>4, <1>5, HistoryLonger
<1> HIDE DEF c
<1>7. OutputsAgree(q[k_induct], cut_points)
  BY <1>1, <1>2, <1>6, InductionApplies DEF Continued
<1> QED
  BY <1>3, <1>6, <1>7 DEF OutputsAgree, Continued

-----------------------------------------------------------------------------
(* The notions of the local proof depend on the two modules only.          *)
LEMMA ModulesFixed ==
  ASSUME UNCHANGED modules
  PROVE  /\ \A C : DsecProves(C)' <=> DsecProves(C)
         /\ \A P, C : CecProves(P, C)' <=> CecProves(P, C)
         /\ \A R, C : Closed(R, C)' <=> Closed(R, C)
         /\ \A C : InductionDepths(C)' = InductionDepths(C)
         /\ \A c, C : OutputsAgree(c, C)' <=> OutputsAgree(c, C)
         /\ \A c, d, C : Follows(c, d, C)' <=> Follows(c, d, C)
         /\ \A c : GoldAfter(c)' = GoldAfter(c) /\ GateAfter(c)' = GateAfter(c)
         /\ UNCHANGED <<gold_next, gate_next, gold_init, gate_init, weak_mode, step_skip>>
<1>1. UNCHANGED <<gold_next, gate_next, gold_init, gate_init, weak_mode, step_skip>>
  BY DEF modules
<1>2. \A c : GoldAfter(c)' = GoldAfter(c) /\ GateAfter(c)' = GateAfter(c)
  BY <1>1 DEF GoldAfter, GateAfter
<1>3. /\ \A c, C : OutputsAgree(c, C)' <=> OutputsAgree(c, C)
      /\ \A c, d, C : Follows(c, d, C)' <=> Follows(c, d, C)
  BY <1>2 DEF OutputsAgree, Follows
<1>4. \A R, C : Closed(R, C)' <=> Closed(R, C)
  BY <1>2, <1>3 DEF Closed
<1>5. \A C : DsecProves(C)' <=> DsecProves(C)
  BY <1>1, <1>4 DEF DsecProves
<1>6. \A P, C : CecProves(P, C)' <=> CecProves(P, C)
  BY <1>3 DEF CecProves
<1>7. \A C : InductionDepths(C)' = InductionDepths(C)
  BY <1>3 DEF InductionDepths, Path
<1> QED
  BY <1>1, <1>2, <1>3, <1>4, <1>5, <1>6, <1>7

(* The invariant holds initially.                                          *)
LEMMA InitInv == Init => LocalCutInv
<1> SUFFICES ASSUME Init PROVE LocalCutInv
  OBVIOUS
<1>1. TypeOK
  <2>1. items \in 0..MaxItems /\ streak \in 0..k_induct+1
    BY BoundAssumption DEF Init
  <2>2. gold_state \in GoldState /\ gate_state \in GateState
    BY DEF Init
  <2>3. /\ auth_ok \in BOOLEAN /\ used_bmc_fb \in BOOLEAN /\ running \in BOOLEAN
        /\ children_agreed \in BOOLEAN /\ paired \in SUBSET (GoldReg \X GateReg)
    BY DEF Init
  <2> QED
    BY <2>1, <2>2, <2>3 DEF Init, TypeOK
<1>2. ProvedInv /\ FallbackInv /\ NotStarted /\ OperationInv
  BY DEF Init, ProvedInv, StrictFallback, FallbackInv, NotStarted, OperationInv, StaysIn
<1>3. StreakInv
  BY DEF Init, StreakInv
<1> QED
  BY <1>1, <1>2, <1>3 DEF LocalCutInv

(* An acceptance whose proof is about the new cut points preserves the     *)
(* invariant: nothing runs yet, so that nothing was relied on before.      *)
LEMMA AcceptInv ==
  ASSUME LocalCutInv, NEW cand \in GoldReg \X GateReg, Applicable,
         NEW auth \in BOOLEAN, NEW fb \in BOOLEAN, NEW P \in SUBSET (GoldReg \X GateReg),
         Accept(cand, auth, fb, P),
         auth => DsecProves(cut_points \union {cand}) \/ CecProves(P, cut_points \union {cand}),
         fb => InductionDepths(cut_points \union {cand}) # {},
         fb /\ ~weak_mode /\ step_skip <= 0 => DsecProves(cut_points \union {cand})
  PROVE  LocalCutInv'
<1> DEFINE C == cut_points \union {cand}
<1>1. TypeOK /\ NotStarted
  BY DEF LocalCutInv
<1>2. /\ UNCHANGED modules /\ UNCHANGED <<running, gold_state, gate_state, children_agreed, streak>>
      /\ cut_points' = C /\ auth_ok' = auth /\ used_bmc_fb' = fb /\ paired' = P
      /\ items' = items + 1 /\ ~running /\ items < MaxItems
  BY DEF Accept, Applicable, operation
<1>3. /\ \A D : DsecProves(D)' <=> DsecProves(D)
      /\ \A Q, D : CecProves(Q, D)' <=> CecProves(Q, D)
      /\ \A D : InductionDepths(D)' = InductionDepths(D)
      /\ UNCHANGED <<gold_next, gate_next, gold_init, gate_init, weak_mode, step_skip>>
  BY <1>2, ModulesFixed
<1>4. TypeOK'
  <2>1. C \in SUBSET (GoldReg \X GateReg)
    BY <1>1 DEF TypeOK
  <2>2. items' \in 0..MaxItems
    BY <1>1, <1>2, BoundAssumption DEF TypeOK
  <2> HIDE DEF C
  <2> QED
    BY <1>1, <1>2, <1>3, <2>1, <2>2 DEF TypeOK
<1>5. ProvedInv' /\ FallbackInv'
  BY <1>2, <1>3 DEF ProvedInv, FallbackInv, StrictFallback
<1>6. gold_state' = gold_init' /\ gate_state' = gate_init' /\ streak' = 0 /\ ~running'
  BY <1>1, <1>2, <1>3 DEF NotStarted
<1>7. NotStarted' /\ OperationInv' /\ StreakInv'
  BY <1>6 DEF NotStarted, OperationInv, StaysIn, StreakInv
<1> QED
  BY <1>4, <1>5, <1>7 DEF LocalCutInv

(* A step that leaves the cut points, and what they rest on, alone.        *)
LEMMA ProofsKept ==
  ASSUME LocalCutInv, UNCHANGED modules, UNCHANGED <<cut_points, auth_ok, used_bmc_fb, paired>>
  PROVE  ProvedInv' /\ FallbackInv'
<1>1. ProvedInv /\ FallbackInv
  BY DEF LocalCutInv
<1>2. /\ \A D : DsecProves(D)' <=> DsecProves(D)
      /\ \A Q, D : CecProves(Q, D)' <=> CecProves(Q, D)
      /\ \A D : InductionDepths(D)' = InductionDepths(D)
      /\ UNCHANGED <<weak_mode, step_skip>>
  BY ModulesFixed
<1> QED
  BY <1>1, <1>2 DEF ProvedInv, FallbackInv, StrictFallback

(* Steps that leave the cut points and the registers alone.                *)
LEMMA IdleInv ==
  ASSUME LocalCutInv, UNCHANGED modules, items' \in 0..MaxItems,
         UNCHANGED <<cut_points, auth_ok, used_bmc_fb, paired>>,
         UNCHANGED <<running, gold_state, gate_state, children_agreed, streak>>
  PROVE  LocalCutInv'
<1>1. TypeOK /\ NotStarted /\ OperationInv /\ StreakInv
  BY DEF LocalCutInv
<1>2. /\ \A R, C : Closed(R, C)' <=> Closed(R, C)
      /\ \A c, C : OutputsAgree(c, C)' <=> OutputsAgree(c, C)
      /\ \A c, d, C : Follows(c, d, C)' <=> Follows(c, d, C)
      /\ \A c : GoldAfter(c)' = GoldAfter(c) /\ GateAfter(c)' = GateAfter(c)
      /\ UNCHANGED <<gold_next, gate_next, gold_init, gate_init, weak_mode, step_skip>>
  BY ModulesFixed
<1>3. TypeOK'
  BY <1>1, <1>2 DEF TypeOK
<1>4. ProvedInv' /\ FallbackInv'
  BY ProofsKept
<1>5. NotStarted' /\ OperationInv'
  BY <1>1, <1>2 DEF NotStarted, OperationInv, StaysIn
<1>6. StreakInv'
  <2>1. \A p, m : History(p, m) => History(p, m)'
    BY <1>2 DEF History, Path
  <2> QED
    BY <1>1, <2>1 DEF StreakInv
<1> QED
  BY <1>3, <1>4, <1>5, <1>6 DEF LocalCutInv

(* The first state of operation.                                           *)
LEMMA StartInv ==
  ASSUME LocalCutInv, Start
  PROVE  LocalCutInv'
<1>1. TypeOK /\ NotStarted /\ OperationInv
  BY DEF LocalCutInv
<1>2. /\ UNCHANGED modules /\ UNCHANGED <<cut_points, items, auth_ok, used_bmc_fb, paired>>
      /\ UNCHANGED <<gold_state, gate_state, children_agreed>> /\ running' = TRUE
      /\ streak' = IF Agree(gold_state, gate_state, cut_points) THEN 1 ELSE 0
  BY DEF Start, matching
<1>3. /\ \A R, C : Closed(R, C)' <=> Closed(R, C)
      /\ UNCHANGED <<gold_next, gate_next, gold_init, gate_init, weak_mode, step_skip>>
  BY <1>2, ModulesFixed
<1>4. TypeOK'
  <2>1. streak' \in 0..k_induct+1
    BY <1>2, BoundAssumption
  <2> QED
    BY <1>1, <1>2, <1>3, <2>1 DEF TypeOK
<1>5. ProvedInv' /\ FallbackInv'
  BY <1>2, ProofsKept
<1>6. NotStarted' /\ OperationInv'
  BY <1>1, <1>2, <1>3 DEF NotStarted, OperationInv, StaysIn
<1>7. StreakInv'
  <2> SUFFICES ASSUME streak' > 0
               PROVE  Agree(gold_state, gate_state, cut_points)' /\ \E p : History(p, streak - 1)'
    BY DEF StreakInv
  <2>1. Agree(gold_state, gate_state, cut_points) /\ streak' = 1
    BY <1>2
  <2> DEFINE p == [j \in 0..-1 |-> 0]
  <2>2. p \in [0..-1 -> LocalCycle(cut_points')]
    OBVIOUS
  <2> HIDE DEF p
  <2>3. History(p, streak - 1)'
    BY <2>1, <2>2 DEF History, Path
  <2> QED
    BY <1>2, <2>1, <2>3 DEF Agree
<1> QED
  BY <1>4, <1>5, <1>6, <1>7 DEF LocalCutInv
(* A cycle of operation: as long as the children agree the modules are in  *)
(* a state the cut modules can be in.                                      *)
LEMMA ClockInv ==
  ASSUME LocalCutInv, NEW in \in Input, NEW gold_out \in ChildOut, NEW gate_out \in ChildOut,
         Clock(in, gold_out, gate_out)
  PROVE  LocalCutInv'
<1> DEFINE c == <<in, gold_out, gold_state, gate_state>>
<1>1. TypeOK /\ OperationInv /\ StreakInv
  BY DEF LocalCutInv
<1>2. /\ UNCHANGED modules /\ UNCHANGED <<cut_points, items, auth_ok, used_bmc_fb, paired>>
      /\ running /\ running' = running
      /\ children_agreed' = (children_agreed /\ gold_out = gate_out)
      /\ streak' = IF Agree(gold_state', gate_state', cut_points) THEN Longer(streak) ELSE 0
  BY DEF Clock, matching
<1>3. /\ \A R, C : Closed(R, C)' <=> Closed(R, C)
      /\ \A d, C : OutputsAgree(d, C)' <=> OutputsAgree(d, C)
      /\ \A d, e, C : Follows(d, e, C)' <=> Follows(d, e, C)
      /\ \A d : GoldAfter(d)' = GoldAfter(d) /\ GateAfter(d)' = GateAfter(d)
      /\ UNCHANGED <<gold_next, gate_next, gold_init, gate_init, weak_mode, step_skip>>
  BY <1>2, ModulesFixed
<1>4. /\ gold_state' \in GoldState /\ gate_state' \in GateState
      /\ children_agreed' => /\ children_agreed /\ gold_out = gate_out
                             /\ gold_state' = GoldAfter(c) /\ gate_state' = GateAfter(c)
  BY ClockFacts
<1>5. k_induct \in Nat /\ streak \in 0..k_induct+1
  BY <1>1, BoundAssumption DEF TypeOK
<1>6. TypeOK'
  <2>1. streak' \in 0..k_induct+1
    BY <1>2, <1>5 DEF Longer
  <2>2. children_agreed' \in BOOLEAN
    BY <1>2
  <2> QED
    BY <1>1, <1>2, <1>3, <1>4, <2>1, <2>2 DEF TypeOK
<1>7. ProvedInv' /\ FallbackInv' /\ NotStarted'
  BY <1>2, ProofsKept DEF NotStarted
<1>8. c[3] = gold_state /\ c[4] = gate_state
  OBVIOUS
<1>9. Agree(gold_state, gate_state, cut_points) => c \in LocalCycle(cut_points)
  BY <1>1 DEF TypeOK, LocalCycle
<1>10. OperationInv'
  <2> SUFFICES ASSUME children_agreed', Agree(gold_init, gate_init, cut_points),
                      NEW R \in SUBSET ResidualState(cut_points),
                      Residual(gold_init, gate_init, cut_points) \in R,
                      Closed(R, cut_points)
               PROVE  /\ Agree(gold_state', gate_state', cut_points)
                      /\ Residual(gold_state', gate_state', cut_points) \in R
    BY <1>2, <1>3 DEF OperationInv, StaysIn
  <2>1. /\ Agree(gold_state, gate_state, cut_points)
        /\ Residual(gold_state, gate_state, cut_points) \in R
    BY <1>1, <1>4 DEF OperationInv, StaysIn
  <2> HIDE DEF c
  <2>2. OutputsAgree(c, cut_points) /\ Residual(GoldAfter(c), GateAfter(c), cut_points) \in R
    BY <1>8, <1>9, <2>1 DEF Closed
  <2> QED
    BY <1>4, <2>2 DEF OutputsAgree
<1>11. StreakInv'
  <2> SUFFICES ASSUME children_agreed', streak' > 0
               PROVE  Agree(gold_state', gate_state', cut_points) /\ \E p : History(p, streak - 1)'
    BY <1>2 DEF StreakInv
  <2>1. Agree(gold_state', gate_state', cut_points) /\ streak' = Longer(streak)
    BY <1>2
  <2>2. OutputsAgree(c, cut_points)
    BY <1>4, <2>1 DEF OutputsAgree
  <2>3. CASE streak = 0
    <3> DEFINE p == [j \in 0..-1 |-> 0]
    <3>1. p \in [0..-1 -> LocalCycle(cut_points')] /\ streak' = 1
      BY <1>5, <2>1, <2>3 DEF Longer
    <3> HIDE DEF p
    <3>2. History(p, streak - 1)'
      BY <3>1 DEF History, Path
    <3> QED
      BY <2>1, <3>2
  <2>4. CASE streak > 0
    <3>1. PICK m \in Nat : m = streak - 1
      BY <1>5, <2>4
    <3>2. Agree(gold_state, gate_state, cut_points) /\ \E p : History(p, m)
      BY <1>1, <1>4, <2>4, <3>1 DEF StreakInv
    <3>3. PICK q : Continued(q, m, c)
      BY <1>1, <3>2, HistoryLonger
    <3> HIDE DEF c
    <3>4. /\ q \in [0..m -> LocalCycle(cut_points)] /\ Path(q, m, cut_points) /\ q[m] = c
          /\ \A j \in 0..m-1 : OutputsAgree(q[j], cut_points)
      BY <3>3 DEF Continued
    <3>5. \A j \in 0..m : OutputsAgree(q[j], cut_points)
      BY <2>2, <3>1, <3>4
    <3>6. ASSUME NEW n \in 0..m, NEW r, r \in [0..n -> LocalCycle(cut_points)],
                 Path(r, n, cut_points), r[n] = q[m],
                 \A j \in 0..n : OutputsAgree(r[j], cut_points)
          PROVE  History(r, n + 1)'
      <4>1. Path(r, n, cut_points)' /\ \A j \in 0..n : OutputsAgree(r[j], cut_points)'
        BY <1>2, <1>3, <3>6 DEF Path
      <4>2. gold_state' = GoldAfter(r[n])' /\ gate_state' = GateAfter(r[n])'
        BY <1>3, <1>4, <3>4, <3>6
      <4>3. (n + 1) - 1 = n
        OBVIOUS
      <4> QED
        BY <1>2, <3>6, <4>1, <4>2, <4>3 DEF History
    <3>7. CASE streak <= k_induct
      <4>1. streak' - 1 = m + 1 /\ m \in 0..m
        BY <1>5, <2>1, <3>1, <3>7 DEF Longer
      <4>2. History(q, m + 1)'
        BY <3>4, <3>5, <3>6, <4>1
      <4> QED
        BY <2>1, <4>1, <4>2
    <3>8. CASE streak > k_induct /\ m > 0
      <4>1. PICK n \in 0..m : n = m - 1 /\ streak' - 1 = n + 1
        BY <1>5, <2>1, <3>1, <3>8 DEF Longer
      <4> DEFINE r == [j \in 0..n |-> q[j + (m - n)]]
      <4>2. /\ r \in [0..n -> LocalCycle(cut_points)] /\ Path(r, n, cut_points) /\ r[n] = q[m]
            /\ \A j \in 0..n : j + (m - n) \in 0..m
        BY <3>4, PathEnd
      <4>3. \A j \in 0..n : OutputsAgree(r[j], cut_points)
        BY <3>5, <4>2
      <4> HIDE DEF r
      <4>4. History(r, n + 1)'
        BY <3>6, <4>1, <4>2, <4>3
      <4> QED
        BY <2>1, <4>1, <4>4
    <3>9. CASE streak > k_induct /\ m = 0
      <4> DEFINE r == [j \in 0..-1 |-> 0]
      <4>1. r \in [0..-1 -> LocalCycle(cut_points')] /\ streak' - 1 = 0
        BY <1>5, <2>1, <3>1, <3>9 DEF Longer
      <4> HIDE DEF r
      <4>2. History(r, streak - 1)'
        BY <4>1 DEF History, Path
      <4> QED
        BY <2>1, <4>2
    <3> QED
      BY <1>5, <3>1, <3>7, <3>8, <3>9
  <2> QED
    BY <1>5, <2>3, <2>4
<1> QED
  BY <1>6, <1>7, <1>10, <1>11 DEF LocalCutInv

-----------------------------------------------------------------------------
(* Every step keeps the invariant.                                         *)
LEMMA NextInv == LocalCutInv /\ [Next]_vars => LocalCutInv'
<1> SUFFICES ASSUME LocalCutInv, [Next]_vars PROVE LocalCutInv'
  OBVIOUS
<1>0. TypeOK
  BY DEF LocalCutInv
<1>1. ASSUME NEW cand \in GoldReg \X GateReg, ValidateByAbc(cand) PROVE LocalCutInv'
  <2> DEFINE C == cut_points \union {cand}
  <2>1. CASE DsecProves(C) /\ Accept(cand, TRUE, FALSE, {})
    BY <1>1, <2>1, AcceptInv DEF ValidateByAbc
  <2>2. ASSUME NEW P \in SUBSET (FreeGold(C) \X FreeGate(C)),
               CecProves(P, C), Accept(cand, TRUE, FALSE, P)
        PROVE  LocalCutInv'
    <3>1. P \in SUBSET (GoldReg \X GateReg)
      BY DEF FreeGold, FreeGate
    <3> HIDE DEF C
    <3> QED
      BY <1>1, <2>2, <3>1, AcceptInv DEF ValidateByAbc, C
  <2> QED
    BY <1>1, <2>1, <2>2 DEF ValidateByAbc, select_local_dff_cutpoints
<1>2. ASSUME NEW cand \in GoldReg \X GateReg, ValidateUnaudited(cand) PROVE LocalCutInv'
  BY <1>2, AcceptInv DEF ValidateUnaudited
<1>3. ASSUME NEW cand \in GoldReg \X GateReg, ValidateByBmc(cand) PROVE LocalCutInv'
  <2> DEFINE C == cut_points \union {cand}
  <2>1. Applicable /\ bmcinduct_check(C) /\ Accept(cand, FALSE, TRUE, {})
    BY <1>3 DEF ValidateByBmc, select_local_dff_cutpoints
  <2>2. InductionDepths(C) # {}
    BY <2>1 DEF bmcinduct_check, InductionSucceeds
  <2>3. ~weak_mode /\ step_skip <= 0 => DsecProves(C)
    BY <1>0, <2>1, <2>2, StrictProves DEF bmcinduct_check
  <2> QED
    BY <2>1, <2>2, <2>3, AcceptInv
<1>4. CASE Reject
  <2>1. items' \in 0..MaxItems
    BY <1>0, <1>4, BoundAssumption DEF TypeOK, Reject, Applicable
  <2> QED
    BY <1>4, <2>1, IdleInv DEF Reject, operation
<1>5. CASE Start
  BY <1>5, StartInv
<1>6. ASSUME NEW in \in Input, NEW gold_out \in ChildOut, NEW gate_out \in ChildOut,
             Clock(in, gold_out, gate_out)
      PROVE  LocalCutInv'
  BY <1>6, ClockInv
<1>7. CASE UNCHANGED vars
  <2>1. items' \in 0..MaxItems
    BY <1>0, <1>7 DEF TypeOK, vars
  <2> QED
    BY <1>7, <2>1, IdleInv DEF vars, modules
<1> QED
  BY <1>1, <1>2, <1>3, <1>4, <1>5, <1>6, <1>7 DEF Next

(* The inductive invariant of the local proofs and the operation after.    *)
THEOREM LocalCutInvariant == Spec => []LocalCutInv
BY InitInv, NextInv, PTL DEF Spec

(* What a proof of all cut points is worth in operation.                   *)
LEMMA ProofHolds ==
  ASSUME LocalCutInv, DsecProves(cut_points) \/ CecProves(paired, cut_points)
  PROVE  CutsAgree
<1> SUFFICES ASSUME children_agreed, Agree(gold_init, gate_init, cut_points \union paired)
             PROVE  Agree(gold_state, gate_state, cut_points)
  BY DEF CutsAgree
<1>1. TypeOK /\ OperationInv
  BY DEF LocalCutInv
<1>2. Agree(gold_init, gate_init, cut_points) /\ Agree(gold_init, gate_init, paired)
  BY DEF Agree
<1>3. DsecProves(cut_points)
  BY <1>1, <1>2, CecWithInitialValues
<1>4. PICK R \in SUBSET ResidualState(cut_points) :
        Residual(gold_init, gate_init, cut_points) \in R /\ Closed(R, cut_points)
  BY <1>3 DEF DsecProves
<1> QED
  BY <1>1, <1>2, <1>4 DEF OperationInv, StaysIn

(* Type correctness of the local proofs and the operation after them.      *)
THEOREM TypeCorrect == Spec => []TypeOK
<1>1. LocalCutInv => TypeOK
  BY DEF LocalCutInv
<1> QED
  BY <1>1, LocalCutInvariant, PTL

(* A strict fallback of validate_partition_pair without -skip accepts no   *)
(* register suggestion that makes matched registers diverge.               *)
THEOREM StrictCorrect == Spec => []StrictFallbackIsSound
<1>1. LocalCutInv => StrictFallbackIsSound
  BY ProofHolds DEF StrictFallbackIsSound, LocalCutInv, ProvedInv, StrictFallback
<1> QED
  BY <1>1, LocalCutInvariant, PTL

(* What validate_partition_pair calls authoritative never does, in either  *)
(* mode and with any -skip.                                                *)
THEOREM AuthoritativeCorrect == Spec => []AuthoritativeIsSound
<1>1. LocalCutInv => AuthoritativeIsSound
  BY ProofHolds DEF AuthoritativeIsSound, LocalCutInv, ProvedInv
<1> QED
  BY <1>1, LocalCutInvariant, PTL

(* Registers accepted by any fallback, weak mode and -skip included, that  *)
(* have agreed through k_induct cycles go on agreeing.                     *)
THEOREM FallbackCorrect == Spec => FallbackKeepsAgreement
<1> DEFINE Kept == used_bmc_fb /\ streak > k_induct /\ children_agreed' => streak' > k_induct
<1>1. ASSUME LocalCutInv, [Next]_vars PROVE [Kept]_vars
  <2> SUFFICES ASSUME used_bmc_fb, streak > k_induct, children_agreed', ~UNCHANGED vars
               PROVE  streak' > k_induct
    OBVIOUS
  <2>1. TypeOK /\ NotStarted /\ k_induct \in Nat
    BY <1>1, BoundAssumption DEF LocalCutInv
  <2>2. running
    BY <2>1 DEF NotStarted
  <2>3. PICK in \in Input, gold_out \in ChildOut, gate_out \in ChildOut :
          Clock(in, gold_out, gate_out)
    BY <1>1, <2>2 DEF Next, ValidateByAbc, ValidateUnaudited, ValidateByBmc, Reject, Applicable, Start
  <2>4. Agree(gold_state', gate_state', cut_points)
    BY <1>1, <2>3, ClockKeepsAgreement
  <2>5. streak' = Longer(streak) /\ streak \in Nat
    BY <2>1, <2>3, <2>4 DEF Clock, TypeOK
  <2> QED
    BY <2>1, <2>5 DEF Longer
<1> QED
  BY <1>1, LocalCutInvariant, PTL DEF Spec, FallbackKeepsAgreement
=============================================================================
