--------------------------- MODULE AbcPlan_proofs ---------------------------
(* Proofs about AbcPlan, for every set of predicted costs.                 *)
EXTENDS AbcPlan, TLAPS

(* The heuristic plan lists the actions in the order of ActionKind.        *)
LEMMA HeuristicOrder ==
  /\ heuristic_abc_plan[1] = "CEC_MAP"
  /\ heuristic_abc_plan[2] = "CEC_NOMAP"
  /\ heuristic_abc_plan[3] = "DSEC_MAP"
  /\ heuristic_abc_plan[4] = "DSEC_NOMAP"
BY DEF heuristic_abc_plan, Position

(* No step changes the configuration, and so none changes the mode.        *)
LEMMA ModeIsFixed ==
  conf' = conf => /\ has_dff' = has_dff
                  /\ exhaustive' = exhaustive
                  /\ heuristic' = heuristic
BY DEF has_dff, exhaustive, strict_order, heuristic

(* The only place to be after the plan.                                    *)
LEMMA PastTheEnd == \A p \in 1..5 : p \notin Position => p = 5
BY DEF Position

(* A plan names an action at each of its positions.                        *)
LEMMA PlanActions ==
  ASSUME plan \in Ordering, NEW i \in Position PROVE plan[i] \in ActionKind
BY DEF Ordering

(* A plan names no action twice: it is onto a set of the same size.        *)
LEMMA OrderingInjective ==
  ASSUME plan \in Ordering, NEW i \in Position, NEW j \in Position, i # j
  PROVE  plan[i] # plan[j]
<1>1. /\ \E k \in Position : plan[k] = "CEC_MAP"
      /\ \E k \in Position : plan[k] = "CEC_NOMAP"
      /\ \E k \in Position : plan[k] = "DSEC_MAP"
      /\ \E k \in Position : plan[k] = "DSEC_NOMAP"
  BY DEF Ordering, ActionKind
<1> QED
  BY <1>1 DEF Position

(* The initial states satisfy the inductive invariant.                     *)
LEMMA InitPlanInv == Init => PlanInv
<1> SUFFICES ASSUME Init PROVE PlanInv
  OBVIOUS
<1>1. /\ result = [a \in ActionKind |-> NotRun]
      /\ solved = FALSE /\ pos = 1 /\ pc = "run"
      /\ ran_dsec_map = FALSE /\ prev_result = 0
  BY DEF Init
<1>2. TypeOK
  <2>1. 0 \in ResultCode
    BY DEF ResultCode, NoVerdict
  <2>2. /\ sample = NoSample /\ last_action = "" /\ packets = {}
        /\ conf \in CallerConf /\ plan \in Ordering
    BY DEF Init
  <2>3. packets \subseteq [action : ActionKind, trace : SUBSET ActionKind]
    BY <2>2
  <2>4. result \in [ActionKind -> ResultCode \union {NotRun}]
    BY <1>1
  <2>5. pos \in 1..5
    BY <1>1
  <2> QED
    BY <1>1, <2>1, <2>2, <2>3, <2>4, <2>5 DEF TypeOK
<1>3. \A a \in ActionKind : result[a] = NotRun
  BY <1>1
<1>4. NotRunYet
  BY <1>3, PlanActions DEF Init, NotRunYet
<1>5. SolvedInv
  BY <1>1, <1>3 DEF SolvedInv, NotRun, Equivalent
<1>6. CompleteInv
  BY <1>1, <1>3 DEF CompleteInv, Ran, Sequential, ActionKind, Position
<1>7. EscalationInv
  <2>1. heuristic => plan = heuristic_abc_plan
    BY DEF Init, heuristic, strict_order
  <2> QED
    BY <1>1, <1>3, <2>1 DEF EscalationInv, Ran, ActionKind, NotRun, MiterFailed
<1> QED
  BY <1>1, <1>2, <1>4, <1>5, <1>6, <1>7 DEF PlanInv

(* Passing over an action keeps the invariant.                             *)
LEMMA SkipPlanInv == PlanInv /\ SkipAction => PlanInv'
<1> SUFFICES ASSUME PlanInv, SkipAction PROVE PlanInv'
  OBVIOUS
<1>1. /\ pos \in 1..4 /\ pos' = pos + 1 /\ Skipped(plan[pos])
      /\ conf' = conf /\ plan' = plan /\ result' = result
      /\ solved' = solved /\ last_action' = last_action
      /\ prev_result' = prev_result /\ ran_dsec_map' = ran_dsec_map
      /\ packets' = packets /\ sample' = sample /\ pc' = "run" /\ pc = "run"
  BY DEF SkipAction, Running, Position
<1>2. /\ has_dff' = has_dff /\ exhaustive' = exhaustive /\ heuristic' = heuristic
  BY <1>1, ModeIsFixed
<1>3. TypeOK'
  <2>1. TypeOK /\ pos' \in 1..5
    BY <1>1 DEF PlanInv
  <2> QED
    BY <1>1, <2>1 DEF TypeOK
<1>4. NotRunYet'
  BY <1>1 DEF PlanInv, NotRunYet, Position
<1>5. SolvedInv'
  BY <1>1, <1>2 DEF PlanInv, SolvedInv
<1>6. CompleteInv'
  BY <1>1, <1>2 DEF PlanInv, CompleteInv, Skipped, Ran, Position
<1>7. EscalationInv'
  <2> SUFFICES ASSUME heuristic PROVE EscalationInv'
    BY <1>2 DEF EscalationInv
  <2>1. EscalationInv /\ SolvedInv /\ NotRunYet /\ plan = heuristic_abc_plan
    BY DEF PlanInv, EscalationInv
  <2>9. \A i \in 1..4 : pos <= i => ~Ran(heuristic_abc_plan[i])
    BY <2>1 DEF NotRunYet, Ran, Position
  <2>2. CASE pos = 1
    BY <1>1, <2>1, <2>2, HeuristicOrder DEF Skipped, Sequential
  <2>3. CASE pos = 2
    BY <1>1, <1>2, <2>1, <2>9, <2>3, HeuristicOrder
    DEF EscalationInv, Skipped, Sequential, Ran, CecAnswer
  <2>4. CASE pos = 3
    BY <1>1, <1>2, <2>1, <2>9, <2>4, HeuristicOrder
    DEF EscalationInv, Skipped, Sequential, Ran, CecAnswer
  <2>5. CASE pos = 4
    BY <1>1, <1>2, <2>1, <2>9, <2>5, HeuristicOrder
    DEF EscalationInv, Skipped, Sequential, Ran, CecAnswer, MiterFailed, NotRun
  <2> QED
    BY <1>1, <2>2, <2>3, <2>4, <2>5
<1> QED
  BY <1>1, <1>3, <1>4, <1>5, <1>6, <1>7 DEF PlanInv

(* Executing an action keeps the invariant.                                *)
LEMMA RunPlanInv ==
  ASSUME PlanInv, NEW rc \in ResultCode, NEW status_ok \in BOOLEAN, RunAction(rc, status_ok)
  PROVE  PlanInv'
<1> DEFINE a == plan[pos]
<1>1. /\ pos \in 1..4 /\ pc = "run" /\ pc' = "run"
      /\ ~Skipped(a)
      /\ conf' = conf /\ plan' = plan /\ sample' = sample
      /\ result' = [result EXCEPT ![a] = rc]
      /\ prev_result' = rc /\ last_action' = a
      /\ ran_dsec_map' = (ran_dsec_map \/ a = "DSEC_MAP")
      /\ solved' = (solved \/ rc = Equivalent)
      /\ pos' = IF rc = Equivalent /\ ~exhaustive THEN 5 ELSE pos + 1
  BY DEF RunAction, NextPos, Running, Position
<1>2. /\ has_dff' = has_dff /\ exhaustive' = exhaustive /\ heuristic' = heuristic
  BY <1>1, ModeIsFixed
<1>3. /\ plan \in Ordering /\ conf \in CallerConf
      /\ result \in [ActionKind -> ResultCode \union {NotRun}]
      /\ packets \subseteq [action : ActionKind, trace : SUBSET ActionKind]
      /\ sample \in ActionKind \union {"", NoSample}
      /\ solved \in BOOLEAN /\ ran_dsec_map \in BOOLEAN
  BY DEF PlanInv, TypeOK
<1>4. a \in ActionKind
  BY <1>1, <1>3, PlanActions DEF Position
<1>5. pos' \in 1..5 /\ pos < pos'
  BY <1>1
<1>13. ~solved' => pos' = pos + 1
  <2>1. ~solved' => rc # Equivalent
    BY <1>1
  <2> QED
    BY <1>1, <2>1
<1>6. result[a] = NotRun
  BY <1>1 DEF PlanInv, NotRunYet, Position
<1>7. /\ result'[a] = rc
      /\ \A b \in ActionKind : b # a => result'[b] = result[b]
  BY <1>1, <1>3, <1>4
<1>8. TypeOK'
  <2>1. packets' \subseteq [action : ActionKind, trace : SUBSET ActionKind]
    <3>1. Packet(a, NoTrace) \in [action : ActionKind, trace : SUBSET ActionKind]
      BY <1>4 DEF Packet, NoTrace
    <3>2. packets' = packets \/ packets' = packets \union {Packet(a, NoTrace)}
      BY DEF RunAction, emit_failure_packet
    <3> QED
      BY <1>3, <3>1, <3>2
  <2>2. result' \in [ActionKind -> ResultCode \union {NotRun}]
    BY <1>1, <1>3, <1>4
  <2>3. solved' \in BOOLEAN /\ ran_dsec_map' \in BOOLEAN
    BY <1>1, <1>3
  <2> QED
    BY <1>1, <1>3, <1>4, <1>5, <2>1, <2>2, <2>3 DEF TypeOK
<1>9. NotRunYet'
  <2> SUFFICES ASSUME NEW i \in Position, pos' <= i PROVE result'[plan[i]] = NotRun
    BY <1>1 DEF NotRunYet
  <2>1. pos <= i /\ pos # i
    BY <1>1, <1>5 DEF Position
  <2>2. result[plan[i]] = NotRun
    BY <2>1 DEF PlanInv, NotRunYet
  <2>3. plan[i] \in ActionKind
    BY <1>3, PlanActions
  <2>4. plan[i] # a
    BY <1>1, <1>3, <2>1, OrderingInjective DEF Position
  <2> QED
    BY <1>7, <2>2, <2>3, <2>4
<1>10. SolvedInv'
  <2>1. solved <=> \E b \in ActionKind : result[b] = Equivalent
    BY DEF PlanInv, SolvedInv
  <2>2. solved' <=> \E b \in ActionKind : result'[b] = Equivalent
    <3>1. result[a] # Equivalent
      BY <1>6 DEF NotRun, Equivalent
    <3>2. CASE rc = Equivalent
      BY <1>1, <1>4, <1>7, <3>2
    <3>3. CASE rc # Equivalent
      BY <1>1, <1>4, <1>7, <2>1, <3>1, <3>3
    <3> QED
      BY <3>2, <3>3
  <2>3. ~exhaustive => ~solved
    BY <1>1 DEF PlanInv, SolvedInv
  <2>4. solved' /\ ~exhaustive => pos' = 5 /\ last_action' = a /\ result'[a] = Equivalent
    BY <1>1, <1>7, <2>3
  <2> QED
    BY <1>1, <1>2, <1>4, <2>2, <2>4 DEF SolvedInv
<1>11. CompleteInv'
  <2>1. CompleteInv /\ SolvedInv
    BY DEF PlanInv
  <2>2. a \in Sequential => has_dff
    BY <1>1 DEF Skipped
  <2>3. \A b \in Sequential : result'[b] # NotRun => has_dff
    BY <1>7, <2>1, <2>2 DEF CompleteInv, Ran, Sequential, ActionKind
  <2>4. ASSUME ~heuristic, ~solved' \/ exhaustive, NEW i \in Position, i < pos'
        PROVE  result'[plan[i]] # NotRun \/ (~has_dff /\ plan[i] \in Sequential)
    <3>1. CASE plan[i] = a
      BY <1>7, <3>1 DEF ResultCode, NoVerdict, Equivalent, NotEquivalent, MiterFailed, NotRun
    <3>2. CASE plan[i] # a
      <4>1. i < pos
        <5>1. pos' = pos + 1
          BY <1>1, <2>4
        <5>2. i # pos
          BY <3>2
        <5> QED
          BY <1>1, <2>4, <5>1, <5>2 DEF Position
      <4>2. result[plan[i]] # NotRun \/ (~has_dff /\ plan[i] \in Sequential)
        <5>1. ~solved \/ exhaustive
          BY <1>1, <2>4
        <5> QED
          BY <2>1, <2>4, <4>1, <5>1 DEF CompleteInv, Ran
      <4>3. plan[i] \in ActionKind
        BY <1>3, PlanActions
      <4> QED
        BY <1>7, <3>2, <4>2, <4>3
    <3> QED
      BY <3>1, <3>2
  <2> QED
    BY <1>1, <1>2, <2>3, <2>4 DEF CompleteInv, Ran
<1>12. EscalationInv'
  <2> SUFFICES ASSUME heuristic PROVE EscalationInv'
    BY <1>2 DEF EscalationInv
  <2>1. EscalationInv /\ plan = heuristic_abc_plan /\ ~exhaustive
    BY DEF PlanInv, EscalationInv, heuristic
  <2>2. ~solved
    BY <1>1, <2>1 DEF PlanInv, SolvedInv
  <2>3. \A i \in 1..4 : pos <= i => ~Ran(heuristic_abc_plan[i])
    BY <2>1 DEF PlanInv, NotRunYet, Ran, Position
  <2>4. rc # NotRun /\ rc \in 0..3
    BY DEF ResultCode, NoVerdict, Equivalent, NotEquivalent, MiterFailed, NotRun
  <2>5. CASE pos = 1
    <3>1. a = "CEC_MAP" /\ ran_dsec_map' = ran_dsec_map
      BY <1>1, <1>3, <2>1, <2>5, HeuristicOrder
    <3>2. result["CEC_NOMAP"] = NotRun /\ result["DSEC_MAP"] = NotRun /\ result["DSEC_NOMAP"] = NotRun
      BY <2>3, <2>5, HeuristicOrder DEF Ran
    <3>3. /\ result'["CEC_MAP"] = rc /\ result'["CEC_NOMAP"] = NotRun
          /\ result'["DSEC_MAP"] = NotRun /\ result'["DSEC_NOMAP"] = NotRun
      BY <1>7, <3>1, <3>2 DEF ActionKind
    <3>4. ran_dsec_map = FALSE
      BY <1>3, <2>1, <3>2 DEF EscalationInv, Ran
    <3>5. ~solved' => pos' = 2
      BY <1>13, <2>5
    <3> QED
      BY <1>1, <1>2, <2>1, <2>4, <3>1, <3>3, <3>4, <3>5 DEF EscalationInv, Ran, NotRun
  <2>6. CASE pos = 2
    <3>1. a = "CEC_NOMAP" /\ ran_dsec_map' = ran_dsec_map
      BY <1>1, <1>3, <2>1, <2>6, HeuristicOrder
    <3>2. result["CEC_NOMAP"] = NotRun /\ result["DSEC_MAP"] = NotRun /\ result["DSEC_NOMAP"] = NotRun
      BY <2>3, <2>6, HeuristicOrder DEF Ran
    <3>3. /\ result'["CEC_MAP"] = result["CEC_MAP"] /\ result'["CEC_NOMAP"] = rc
          /\ result'["DSEC_MAP"] = NotRun /\ result'["DSEC_NOMAP"] = NotRun
      BY <1>7, <3>1, <3>2 DEF ActionKind
    <3>4. ran_dsec_map = FALSE
      BY <1>3, <2>1, <3>2 DEF EscalationInv, Ran
    <3>5. result["CEC_MAP"] = MiterFailed
      BY <1>1, <2>1, <3>1, <3>2 DEF EscalationInv, Skipped, Ran, MiterFailed
    <3>6. ~solved' => pos' = 3
      BY <1>13, <2>6
    <3>7. plan' = heuristic_abc_plan
      BY <1>1, <2>1
    <3>8. (ran_dsec_map <=> Ran("DSEC_MAP"))'
      BY <3>1, <3>3, <3>4 DEF Ran
    <3>9. (Ran("CEC_NOMAP")  => result["CEC_MAP"] = MiterFailed)'
      BY <3>3, <3>5
    <3>10. ~Ran("DSEC_MAP")' /\ ~Ran("DSEC_NOMAP")'
      BY <3>3 DEF Ran
    <3>11. Ran("CEC_NOMAP")' /\ prev_result' = result'["CEC_NOMAP"]
      BY <1>1, <2>4, <3>3 DEF Ran
    <3>12. Ran("CEC_MAP")'
      BY <3>3, <3>5 DEF Ran, MiterFailed, NotRun
    <3>13. result'["DSEC_MAP"] # MiterFailed
      BY <3>3 DEF MiterFailed, NotRun
    <3> QED
      BY <3>6, <3>7, <3>8, <3>9, <3>10, <3>11, <3>12, <3>13
      DEF EscalationInv
  <2>7. CASE pos = 3
    <3>1. a = "DSEC_MAP" /\ ran_dsec_map' = TRUE
      BY <1>1, <1>3, <2>1, <2>7, HeuristicOrder
    <3>2. result["DSEC_MAP"] = NotRun /\ result["DSEC_NOMAP"] = NotRun
      BY <2>3, <2>7, HeuristicOrder DEF Ran
    <3>3. /\ result'["CEC_MAP"] = result["CEC_MAP"] /\ result'["CEC_NOMAP"] = result["CEC_NOMAP"]
          /\ result'["DSEC_MAP"] = rc /\ result'["DSEC_NOMAP"] = NotRun
      BY <1>7, <3>1, <3>2 DEF ActionKind
    <3>4. has_dff /\ prev_result \in {NotEquivalent, MiterFailed}
      BY <1>1, <3>1 DEF Skipped, Sequential
    <3>5. Ran("CEC_MAP") /\ (result["CEC_MAP"] = MiterFailed => Ran("CEC_NOMAP"))
      BY <2>1, <2>2, <2>7 DEF EscalationInv
    <3>6. CecAnswer(result) = prev_result
      BY <2>1, <3>2, <3>5 DEF EscalationInv, Ran, CecAnswer
    <3>7. CecAnswer(result)' = CecAnswer(result)
      BY <3>3 DEF CecAnswer
    <3>8. ~solved' => pos' = 4
      BY <1>13, <2>7
    <3> QED
      BY <1>1, <1>2, <2>1, <2>2, <2>4, <3>1, <3>3, <3>4, <3>5, <3>6, <3>7, <3>8
      DEF EscalationInv, Ran, NotRun, MiterFailed
  <2>8. CASE pos = 4
    <3>1. a = "DSEC_NOMAP" /\ ran_dsec_map' = ran_dsec_map
      BY <1>1, <1>3, <2>1, <2>8, HeuristicOrder
    <3>2. result["DSEC_NOMAP"] = NotRun
      BY <2>3, <2>8, HeuristicOrder DEF Ran
    <3>3. /\ result'["CEC_MAP"] = result["CEC_MAP"] /\ result'["CEC_NOMAP"] = result["CEC_NOMAP"]
          /\ result'["DSEC_MAP"] = result["DSEC_MAP"] /\ result'["DSEC_NOMAP"] = rc
      BY <1>7, <3>1, <3>2 DEF ActionKind
    <3>4. has_dff /\ prev_result = MiterFailed /\ ran_dsec_map
      BY <1>1, <3>1 DEF Skipped, Sequential
    <3>5. result["DSEC_MAP"] = MiterFailed /\ Ran("DSEC_MAP")
      BY <2>1, <3>2, <3>4 DEF EscalationInv, Ran
    <3>6. CecAnswer(result)' = CecAnswer(result)
      BY <3>3 DEF CecAnswer
    <3>7. ~solved' => pos' = 5
      BY <1>13, <2>8
    <3>8. /\ Ran("CEC_MAP") /\ (result["CEC_MAP"] = MiterFailed => Ran("CEC_NOMAP"))
          /\ Ran("CEC_NOMAP") => result["CEC_MAP"] = MiterFailed
          /\ CecAnswer(result) \in {NotEquivalent, MiterFailed}
      BY <2>1, <2>2, <2>8, <3>5 DEF EscalationInv
    <3>9. Ran("DSEC_NOMAP")' /\ prev_result' = result'["DSEC_NOMAP"]
      BY <1>1, <2>4, <3>3 DEF Ran
    <3>10. plan' = heuristic_abc_plan /\ Ran("DSEC_MAP")' /\ result'["DSEC_MAP"] = MiterFailed
      BY <1>1, <2>1, <3>3, <3>5 DEF Ran
    <3>11. ran_dsec_map'
      BY <3>1, <3>4
    <3> QED
      BY <1>2, <3>3, <3>4, <3>6, <3>8, <3>9, <3>10, <3>11 DEF EscalationInv, Ran
  <2> QED
    BY <1>1, <2>5, <2>6, <2>7, <2>8
<1> QED
  BY <1>1, <1>8, <1>9, <1>10, <1>11, <1>12 DEF PlanInv

(* A fatal tool error only ends the call.                                  *)
LEMMA AbortPlanInv ==
  ASSUME PlanInv, NEW rc \in ResultCode, NEW status_ok \in BOOLEAN, AbortAction(rc, status_ok)
  PROVE  PlanInv'
<1>1. /\ pos \in Position /\ pc' = "error"
      /\ UNCHANGED <<conf, plan, pos, result, prev_result, ran_dsec_map, solved,
                     last_action, sample>>
  BY DEF AbortAction, Running
<1>2. has_dff' = has_dff /\ exhaustive' = exhaustive /\ heuristic' = heuristic
  BY <1>1, ModeIsFixed
<1>3. TypeOK /\ NotRunYet /\ SolvedInv /\ CompleteInv /\ EscalationInv
  BY DEF PlanInv
<1>4. TypeOK'
  <2>1. plan[pos] \in ActionKind
    BY <1>1, <1>3, PlanActions DEF TypeOK
  <2>2. Packet(plan[pos], NoTrace) \in [action : ActionKind, trace : SUBSET ActionKind]
    BY <2>1 DEF Packet, NoTrace
  <2>3. packets' = packets \/ packets' = packets \union {Packet(plan[pos], NoTrace)}
    BY DEF AbortAction, emit_failure_packet
  <2>4. packets' \subseteq [action : ActionKind, trace : SUBSET ActionKind]
    BY <1>3, <2>2, <2>3 DEF TypeOK
  <2> QED
    BY <1>1, <1>3, <2>4 DEF TypeOK
<1>5. NotRunYet' /\ SolvedInv'
  BY <1>1, <1>2, <1>3 DEF NotRunYet, SolvedInv
<1>6. CompleteInv'
  BY <1>1, <1>2, <1>3 DEF CompleteInv, Ran
<1>7. EscalationInv'
  BY <1>1, <1>2, <1>3 DEF EscalationInv, Ran, CecAnswer
<1> QED
  BY <1>1, <1>4, <1>5, <1>6, <1>7 DEF PlanInv

(* The end of the call changes only what is written and returned.          *)
LEMMA FinishPlanInv ==
  ASSUME PlanInv, NEW label \in ActionKind \union {""}, Finish(label)
  PROVE  PlanInv'
<1>1. /\ pos \notin Position /\ pc' = "done"
      /\ UNCHANGED <<conf, plan, pos, result, prev_result, ran_dsec_map, solved, last_action>>
  BY DEF Finish
<1>2. has_dff' = has_dff /\ exhaustive' = exhaustive /\ heuristic' = heuristic
  BY <1>1, ModeIsFixed
<1>3. TypeOK /\ NotRunYet /\ SolvedInv /\ CompleteInv /\ EscalationInv
  BY DEF PlanInv
<1>4. TypeOK'
  <2>1. sample' \in ActionKind \union {"", NoSample}
    BY DEF Finish
  <2>2. packets' = packets \/ (last_action # "" /\ packets' = packets \union {Packet(last_action, Trace(result))})
    BY DEF Finish, emit_failure_packet
  <2>3. last_action # "" => Packet(last_action, Trace(result)) \in [action : ActionKind, trace : SUBSET ActionKind]
    <3>1. last_action \in ActionKind \union {""}
      BY <1>3 DEF TypeOK
    <3>2. Trace(result) \in SUBSET ActionKind
      BY DEF Trace
    <3> QED
      BY <3>1, <3>2 DEF Packet
  <2>4. packets' \subseteq [action : ActionKind, trace : SUBSET ActionKind]
    BY <1>3, <2>2, <2>3 DEF TypeOK
  <2> QED
    BY <1>1, <1>3, <2>1, <2>4 DEF TypeOK
<1>5. NotRunYet' /\ SolvedInv'
  BY <1>1, <1>2, <1>3 DEF NotRunYet, SolvedInv
<1>6. CompleteInv'
  BY <1>1, <1>2, <1>3 DEF CompleteInv, Ran
<1>7. EscalationInv'
  BY <1>1, <1>2, <1>3 DEF EscalationInv, Ran, CecAnswer
<1>8. pos' = 5
  <2>1. pos \in 1..5
    BY <1>3 DEF TypeOK
  <2> QED
    BY <1>1, <2>1, PastTheEnd
<1> QED
  BY <1>1, <1>4, <1>5, <1>6, <1>7, <1>8 DEF PlanInv

(* PlanInv is an invariant of a call of abc_cec_module.                    *)
THEOREM PlanInvariant == Spec => []PlanInv
<1>1. PlanInv /\ UNCHANGED vars => PlanInv'
  <2> SUFFICES ASSUME PlanInv, UNCHANGED vars PROVE PlanInv'
    OBVIOUS
  <2>1. TypeOK' /\ NotRunYet' /\ SolvedInv' /\ (pc = "done" => pos = 5)'
    BY DEF PlanInv, TypeOK, NotRunYet, SolvedInv, exhaustive, vars
  <2>2. CompleteInv'
    BY DEF PlanInv, CompleteInv, Ran, has_dff, heuristic, exhaustive, strict_order, vars
  <2>3. EscalationInv'
    BY DEF PlanInv, EscalationInv, CecAnswer, Ran, has_dff, heuristic, exhaustive,
           strict_order, vars
  <2> QED
    BY <2>1, <2>2, <2>3 DEF PlanInv
<1>2. PlanInv /\ Next => PlanInv'
  BY <1>1, SkipPlanInv, AbortPlanInv, RunPlanInv, FinishPlanInv DEF Next, Terminated
<1> QED
  BY <1>1, <1>2, InitPlanInv, PTL DEF Spec

(* Type correctness.                                                       *)
THEOREM TypeCorrect == Spec => []TypeOK
<1>1. PlanInv => TypeOK
  BY DEF PlanInv
<1> QED
  BY <1>1, PlanInvariant, PTL

(* A proof found in heuristic order is a proof in every other mode too: a  *)
(* learned ranking or the dumping of samples never loses one.              *)
THEOREM HeuristicProofIsAProof ==
  \A answer \in [ActionKind -> ResultCode], dff \in BOOLEAN :
    HeuristicVerdict(answer, dff) => AnyVerdict(answer, dff)
BY DEF HeuristicVerdict, AnyVerdict, CecAnswer, DsecAnswer, ActionKind, Sequential

(* The answer to an executed action is its result.                         *)
LEMMA VerdictFromInv == PlanInv => VerdictMatchesReference
<1> SUFFICES ASSUME PlanInv, pc = "done", NEW answer \in [ActionKind -> ResultCode],
                    \A a \in ActionKind : Ran(a) => answer[a] = result[a]
             PROVE  solved <=> IF heuristic THEN HeuristicVerdict(answer, has_dff)
                                            ELSE AnyVerdict(answer, has_dff)
  BY DEF VerdictMatchesReference
<1>1. SolvedInv /\ CompleteInv /\ EscalationInv /\ TypeOK /\ pos = 5
  BY DEF PlanInv
<1>2. \A a \in ActionKind : result[a] \in 0..3 => answer[a] = result[a]
  BY DEF Ran, NotRun
<1>3. CASE ~heuristic
  <2>1. ASSUME solved PROVE AnyVerdict(answer, has_dff)
    <3>1. PICK a \in ActionKind : result[a] = Equivalent
      BY <1>1, <2>1 DEF SolvedInv
    <3>2. Ran(a) /\ answer[a] = Equivalent
      BY <1>2, <3>1 DEF Ran, Equivalent, NotRun
    <3> QED
      BY <1>1, <3>2 DEF AnyVerdict, CompleteInv
  <2>2. ASSUME AnyVerdict(answer, has_dff), ~solved PROVE FALSE
    <3>1. PICK a \in ActionKind : answer[a] = Equivalent /\ (a \in Sequential => has_dff)
      BY <2>2 DEF AnyVerdict
    <3>2. PICK i \in Position : plan[i] = a
      BY <1>1 DEF TypeOK, Ordering
    <3>3. Ran(a)
      BY <1>1, <1>3, <2>2, <3>1, <3>2 DEF CompleteInv, Position
    <3>4. result[a] = Equivalent
      BY <3>1, <3>3
    <3> QED
      BY <1>1, <2>2, <3>4 DEF SolvedInv
  <2> QED
    BY <1>3, <2>1, <2>2
<1>4. CASE heuristic
  <2>1. ~exhaustive
    BY <1>4 DEF heuristic
  <2>2. ASSUME solved PROVE HeuristicVerdict(answer, has_dff)
    <3>1. last_action \in ActionKind /\ result[last_action] = Equivalent
      BY <1>1, <2>1, <2>2 DEF SolvedInv
    <3>2. Ran(last_action) /\ answer[last_action] = Equivalent
      BY <1>2, <3>1 DEF Ran, Equivalent, NotRun
    <3>3. Ran("DSEC_MAP") => has_dff /\ CecAnswer(answer) \in {NotEquivalent, MiterFailed}
      <4>1. Ran("DSEC_MAP") => has_dff /\ CecAnswer(result) \in {NotEquivalent, MiterFailed}
        BY <1>1, <1>4 DEF EscalationInv
      <4> QED
        BY <1>2, <4>1 DEF CecAnswer, NotEquivalent, MiterFailed, ActionKind
    <3>4. CASE last_action = "CEC_MAP"
      BY <3>2, <3>4 DEF HeuristicVerdict, CecAnswer, Equivalent, MiterFailed
    <3>5. CASE last_action = "CEC_NOMAP"
      <4>1. answer["CEC_MAP"] = MiterFailed
        BY <1>1, <1>2, <1>4, <3>2, <3>5 DEF EscalationInv, MiterFailed, ActionKind
      <4> QED
        BY <3>2, <3>5, <4>1 DEF HeuristicVerdict, CecAnswer
    <3>6. CASE last_action = "DSEC_MAP"
      BY <3>2, <3>3, <3>6 DEF HeuristicVerdict, DsecAnswer, Equivalent, MiterFailed
    <3>7. CASE last_action = "DSEC_NOMAP"
      <4>1. Ran("DSEC_MAP") /\ answer["DSEC_MAP"] = MiterFailed
        BY <1>1, <1>2, <1>4, <3>2, <3>7 DEF EscalationInv, MiterFailed, ActionKind
      <4> QED
        BY <3>2, <3>3, <3>7, <4>1 DEF HeuristicVerdict, DsecAnswer
    <3> QED
      BY <3>1, <3>4, <3>5, <3>6, <3>7 DEF ActionKind
  <2>3. ASSUME ~solved, HeuristicVerdict(answer, has_dff) PROVE FALSE
    <3>1. \A a \in ActionKind : Ran(a) => answer[a] # Equivalent
      BY <1>1, <2>3 DEF SolvedInv
    <3>2. /\ Ran("CEC_MAP")
          /\ result["CEC_MAP"] = MiterFailed => Ran("CEC_NOMAP")
          /\ has_dff /\ CecAnswer(result) \in {NotEquivalent, MiterFailed} => Ran("DSEC_MAP")
          /\ result["DSEC_MAP"] = MiterFailed => Ran("DSEC_NOMAP")
      BY <1>1, <1>4, <2>3 DEF EscalationInv
    <3>3. CecAnswer(answer) = CecAnswer(result) /\ CecAnswer(answer) # Equivalent
      BY <3>1, <3>2 DEF CecAnswer, ActionKind
    <3>4. has_dff /\ Ran("DSEC_MAP") /\ DsecAnswer(answer) = Equivalent
      BY <2>3, <3>2, <3>3 DEF HeuristicVerdict
    <3>5. answer["DSEC_MAP"] = result["DSEC_MAP"] /\ answer["DSEC_MAP"] # Equivalent
      BY <3>1, <3>4 DEF ActionKind
    <3>6. answer["DSEC_MAP"] = MiterFailed /\ answer["DSEC_NOMAP"] = Equivalent
      BY <3>4, <3>5 DEF DsecAnswer
    <3> QED
      BY <3>1, <3>2, <3>5, <3>6 DEF ActionKind
  <2> QED
    BY <1>4, <2>2, <2>3
<1> QED
  BY <1>3, <1>4

(* The verdict on a pair is the reference verdict, in every mode and for   *)
(* every ranking.                                                          *)
THEOREM VerdictCorrect == Spec => []VerdictMatchesReference
BY VerdictFromInv, PlanInvariant, PTL

(* The audited command output is that of the proving run.                  *)
THEOREM DecidingRunCorrect == Spec => []DecidingRunProves
<1>1. PlanInv => DecidingRunProves
  <2> SUFFICES ASSUME PlanInv, solved, ~conf.fatal
               PROVE  last_action \in ActionKind /\ result[last_action] = Equivalent
    BY DEF DecidingRunProves
  <2>1. conf \in CallerConf /\ SolvedInv
    BY DEF PlanInv, TypeOK
  <2>2. ~exhaustive
    BY <2>1 DEF CallerConf, LocalConf, exhaustive
  <2> QED
    BY <2>1, <2>2 DEF SolvedInv
<1> QED
  BY <1>1, PlanInvariant, PTL

(* Results are final and a proof stops the plan.                           *)
THEOREM ExecutedOnceCorrect == Spec => ExecutedOnce
<1> DEFINE Once == /\ \A a \in ActionKind : Ran(a) => result'[a] = result[a]
                   /\ solved => solved' /\ (~exhaustive => UNCHANGED result)
<1>1. ASSUME PlanInv, NEW rc \in ResultCode, NEW status_ok \in BOOLEAN, RunAction(rc, status_ok)
      PROVE  Once
  <2>1. /\ pos \in Position /\ result' = [result EXCEPT ![plan[pos]] = rc]
        /\ solved' = (solved \/ rc = Equivalent)
    BY <1>1 DEF RunAction, NextPos, Running
  <2>2. result[plan[pos]] = NotRun
    BY <1>1, <2>1 DEF PlanInv, NotRunYet, Position
  <2>3. \A a \in ActionKind : Ran(a) => result'[a] = result[a]
    BY <1>1, <2>1, <2>2 DEF Ran, PlanInv, TypeOK
  <2>4. ~(solved /\ ~exhaustive)
    BY <1>1, <2>1 DEF PlanInv, SolvedInv, Position
  <2> QED
    BY <2>1, <2>3, <2>4
<1>2. PlanInv /\ [Next]_vars => Once \/ UNCHANGED vars
  <2> SUFFICES ASSUME PlanInv, Next PROVE Once \/ UNCHANGED vars
    OBVIOUS
  <2>1. CASE SkipAction \/ \E label \in ActionKind \union {""} : Finish(label)
    BY <2>1 DEF SkipAction, Finish
  <2>2. CASE \E rc \in ResultCode, status_ok \in BOOLEAN : AbortAction(rc, status_ok)
    BY <2>2 DEF AbortAction
  <2>3. CASE \E rc \in ResultCode, status_ok \in BOOLEAN : RunAction(rc, status_ok)
    BY <1>1, <2>3
  <2>4. CASE Terminated
    BY <2>4 DEF Terminated
  <2> QED
    BY <2>1, <2>2, <2>3, <2>4 DEF Next
<1> QED
  BY <1>2, PlanInvariant, PTL DEF Spec, ExecutedOnce

(* Every initial state of a call is one of PairProof.                      *)
LEMMA InitRefines == Init => Abstract!PInit
<1> SUFFICES ASSUME Init PROVE Abstract!PInit
  OBVIOUS
<1>1. exhaustive \in BOOLEAN /\ conf.fatal \in BOOLEAN
  BY DEF Init, exhaustive, CallerConf, LocalConf
<1> QED
  BY <1>1 DEF Init, Abstract!PInit, verdict

(* Every step of a call is a step of PairProof or changes nothing there.   *)
LEMMA StepRefines ==
  ASSUME PlanInv, [Next]_vars
  PROVE  [Abstract!PNext]_Abstract!pvars
<1> USE DEF Abstract!pvars
<1>1. ASSUME UNCHANGED vars PROVE UNCHANGED Abstract!pvars
  BY <1>1 DEF vars, verdict, exhaustive
<1>2. ASSUME SkipAction PROVE UNCHANGED Abstract!pvars
  BY <1>2 DEF SkipAction, verdict, exhaustive
<1>3. SolvedInv /\ NotRunYet /\ TypeOK
  BY DEF PlanInv
<1>4. Abstract!HasProof <=> solved
  BY <1>3 DEF Abstract!HasProof, SolvedInv
<1>5. ASSUME pc = "run", pos \in Position PROVE Abstract!HasProof => exhaustive
  BY <1>3, <1>4, <1>5 DEF SolvedInv, Position
<1>6. ASSUME NEW rc \in ResultCode, NEW status_ok \in BOOLEAN, RunAction(rc, status_ok)
      PROVE  Abstract!PNext
  <2>1. /\ pc = "run" /\ pos \in Position /\ UNCHANGED <<conf, pc>>
        /\ result' = [result EXCEPT ![plan[pos]] = rc]
    BY <1>6 DEF RunAction, Running
  <2>2. plan[pos] \in ActionKind
    BY <1>3, <2>1, PlanActions DEF TypeOK
  <2>3. result[plan[pos]] = NotRun
    BY <1>3, <2>1 DEF NotRunYet, Position
  <2>4. verdict = "open" /\ verdict' = "open" /\ exhaustive' = exhaustive
    BY <2>1 DEF verdict, exhaustive
  <2>5. Abstract!Ask(plan[pos])
    BY <1>5, <2>1, <2>3, <2>4 DEF Abstract!Ask
  <2> QED
    BY <2>2, <2>5 DEF Abstract!PNext
<1>7. ASSUME NEW rc \in ResultCode, NEW status_ok \in BOOLEAN, AbortAction(rc, status_ok)
      PROVE  Abstract!PNext
  <2>1. /\ pc = "run" /\ pos \in Position /\ pc' = "error" /\ conf.fatal
        /\ UNCHANGED <<conf, result>>
    BY <1>7 DEF AbortAction, Running
  <2>2. verdict = "open" /\ verdict' = "error" /\ exhaustive' = exhaustive
    BY <2>1 DEF verdict, exhaustive
  <2> QED
    BY <1>5, <2>1, <2>2 DEF Abstract!PNext, Abstract!GiveUp
<1>8. ASSUME NEW label \in ActionKind \union {""}, Finish(label)
      PROVE  Abstract!PNext
  <2>1. pc = "run" /\ pc' = "done" /\ UNCHANGED <<conf, result, solved>>
    BY <1>8 DEF Finish
  <2>2. /\ verdict = "open" /\ exhaustive' = exhaustive
        /\ verdict' = IF solved THEN "proved" ELSE "unproved"
    BY <2>1 DEF verdict, exhaustive
  <2> QED
    BY <1>4, <2>1, <2>2 DEF Abstract!PNext, Abstract!Decide
<1> QED
  BY <1>1, <1>2, <1>6, <1>7, <1>8 DEF Next, Terminated

(* abc_cec_module implements PairProof, whatever the order of its plan.    *)
THEOREM Refinement == Spec => ImplementsPairProof
BY InitRefines, StepRefines, PlanInvariant, PTL
DEF Spec, ImplementsPairProof, Abstract!PSpec

(* A call that walked its plan without a proof has executed something.     *)
LEMMA UnprovedHasRun ==
  ASSUME PlanInv, pos = 5, ~solved
  PROVE  \E a \in ActionKind : Ran(a)
<1>1. CompleteInv /\ EscalationInv /\ TypeOK
  BY DEF PlanInv
<1>2. CASE heuristic
  BY <1>1, <1>2 DEF EscalationInv, ActionKind
<1>3. CASE ~heuristic
  <2>1. PICK i \in Position : plan[i] = "CEC_MAP"
    BY <1>1 DEF TypeOK, Ordering, ActionKind
  <2> QED
    BY <1>1, <1>3, <2>1 DEF CompleteInv, Sequential, ActionKind, Position
<1> QED
  BY <1>2, <1>3

(* What is written agrees with what happened, initially and step by step.  *)
LEMMA InitReportInv == Init => ReportInv
BY DEF Init, ReportInv, FailureIsReported, SampleIsLabelled, Ran

LEMMA StepReportInv ==
  ASSUME PlanInv, ReportInv, [Next]_vars
  PROVE  ReportInv'
<1>1. ASSUME UNCHANGED vars PROVE ReportInv'
  BY <1>1 DEF vars, ReportInv, FailureIsReported, SampleIsLabelled, Ran
<1>2. ASSUME SkipAction PROVE ReportInv'
  BY <1>2 DEF SkipAction, Running, ReportInv, FailureIsReported, SampleIsLabelled, Ran
<1>3. TypeOK /\ SolvedInv
  BY DEF PlanInv
<1>4. conf.dump_fail => conf.fatal
  BY <1>3 DEF TypeOK, CallerConf, LocalConf
<1>5. ASSUME NEW rc \in ResultCode, NEW status_ok \in BOOLEAN, RunAction(rc, status_ok)
      PROVE  ReportInv'
  <2>1. /\ pc = "run" /\ pc' = "run" /\ pos \in Position /\ UNCHANGED <<conf, sample>>
        /\ last_action' = plan[pos]
    BY <1>5 DEF RunAction, Running
  <2>2. last_action' # ""
    <3>1. plan[pos] \in ActionKind
      BY <1>3, <2>1, PlanActions DEF TypeOK
    <3> QED
      BY <2>1, <3>1 DEF ActionKind
  <2>3. conf.dump_fail => packets' = packets
    BY <1>4, <1>5 DEF RunAction
  <2> QED
    BY <2>1, <2>2, <2>3 DEF ReportInv, FailureIsReported, SampleIsLabelled
<1>6. ASSUME NEW rc \in ResultCode, NEW status_ok \in BOOLEAN, AbortAction(rc, status_ok)
      PROVE  ReportInv'
  <2>1. /\ pc = "run" /\ pc' = "error"
        /\ UNCHANGED <<conf, plan, pos, result, last_action, sample>>
    BY <1>6 DEF AbortAction, Running
  <2>2. conf.dump_fail => packets' = {Packet(plan[pos], NoTrace)}
    BY <1>6, <2>1 DEF AbortAction, emit_failure_packet, ReportInv
  <2> QED
    BY <2>1, <2>2 DEF ReportInv, FailureIsReported, SampleIsLabelled, Ran
<1>7. ASSUME NEW label \in ActionKind \union {""}, Finish(label)
      PROVE  ReportInv'
  <2>1. /\ pc = "run" /\ pc' = "done" /\ pos \notin Position /\ BestAction(label)
        /\ UNCHANGED <<conf, plan, pos, result, solved, last_action>>
        /\ sample' = IF conf.dump_sched THEN label ELSE NoSample
    BY <1>7 DEF Finish
  <2>2. pos = 5
    BY <1>3, <2>1, PastTheEnd DEF TypeOK
  <2>3. ~solved => last_action # ""
    BY <2>2, UnprovedHasRun DEF ReportInv
  <2>4. conf.dump_fail => packets' = IF solved THEN {} ELSE {Packet(last_action, Trace(result))}
    <3>1. CASE solved
      BY <1>7, <2>1, <3>1 DEF Finish, ReportInv
    <3>2. CASE ~solved
      BY <1>7, <2>1, <2>3, <3>2 DEF Finish, ReportInv, emit_failure_packet
    <3> QED
      BY <3>1, <3>2
  <2>5. conf.dump_sched => /\ sample' \in ActionKind <=> solved
                           /\ solved => result[sample'] = Equivalent
    <3>1. "" \notin ActionKind
      BY DEF ActionKind
    <3> QED
      BY <1>3, <2>1, <3>1 DEF SolvedInv, BestAction
  <2>6. (last_action = "" => \A a \in ActionKind : ~Ran(a))'
    BY <2>1 DEF ReportInv, Ran
  <2>7. FailureIsReported'
    BY <2>1, <2>4 DEF FailureIsReported, Trace
  <2>8. SampleIsLabelled'
    BY <2>1, <2>5 DEF SampleIsLabelled
  <2> QED
    BY <2>1, <2>6, <2>7, <2>8 DEF ReportInv
<1> QED
  BY <1>1, <1>2, <1>5, <1>6, <1>7 DEF Next, Terminated

(* ReportInv is an invariant of a call of abc_cec_module.                  *)
THEOREM ReportInvariant == Spec => []ReportInv
BY InitReportInv, StepReportInv, PlanInvariant, PTL DEF Spec

(* With -guide-dump-fail the packets tell exactly the unproved pairs.      *)
THEOREM FailureCorrect == Spec => []FailureIsReported
<1>1. ReportInv => FailureIsReported
  BY DEF ReportInv
<1> QED
  BY <1>1, ReportInvariant, PTL

(* With -guide-dump-sched the label of a sample is a proving action.       *)
THEOREM SampleCorrect == Spec => []SampleIsLabelled
<1>1. ReportInv => SampleIsLabelled
  BY DEF ReportInv
<1> QED
  BY <1>1, ReportInvariant, PTL
=============================================================================
