------------------------------ MODULE AbcPlan ------------------------------
(***************************************************************************)
(* One call of abc_cec_module (passes/guide/check/core.cc): the proof of   *)
(* one gold/gate module pair by a plan of ABC runs.  The plan is the fixed *)
(* heuristic order or the order a learned scheduler model ranks the runs   *)
(* in; run_abc_plan walks it, skips the runs its escalation rules exclude, *)
(* and stops at the first proof unless scheduler samples are being dumped. *)
(* What ABC answers is external: any result, with any exit status.         *)
(***************************************************************************)
EXTENDS Integers

CONSTANT Cost      \* the values a scheduler model may predict

ASSUME CostAssumption == Cost \subseteq Int

ActionKind == {"CEC_MAP", "CEC_NOMAP", "DSEC_MAP", "DSEC_NOMAP"}

Sequential == {"DSEC_MAP", "DSEC_NOMAP"}

(* out2result: what is recognised in ABC's output.                         *)
NoVerdict     == 0
Equivalent    == 1
NotEquivalent == 2
MiterFailed   == 3
ResultCode    == {NoVerdict, Equivalent, NotEquivalent, MiterFailed}

NotRun == 4        \* the plan has not executed this action

VARIABLES
  conf,            \* how the caller configured the call
  plan,            \* 1..4 -> ActionKind, the order in which actions are considered
  pos,             \* the plan position run_abc_plan looks at next
  result,          \* result code of each executed action (the trace, whose
                   \* order is that of the plan)
  prev_result,     \* result code of the last executed action, 0 at first
  ran_dsec_map,
  solved,
  last_action,     \* last executed action, "" when there is none
  packets,         \* failure packets appended to the JSONL file
  sample,          \* the scheduler sample appended to the JSONL file
  pc               \* "run", "done" (the call returned) or "error" (log_error)

vars == <<conf, plan, pos, result, prev_result, ran_dsec_map, solved,
          last_action, packets, sample, pc>>

-----------------------------------------------------------------------------
(* The order of a plan.                                                    *)

Position == 1..4

heuristic_abc_plan ==
  [i \in Position |-> CASE i = 1 -> "CEC_MAP"  [] i = 2 -> "CEC_NOMAP"
                        [] i = 3 -> "DSEC_MAP" [] i = 4 -> "DSEC_NOMAP"]

(* Alphabetical rank of get_action_name.                                   *)
NameRank(a) == CASE a = "CEC_MAP"  -> 1 [] a = "CEC_NOMAP"  -> 2
                 [] a = "DSEC_MAP" -> 3 [] a = "DSEC_NOMAP" -> 4

Ordering == {p \in [Position -> ActionKind] : \A a \in ActionKind : \E i \in Position : p[i] = a}

(* The plan sorts the actions by predicted cost, ties by name.             *)
learned_abc_plan(p, cost) ==
  \A i, j \in Position :
    i < j => \/ cost[p[i]] < cost[p[j]]
             \/ cost[p[i]] = cost[p[j]] /\ NameRank(p[i]) < NameRank(p[j])

(* The two callers. abc_cec passes on what the command line asked for and  *)
(* treats tool errors as fatal; validate_partition_pair clears the dump    *)
(* configuration and the model and tolerates tool errors.                  *)
LocalConfKeepsDump(c) == ~c.model_loaded      \* mutant: dump_cfg is not cleared

LocalConf(c) == ~c.dump_sched /\ ~c.model_loaded /\ ~c.dump_fail

CallerConf ==
  { c \in [dump_sched : BOOLEAN, model_loaded : BOOLEAN, dump_fail : BOOLEAN,
           fatal : BOOLEAN, gold_dff_cnt : 0..1, gate_dff_cnt : 0..1] :
      ~c.fatal => LocalConf(c) }

has_dff      == conf.gold_dff_cnt # 0 \/ conf.gate_dff_cnt # 0
exhaustive   == conf.dump_sched
strict_order == conf.model_loaded
heuristic    == ~exhaustive /\ ~strict_order

Ran(a) == result[a] # NotRun

NoSample == "none"

Init ==
  /\ conf \in CallerConf
  /\ plan \in Ordering
  /\ IF conf.model_loaded
     THEN \E cost \in [ActionKind -> Cost] : learned_abc_plan(plan, cost)
     ELSE plan = heuristic_abc_plan
  /\ pos = 1
  /\ result = [a \in ActionKind |-> NotRun]
  /\ prev_result = 0
  /\ ran_dsec_map = FALSE
  /\ solved = FALSE
  /\ last_action = ""
  /\ packets = {}
  /\ sample = NoSample
  /\ pc = "run"

-----------------------------------------------------------------------------
(* The escalation rules: which actions run_abc_plan passes over.           *)
SkippedUnlessRefuted(a) ==     \* mutant: retries without a map after a refutation
  \/ ~has_dff /\ a \in Sequential
  \/ /\ heuristic
     /\ \/ a = "CEC_NOMAP"  /\ prev_result # NotEquivalent
        \/ a = "DSEC_MAP"   /\ prev_result \notin {NotEquivalent, MiterFailed}
        \/ a = "DSEC_NOMAP" /\ (~ran_dsec_map \/ prev_result # MiterFailed)

Skipped(a) ==
  \/ ~has_dff /\ a \in Sequential
  \/ /\ heuristic
     /\ \/ a = "CEC_NOMAP"  /\ prev_result # MiterFailed
        \/ a = "DSEC_MAP"   /\ prev_result \notin {NotEquivalent, MiterFailed}
        \/ a = "DSEC_NOMAP" /\ (~ran_dsec_map \/ prev_result # MiterFailed)

Running == pc = "run" /\ pos \in Position

SkipAction ==
  /\ Running
  /\ Skipped(plan[pos])
  /\ pos' = pos + 1
  /\ UNCHANGED <<conf, plan, result, prev_result, ran_dsec_map, solved,
                 last_action, packets, sample, pc>>

(* A run of ABC is in error when it exits with a status or says nothing    *)
(* that is recognised.                                                     *)
ToolError(rc, status_ok) == ~status_ok \/ rc = NoVerdict

Packet(a, trace) == [action |-> a, trace |-> trace]
NoTrace == {}
Trace(res) == {a \in ActionKind : res[a] # NotRun}

(* emit_failure_packet: only when packets are dumped.  Every executed      *)
(* command has a log file of its own, so one fingerprint is one execution  *)
(* and a second packet about the same execution is dropped.                *)
emit_failure_packet(packet) ==
  packets' = IF conf.dump_fail /\ ~\E p \in packets : p.action = packet.action
             THEN packets \union {packet}
             ELSE packets

(* run_abc_action on a fatal tool error: the packet, then log_error.       *)
AbortAction(rc, status_ok) ==
  /\ Running
  /\ ~Skipped(plan[pos])
  /\ ToolError(rc, status_ok)
  /\ conf.fatal
  /\ emit_failure_packet(Packet(plan[pos], NoTrace))
  /\ pc' = "error"
  /\ UNCHANGED <<conf, plan, pos, result, prev_result, ran_dsec_map, solved,
                 last_action, sample>>

NextPosRetry(rc) ==      \* mutant: tries an action without a verdict again
  IF rc = Equivalent /\ ~exhaustive THEN 5 ELSE IF rc = NoVerdict THEN pos ELSE pos + 1

NextPosTooFar(rc) ==     \* mutant: the break leaves the loop one position too far
  IF rc = Equivalent /\ ~exhaustive THEN 6 ELSE pos + 1

(* A proof ends the walk unless every action is wanted for a sample.       *)
NextPos(rc) == IF rc = Equivalent /\ ~exhaustive THEN 5 ELSE pos + 1

RunActionForgets(rc, status_ok) ==     \* mutant: the last result decides, not any
  LET a == plan[pos] IN
  /\ Running
  /\ ~Skipped(a)
  /\ ToolError(rc, status_ok) => ~conf.fatal
  /\ IF ToolError(rc, status_ok)
     THEN emit_failure_packet(Packet(a, NoTrace))
     ELSE UNCHANGED packets
  /\ result' = [result EXCEPT ![a] = rc]
  /\ prev_result' = rc
  /\ last_action' = a
  /\ ran_dsec_map' = (ran_dsec_map \/ a = "DSEC_MAP")
  /\ solved' = (rc = Equivalent)
  /\ pos' = NextPos(rc)
  /\ UNCHANGED <<conf, plan, sample, pc>>

(* run_abc_action otherwise, and the bookkeeping of run_abc_plan.          *)
RunAction(rc, status_ok) ==
  LET a == plan[pos] IN
  /\ Running
  /\ ~Skipped(a)
  /\ ToolError(rc, status_ok) => ~conf.fatal
  /\ IF ToolError(rc, status_ok)
     THEN emit_failure_packet(Packet(a, NoTrace))
     ELSE UNCHANGED packets
  /\ result' = [result EXCEPT ![a] = rc]
  /\ prev_result' = rc
  /\ last_action' = a
  /\ ran_dsec_map' = (ran_dsec_map \/ a = "DSEC_MAP")
  /\ solved' = (solved \/ rc = Equivalent)
  /\ pos' = NextPos(rc)
  /\ UNCHANGED <<conf, plan, sample, pc>>

(* dump_sched_sample: the label is the fastest action that proved the      *)
(* pair (run times are not modelled: any of them), "" if none did.         *)
BestActionLast(label) == label = last_action     \* mutant: the last action is the label

BestAction(label) ==
  IF \E a \in ActionKind : result[a] = Equivalent
  THEN label \in ActionKind /\ result[label] = Equivalent
  ELSE label = ""

FinishPacketAlways(label) ==     \* mutant: a packet for proved pairs too
  /\ pc = "run"
  /\ pos \notin Position
  /\ BestAction(label)
  /\ sample' = IF conf.dump_sched THEN label ELSE NoSample
  /\ IF last_action # ""
     THEN emit_failure_packet(Packet(last_action, Trace(result)))
     ELSE UNCHANGED packets
  /\ pc' = "done"
  /\ UNCHANGED <<conf, plan, pos, result, prev_result, ran_dsec_map, solved, last_action>>

(* The end of abc_cec_module, once the plan is walked.                     *)
Finish(label) ==
  /\ pc = "run"
  /\ pos \notin Position
  /\ BestAction(label)
  /\ sample' = IF conf.dump_sched THEN label ELSE NoSample
  /\ IF ~solved /\ last_action # ""
     THEN emit_failure_packet(Packet(last_action, Trace(result)))
     ELSE UNCHANGED packets
  /\ pc' = "done"
  /\ UNCHANGED <<conf, plan, pos, result, prev_result, ran_dsec_map, solved, last_action>>

Terminated == pc \in {"done", "error"} /\ UNCHANGED vars

Next ==
  \/ SkipAction
  \/ \E rc \in ResultCode, status_ok \in BOOLEAN : AbortAction(rc, status_ok)
  \/ \E rc \in ResultCode, status_ok \in BOOLEAN : RunAction(rc, status_ok)
  \/ \E label \in ActionKind \union {""} : Finish(label)
  \/ Terminated

Spec == Init /\ [][Next]_vars

-----------------------------------------------------------------------------
TypeOK ==
  /\ conf \in CallerConf
  /\ plan \in Ordering
  /\ pos \in 1..5
  /\ result \in [ActionKind -> ResultCode \union {NotRun}]
  /\ prev_result \in ResultCode
  /\ ran_dsec_map \in BOOLEAN
  /\ solved \in BOOLEAN
  /\ last_action \in ActionKind \union {""}
  /\ packets \subseteq [action : ActionKind, trace : SUBSET ActionKind]
  /\ sample \in ActionKind \union {"", NoSample}
  /\ pc \in {"run", "done", "error"}

-----------------------------------------------------------------------------
(* What a pair is worth: a reference for run_abc_plan that does not walk   *)
(* a plan.  answer[a] is what ABC says, or would say, when asked for a.    *)

(* The combinational answer: without the name map when the mapped miter    *)
(* could not be built.                                                     *)
CecAnswer(answer) ==
  IF answer["CEC_MAP"] = MiterFailed THEN answer["CEC_NOMAP"] ELSE answer["CEC_MAP"]

DsecAnswer(answer) ==
  IF answer["DSEC_MAP"] = MiterFailed THEN answer["DSEC_NOMAP"] ELSE answer["DSEC_MAP"]

(* Heuristic order: combinational first; a pair with registers that is     *)
(* refuted or has no miter gets a sequential check.                        *)
HeuristicVerdict(answer, dff) ==
  \/ CecAnswer(answer) = Equivalent
  \/ /\ dff
     /\ CecAnswer(answer) \in {NotEquivalent, MiterFailed}
     /\ DsecAnswer(answer) = Equivalent

(* Learned order, or all runs for a scheduler sample: any applicable run.  *)
AnyVerdict(answer, dff) ==
  \E a \in ActionKind : answer[a] = Equivalent /\ (a \in Sequential => dff)

(* The verdict of abc_cec_module is the reference's, whatever ABC would    *)
(* have said to the runs that were skipped: no escalation rule and no      *)
(* early stop loses a proof or makes one up.                               *)
VerdictMatchesReference ==
  pc = "done" =>
    \A answer \in [ActionKind -> ResultCode] :
      (\A a \in ActionKind : Ran(a) => answer[a] = result[a]) =>
        (solved <=> IF heuristic THEN HeuristicVerdict(answer, has_dff)
                                 ELSE AnyVerdict(answer, has_dff))

(* deciding_result, which validate_partition_pair audits for unsafe proofs *)
(* (constant-completed nets, unapplied name map), is the output of the run *)
(* that proved the pair.                                                   *)
DecidingRunProves ==
  pc = "done" /\ solved /\ ~conf.fatal =>
    last_action \in ActionKind /\ result[last_action] = Equivalent

(* With -guide-dump-fail a pair leaves a packet exactly when it was not    *)
(* proved: one with the whole trace when the plan ran out, one without a   *)
(* trace for the command that aborted the pass.                            *)
FailureIsReported ==
  conf.dump_fail =>
    /\ pc = "done" => packets = IF solved THEN {} ELSE {Packet(last_action, Trace(result))}
    /\ pc = "error" => packets = {Packet(plan[pos], NoTrace)}

(* With -guide-dump-sched a completed pair has one sample, whose label is  *)
(* empty iff the pair was not proved; an aborted one has none.             *)
SampleIsLabelled ==
  /\ pc = "done" /\ conf.dump_sched => (sample \in ActionKind <=> solved)
  /\ pc = "done" /\ conf.dump_sched /\ solved => result[sample] = Equivalent
  /\ pc = "error" => sample = NoSample

(* An action is executed at most once in a call and its result is final;   *)
(* a proof is never taken back and, unless samples are dumped, ends the    *)
(* plan.                                                                   *)
ExecutedOnce ==
  [][/\ \A a \in ActionKind : Ran(a) => result'[a] = result[a]
     /\ solved => solved' /\ (~exhaustive => UNCHANGED result)]_vars

-----------------------------------------------------------------------------
(* The verdict abc_cec_module returns.                                     *)
verdict == IF pc = "run" THEN "open" ELSE
           IF pc = "error" THEN "error" ELSE
           IF solved THEN "proved" ELSE "unproved"

Abstract == INSTANCE PairProof WITH
              Engine <- ActionKind, Answer <- ResultCode, Proof <- Equivalent,
              Unasked <- NotRun, fatal <- conf.fatal, thorough <- exhaustive,
              answer <- result

(* The walk of a plan, with its order, escalation rules and early stop, is *)
(* a way of asking each engine at most once and deciding by the answers:   *)
(* abc_cec_module implements PairProof, which is all that guide_check and  *)
(* validate_partition_pair may rely on.                                    *)
ImplementsPairProof == Abstract!PSpec

-----------------------------------------------------------------------------
(* The inductive invariant behind VerdictMatchesReference.                 *)

(* Nothing at or after the current position has been executed.             *)
NotRunYet == \A i \in Position : pos <= i => result[plan[i]] = NotRun

SolvedInv ==
  /\ solved <=> \E a \in ActionKind : result[a] = Equivalent
  /\ solved /\ ~exhaustive => /\ pos = 5
                              /\ last_action \in ActionKind
                              /\ result[last_action] = Equivalent

(* In learned or exhaustive order only inapplicable actions are passed     *)
(* over.                                                                   *)
CompleteInv ==
  /\ \A a \in Sequential : Ran(a) => has_dff
  /\ ~heuristic /\ (~solved \/ exhaustive) =>
       \A i \in Position : i < pos =>
         Ran(plan[i]) \/ (~has_dff /\ plan[i] \in Sequential)

(* In heuristic order every run was escalated to for a reason, and unless  *)
(* the pair is solved every reason so far was followed.                    *)
EscalationInv ==
  heuristic =>
    /\ plan = heuristic_abc_plan
    /\ ran_dsec_map <=> Ran("DSEC_MAP")
    /\ Ran("CEC_NOMAP")  => result["CEC_MAP"] = MiterFailed
    /\ Ran("DSEC_MAP")   => has_dff /\ CecAnswer(result) \in {NotEquivalent, MiterFailed}
    /\ Ran("DSEC_NOMAP") => Ran("DSEC_MAP") /\ result["DSEC_MAP"] = MiterFailed
    /\ prev_result = IF Ran("DSEC_NOMAP") THEN result["DSEC_NOMAP"]
                     ELSE IF Ran("DSEC_MAP") THEN result["DSEC_MAP"]
                     ELSE IF Ran("CEC_NOMAP") THEN result["CEC_NOMAP"]
                     ELSE IF Ran("CEC_MAP") THEN result["CEC_MAP"] ELSE 0
    /\ ~solved =>
         /\ pos > 1 => Ran("CEC_MAP")
         /\ pos > 2 /\ result["CEC_MAP"] = MiterFailed => Ran("CEC_NOMAP")
         /\ pos > 3 /\ has_dff /\ CecAnswer(result) \in {NotEquivalent, MiterFailed}
              => Ran("DSEC_MAP")
         /\ pos > 4 /\ result["DSEC_MAP"] = MiterFailed => Ran("DSEC_NOMAP")

PlanInv ==
  /\ TypeOK
  /\ NotRunYet
  /\ SolvedInv
  /\ CompleteInv
  /\ EscalationInv
  /\ pc = "done" => pos = 5

(* What is written to the two files: nothing before the call ends, and     *)
(* then what FailureIsReported and SampleIsLabelled say.                   *)
ReportInv ==
  /\ last_action = "" => \A a \in ActionKind : ~Ran(a)
  /\ conf.dump_fail /\ pc = "run" => packets = {}
  /\ pc = "run" => sample = NoSample
  /\ FailureIsReported
  /\ SampleIsLabelled
=============================================================================
