----------------------------- MODULE GuideCheck -----------------------------
(***************************************************************************)
(* The guide_check pass from its arguments to its verdict (execute in      *)
(* passes/guide/guide_check.cc): pair the modules (HierModMap), verify and *)
(* hide the arithmetic modules, verify and hide the retimed modules, prove *)
(* the remaining pairs with ABC (AbcPlan, seen here as a verdict or a      *)
(* fatal tool error), report, clean up, and fail if -assert asks for it.   *)
(* Arithmetic cells inside a module are the subject of ArithExtract.       *)
(***************************************************************************)
EXTENDS HierModMap

VARIABLES
  assert_mode, nocleanup,    \* the options
  mark,                      \* "multiplier", "divider" or "none", for every module
  retime,                    \* gate modules with the attribute retime
  opaque,                    \* modules that are black boxes in the user's design
  blackbox,                  \* modules that are black boxes in the working copy
  multi_results, div_results, retime_results, cec_results,   \* <<what, verdict>> pairs
  multi_result, div_result, retime_result, cec_result,       \* the flags of execute
  tempdir,                   \* the temporary directory exists
  verdict,                   \* what report printed
  pc,                        \* the next part of execute
  error                      \* the log_error that ended it

options  == <<assert_mode, nocleanup, mark, retime, opaque>>
lists    == <<multi_results, div_results, retime_results, cec_results>>
flags    == <<multi_result, div_result, retime_result, cec_result>>
ending   == <<tempdir, verdict, error>>
gc_vars  == <<options, blackbox, lists, flags, ending, pc>>
all_vars == <<vars, gc_vars>>

CheckInit ==
  /\ Init
  /\ TopsAlike
  /\ dotted = (gold_mod.base = Root)
  /\ assert_mode \in BOOLEAN /\ nocleanup \in BOOLEAN
  /\ mark \in [design -> {"multiplier", "divider", "none"}]
  /\ retime \in SUBSET GateMods
  /\ opaque \in SUBSET (design \ {gold_mod, gate_mod})
  /\ \A n \in opaque : mark[n] = "none" /\ n \notin retime
  /\ blackbox = opaque
  /\ multi_results = {} /\ div_results = {} /\ retime_results = {} /\ cec_results = {}
  /\ multi_result = TRUE /\ div_result = TRUE /\ retime_result = TRUE /\ cec_result = TRUE
  /\ tempdir = TRUE
  /\ verdict = "none"
  /\ error = "none"
  /\ pc = "map"

-----------------------------------------------------------------------------
AllTrue(results) == \A r \in results : r[2]
Graph(f) == {<<x, f[x]>> : x \in DOMAIN f}

(* hier_mod_map on the working copy.                                       *)
MapModules ==
  /\ pc = "map"
  /\ stage # "done"
  /\ MapStep
  /\ UNCHANGED gc_vars

(* get_multi_map / get_div_map: pairs of two marked modules.               *)
MarkedPairs(kind) == {p \in Pairs : mark[p[1]] = kind /\ mark[p[2]] = kind}

MarkedModulesGold(kind) == {p[1] : p \in MarkedPairs(kind)}     \* mutant: one side only

MarkedModules(kind) == {p[1] : p \in MarkedPairs(kind)} \union {p[2] : p \in MarkedPairs(kind)}

(* check_extract_multi, check_extract_div: every module is verified on its *)
(* own, then all of them become black boxes, proved or not.                *)
CheckExtractMultiOverwrites ==     \* mutant: earlier black boxes are forgotten
  /\ pc = "map"
  /\ stage = "done"
  /\ \E ok \in [MarkedModules("multiplier") -> BOOLEAN] : multi_results' = Graph(ok)
  /\ multi_result' = AllTrue(multi_results')
  /\ blackbox' = MarkedModules("multiplier")
  /\ pc' = "div"
  /\ UNCHANGED <<vars, options, div_results, retime_results, cec_results,
                 div_result, retime_result, cec_result, ending>>

CheckExtractMulti ==
  /\ pc = "map"
  /\ stage = "done"
  /\ \E ok \in [MarkedModules("multiplier") -> BOOLEAN] : multi_results' = Graph(ok)
  /\ multi_result' = AllTrue(multi_results')
  /\ blackbox' = blackbox \union MarkedModules("multiplier")
  /\ pc' = "div"
  /\ UNCHANGED <<vars, options, div_results, retime_results, cec_results,
                 div_result, retime_result, cec_result, ending>>

CheckExtractDiv ==
  /\ pc = "div"
  /\ \E ok \in [MarkedModules("divider") -> BOOLEAN] : div_results' = Graph(ok)
  /\ div_result' = AllTrue(div_results')
  /\ blackbox' = blackbox \union MarkedModules("divider")
  /\ pc' = "retime"
  /\ UNCHANGED <<vars, options, multi_results, retime_results, cec_results,
                 multi_result, retime_result, cec_result, ending>>

-----------------------------------------------------------------------------
(* check_retime looks the gold module up by name.  For the gate top it     *)
(* compares an unescaped name with an escaped one and so looks for         *)
(* gold_prefix + the name of the gold top, which is no module.             *)
NoModule == [side |-> "gold", base |-> "prefixed top name"]

ASSUME NoModuleAssumption == NoModule.base \notin Base \union {Root}

RetimeGold(g) == IF g = gate_mod THEN NoModule ELSE GoldName(g)

RetimedPairs == {<<RetimeGold(g), g>> : g \in retime}

RetimeLookupFails ==
  /\ pc = "retime"
  /\ \E g \in retime : RetimeGold(g) \notin GoldMods
  /\ error' = "no gold module"
  /\ pc' = "error"
  /\ UNCHANGED <<vars, options, blackbox, lists, flags, tempdir, verdict>>

(* check_extract_retime: the pairs are verified by BMC and induction, then *)
(* both modules become black boxes.                                        *)
CheckExtractRetime ==
  /\ pc = "retime"
  /\ \A g \in retime : RetimeGold(g) \in GoldMods
  /\ \E ok \in [RetimedPairs -> BOOLEAN] : retime_results' = Graph(ok)
  /\ retime_result' = AllTrue(retime_results')
  /\ blackbox' = blackbox \union {p[1] : p \in RetimedPairs} \union retime
  /\ pc' = "cec"
  /\ UNCHANGED <<vars, options, multi_results, div_results, cec_results,
                 multi_result, div_result, cec_result, ending>>

-----------------------------------------------------------------------------
(* abc_cec: the pairs found by name, one abc_cec_module call for each.     *)
Checked == {r[1] : r \in cec_results}

CecPair(p, ok) ==
  /\ pc = "cec"
  /\ p \in equiv_mods(blackbox) \ Checked
  /\ cec_results' = cec_results \union {<<p, ok>>}
  /\ UNCHANGED <<vars, options, blackbox, multi_results, div_results, retime_results,
                 flags, ending, pc>>

(* A fatal tool error in abc_cec_module is a log_error.                    *)
CecAbort(p) ==
  /\ pc = "cec"
  /\ p \in equiv_mods(blackbox) \ Checked
  /\ error' = "tool"
  /\ pc' = "error"
  /\ UNCHANGED <<vars, options, blackbox, lists, flags, tempdir, verdict>>

(* report computes the verdict from the lists, not from the flags.         *)
report_succWithoutRetime ==      \* mutant: retiming results are left out
  AllTrue(multi_results) /\ AllTrue(div_results) /\ AllTrue(cec_results)

report_succ == AllTrue(multi_results) /\ AllTrue(div_results)
                 /\ AllTrue(retime_results) /\ AllTrue(cec_results)

Report ==
  /\ pc = "cec"
  /\ equiv_mods(blackbox) \subseteq Checked
  /\ cec_result' = AllTrue(cec_results)
  /\ verdict' = IF report_succ THEN "PASSED" ELSE "FAILED"
  /\ pc' = "finish"
  /\ UNCHANGED <<vars, options, blackbox, lists, multi_result, div_result, retime_result,
                 tempdir, error>>

FinishAssertFirst ==     \* mutant: the assertion precedes the cleanup
  LET fails == assert_mode /\ ~(cec_result /\ multi_result /\ div_result /\ retime_result)
  IN /\ pc = "finish"
     /\ tempdir' = (nocleanup \/ fails)
     /\ error' = IF fails THEN "assert" ELSE "none"
     /\ pc' = IF fails THEN "error" ELSE "end"
     /\ UNCHANGED <<vars, options, blackbox, lists, flags, verdict>>

(* The temporary directory goes, then -assert speaks.                      *)
Finish ==
  LET fails == assert_mode /\ ~(cec_result /\ multi_result /\ div_result /\ retime_result)
  IN /\ pc = "finish"
     /\ tempdir' = nocleanup
     /\ error' = IF fails THEN "assert" ELSE "none"
     /\ pc' = IF fails THEN "error" ELSE "end"
     /\ UNCHANGED <<vars, options, blackbox, lists, flags, verdict>>

Ended == pc \in {"end", "error"} /\ UNCHANGED all_vars

CheckNext ==
  \/ MapModules
  \/ CheckExtractMulti
  \/ CheckExtractDiv
  \/ RetimeLookupFails
  \/ CheckExtractRetime
  \/ \E p \in Pairs, ok \in BOOLEAN : CecPair(p, ok)
  \/ \E p \in Pairs : CecAbort(p)
  \/ Report
  \/ Finish
  \/ Ended

CheckSpec == CheckInit /\ [][CheckNext]_all_vars

-----------------------------------------------------------------------------
CheckTypeOK ==
  /\ blackbox \subseteq design /\ opaque \subseteq blackbox
  /\ multi_results \subseteq design \X BOOLEAN
  /\ div_results \subseteq design \X BOOLEAN
  /\ retime_results \subseteq (GoldMods \X GateMods) \X BOOLEAN
  /\ cec_results \subseteq Pairs \X BOOLEAN
  /\ verdict \in {"none", "PASSED", "FAILED"}
  /\ error \in {"none", "no gold module", "tool", "assert"}
  /\ pc \in {"map", "div", "retime", "cec", "finish", "end", "error"}

(* A pair was proved by ABC or by BMC, or both its modules were verified   *)
(* as multipliers or as dividers.                                          *)
Proved(p) ==
  \/ <<p, TRUE>> \in cec_results
  \/ <<p, TRUE>> \in retime_results
  \/ {<<p[1], TRUE>>, <<p[2], TRUE>>} \subseteq multi_results
  \/ {<<p[1], TRUE>>, <<p[2], TRUE>>} \subseteq div_results

(* The external match file names a gold module first and a gate module     *)
(* second, which hier_mod_map does not test: it takes any two modules of   *)
(* the design.  The names and the fallback always pair the two sides.      *)
SidesKept == \A p \in Pairs : p[1] \in GoldMods /\ p[2] \in GateMods

(* PASSED is earned: whatever was hidden as a black box on the way, every  *)
(* pair of equally named modules the user did not make opaque was proved   *)
(* by one of the engines.                                                  *)
PassedMeansProved ==
  verdict = "PASSED" /\ SidesKept =>
    \A p \in equiv_mods(opaque) : Proved(p)

(* A module becomes a black box only together with its partner, so that no *)
(* pair is compared with one body and one box.                             *)
BoxesComeInPairs ==
  pc \in {"cec", "finish", "end"} /\ SidesKept =>
    \A p \in Pairs : {p[1], p[2]} \cap opaque = {} =>
                       (p[1] \in blackbox <=> p[2] \in blackbox)

(* The report and -assert, which compute their verdicts separately and at  *)
(* different times, agree.                                                 *)
AssertAgreesWithReport ==
  /\ error = "assert" => verdict = "FAILED"
  /\ pc = "end" /\ assert_mode => verdict = "PASSED"

(* Unless -nocleanup is given, a run that reaches its report leaves no     *)
(* temporary directory, even if -assert then fails it.                     *)
ReportedRunCleansUp ==
  pc \in {"end", "error"} /\ verdict # "none" => tempdir = nocleanup

-----------------------------------------------------------------------------
(* "-assert: produce an error if any unproven structure is found": a run   *)
(* under -assert that ends without an error has proved every pair of       *)
(* modules it matched, also the ones matched by port signature.            *)
AssertFindsUnproven ==
  pc = "end" /\ assert_mode =>
    \A p \in Pairs : p[1] \in opaque \/ Proved(p)
=============================================================================
