-------------------------- MODULE GuideCheck_proofs --------------------------
(***************************************************************************)
(* Proofs about the guide_check pass for every design, every marking of    *)
(* its modules and every external match file: the pass runs hier_mod_map   *)
(* as it is specified, and from the inductive invariant CheckInv its       *)
(* verdict, its black boxes, -assert and the cleanup are right.            *)
(***************************************************************************)
EXTENDS GuideCheck, HierModMap_proofs

-----------------------------------------------------------------------------
(* The parts of the inductive invariant.                                   *)

RetimedGold == {p[1] : p \in RetimedPairs}

(* The marked modules have all been looked up and hidden.                  *)
Extracted == pc \in {"cec", "finish", "end"} \/ verdict # "none"

(* The user's design is never changed.                                     *)
Given ==
  /\ TopsAlike
  /\ retime \subseteq GateMods
  /\ opaque \subseteq design

(* Where execute is, what it has printed and what has stopped it.          *)
Control ==
  /\ pc # "map" => stage = "done"
  /\ pc \in {"map", "div", "retime", "cec"} => verdict = "none"
  /\ pc \in {"finish", "end"} => verdict # "none"
  /\ pc # "error" => error = "none"
  /\ Extracted => \A g \in retime : RetimeGold(g) \in GoldMods

(* The black boxes are the user's and those of the steps taken so far.     *)
Boxes ==
  /\ pc = "map" => blackbox = opaque
  /\ pc = "div" => blackbox = opaque \union MarkedModules("multiplier")
  /\ pc = "retime" =>
       blackbox = opaque \union MarkedModules("multiplier") \union MarkedModules("divider")
  /\ Extracted =>
       blackbox = opaque \union MarkedModules("multiplier") \union MarkedModules("divider")
                    \union RetimedGold \union retime

(* Every list has a verdict for everything its step looked at.             *)
Subjects(results) == {r[1] : r \in results}

Lists ==
  /\ pc = "map" => multi_results = {} /\ div_results = {}
  /\ pc \in {"map", "div", "retime"} => retime_results = {} /\ cec_results = {}
  /\ pc # "map" => MarkedModules("multiplier") \subseteq Subjects(multi_results)
  /\ pc \notin {"map", "div"} => MarkedModules("divider") \subseteq Subjects(div_results)
  /\ Extracted => RetimedPairs \subseteq Subjects(retime_results)
  /\ verdict # "none" => equiv_mods(blackbox) \subseteq Checked

(* The flags -assert looks at say what the lists say.                      *)
Flags ==
  /\ multi_result = AllTrue(multi_results)
  /\ div_result = AllTrue(div_results)
  /\ retime_result = AllTrue(retime_results)
  /\ verdict # "none" => cec_result = AllTrue(cec_results)

AllFlags == cec_result /\ multi_result /\ div_result /\ retime_result

(* The verdict and what follows it.                                        *)
Ending ==
  /\ verdict # "none" => verdict = IF report_succ THEN "PASSED" ELSE "FAILED"
  /\ error = "assert" => verdict # "none" /\ ~AllFlags
  /\ pc = "end" /\ assert_mode => AllFlags
  /\ ReportedRunCleansUp

CheckInv == CheckTypeOK /\ Given /\ Control /\ Boxes /\ Lists /\ Flags /\ Ending

-----------------------------------------------------------------------------
(* guide_check and hier_mod_map.                                           *)

LEMMA CheckStepIsMapStep == [CheckNext]_all_vars => [Next]_vars
<1> SUFFICES ASSUME [CheckNext]_all_vars PROVE [Next]_vars
  OBVIOUS
<1>1. CASE MapModules
  BY <1>1 DEF MapModules, Next
<1>2. CASE ~MapModules
  <2>1. UNCHANGED vars
    BY <1>2 DEF CheckNext, CheckExtractMulti, CheckExtractDiv, RetimeLookupFails,
                CheckExtractRetime, CecPair, CecAbort, Report, Finish, Ended, all_vars
  <2> QED BY <2>1
<1> QED BY <1>1, <1>2

(* The pass contains hier_mod_map unchanged: seen through its variables,   *)
(* every run of guide_check is a run of HierModMap, so that all that is    *)
(* proved of the pairing holds inside the pass.                            *)
THEOREM CheckContainsMap == CheckSpec => Spec
<1>1. CheckInit => Init
  BY DEF CheckInit
<1> QED BY <1>1, CheckStepIsMapStep, PTL DEF CheckSpec, Spec

THEOREM CheckMapInv == CheckSpec => []MapInv
BY CheckContainsMap, MapInvariant, PTL

-----------------------------------------------------------------------------
(* Facts about the operators of the pass.                                  *)

(* A list made from one verdict for each member of D.                      *)
LEMMA GraphFacts ==
  ASSUME NEW D, NEW ok \in [D -> BOOLEAN]
  PROVE  /\ Graph(ok) \subseteq D \X BOOLEAN
         /\ D \subseteq Subjects(Graph(ok))
<1>1. Graph(ok) \subseteq D \X BOOLEAN
  BY DEF Graph
<1>2. ASSUME NEW d \in D PROVE d \in Subjects(Graph(ok))
  <2>1. <<d, ok[d]>> \in Graph(ok) /\ <<d, ok[d]>>[1] = d
    BY DEF Graph
  <2> QED BY <2>1, Zenon DEF Subjects
<1> QED BY <1>1, <1>2

(* If a list is all true, whatever it has a verdict for was proved.        *)
LEMMA AllTrueProves ==
  ASSUME NEW D, NEW results \in SUBSET (D \X BOOLEAN), AllTrue(results),
         NEW d \in Subjects(results)
  PROVE  <<d, TRUE>> \in results
<1>1. PICK r \in results : d = r[1]
  BY Zenon DEF Subjects
<1>2. r \in D \X BOOLEAN
  OBVIOUS
<1>3. r = <<r[1], r[2]>> /\ r[2] \in BOOLEAN
  BY <1>2
<1>4. r[2] = TRUE
  BY <1>3, Zenon DEF AllTrue
<1> QED BY <1>1, <1>3, <1>4

LEMMA PairFacts ==
  ASSUME MapInv, NEW p
  PROVE  /\ p \in Pairs <=> p = <<p[1], p[2]>> /\ p[1] \in mapped_mods_gold
                             /\ p[2] = gold2gate[p[1]]
         /\ p \in Pairs => p[1] \in design /\ p[2] \in design
<1>1. gold2gate \in [mapped_mods_gold -> mapped_mods_gate]
      /\ DOMAIN gold2gate = mapped_mods_gold
      /\ mapped_mods_gold \subseteq design /\ mapped_mods_gate \subseteq design
  BY DEF MapInv, TypeOK
<1>2. ASSUME p \in Pairs
      PROVE  p = <<p[1], p[2]>> /\ p[1] \in mapped_mods_gold /\ p[2] = gold2gate[p[1]]
  <2>1. PICK m \in DOMAIN gold2gate : p = <<m, gold2gate[m]>>
    BY <1>2, Zenon DEF Pairs
  <2> QED BY <1>1, <2>1
<1>3. ASSUME p = <<p[1], p[2]>>, p[1] \in mapped_mods_gold, p[2] = gold2gate[p[1]]
      PROVE  p \in Pairs
  <2>1. p = <<p[1], gold2gate[p[1]]>> /\ p[1] \in DOMAIN gold2gate
    BY <1>1, <1>3
  <2> QED BY <2>1, Zenon DEF Pairs
<1> QED BY <1>1, <1>2, <1>3

LEMMA MarkedInDesign ==
  ASSUME MapInv, NEW kind
  PROVE  MarkedModules(kind) \subseteq design
BY PairFacts DEF MarkedModules, MarkedPairs

(* The two sides have no module in common.                                 *)
LEMMA SidesDisjoint ==
  ASSUME MapInv, NEW m \in GoldMods
  PROVE  m \notin GateMods /\ m.side = "gold"
BY DEF MapInv, TypeOK, GoldMods, GateMods, OnSide

(* What depends on the map and the options stays while they do.            *)
LEMMA FrameKept ==
  ASSUME UNCHANGED <<vars, options>>
  PROVE  /\ GoldMods' = GoldMods /\ GateMods' = GateMods /\ TopsAlike' = TopsAlike
         /\ Pairs' = Pairs
         /\ \A k : MarkedModules(k)' = MarkedModules(k)
         /\ \A g : RetimeGold(g)' = RetimeGold(g)
         /\ RetimedPairs' = RetimedPairs /\ RetimedGold' = RetimedGold
         /\ \A bb : equiv_mods(bb)' = equiv_mods(bb)
<1>1. UNCHANGED <<input, stage, maps>> /\ mark' = mark /\ retime' = retime
  BY DEF vars, options
<1>2. /\ GoldMods' = GoldMods /\ GateMods' = GateMods /\ TopsAlike' = TopsAlike
      /\ \A m : GateName(m)' = GateName(m)
  BY <1>1, InputKept
<1>3. Pairs' = Pairs
  BY <1>1 DEF Pairs, maps
<1>4. \A k : MarkedModules(k)' = MarkedModules(k)
  BY <1>1, <1>3 DEF MarkedModules, MarkedPairs
<1>5. \A g : RetimeGold(g)' = RetimeGold(g)
  BY <1>1 DEF RetimeGold, GoldName, input
<1>6. RetimedPairs' = RetimedPairs
  BY <1>1, <1>5 DEF RetimedPairs
<1>7. RetimedGold' = RetimedGold
  BY <1>6 DEF RetimedGold
<1>8. \A bb : equiv_mods(bb)' = equiv_mods(bb)
  BY <1>1, <1>2 DEF equiv_mods, input
<1> QED BY <1>2, <1>3, <1>4, <1>5, <1>6, <1>7, <1>8

-----------------------------------------------------------------------------
(* One lemma per action: it preserves CheckInv.                            *)

LEMMA InitCheckInv == CheckInit => CheckInv
<1> SUFFICES ASSUME CheckInit PROVE CheckInv
  OBVIOUS
<1>1. /\ pc = "map" /\ verdict = "none" /\ error = "none"
      /\ blackbox = opaque /\ opaque \subseteq design
      /\ multi_results = {} /\ div_results = {} /\ retime_results = {} /\ cec_results = {}
  BY DEF CheckInit
<1>2. ~Extracted
  BY <1>1 DEF Extracted
<1>3. CheckTypeOK
  BY <1>1 DEF CheckTypeOK
<1>4. Given
  BY <1>1 DEF CheckInit, Given
<1>5. Control /\ Boxes /\ Lists
  BY <1>1, <1>2 DEF Control, Boxes, Lists
<1>6. Flags
  <2>1. AllTrue({}) = TRUE
    BY DEF AllTrue
  <2> QED BY <1>1, <2>1 DEF Flags, CheckInit
<1>7. Ending
  BY <1>1 DEF Ending, ReportedRunCleansUp
<1> QED BY <1>3, <1>4, <1>5, <1>6, <1>7 DEF CheckInv

LEMMA MapModulesStep ==
  ASSUME CheckInv, MapInv, MapModules
  PROVE  CheckInv'
<1>0. CheckTypeOK /\ Given /\ Control /\ Boxes /\ Lists /\ Flags /\ Ending
  BY DEF CheckInv
<1>1. pc = "map" /\ pc' = "map" /\ verdict = "none" /\ verdict' = "none" /\ UNCHANGED gc_vars
  BY <1>0 DEF MapModules, gc_vars, ending, Control
<1>2. UNCHANGED input
  BY DEF MapModules, MapStep, MapGoldByName, MapGateByName, ExternalLine, StartFallback,
         MatchBySignature, NoSuchSignature, FinishFallback
<1>3. GoldMods' = GoldMods /\ GateMods' = GateMods /\ TopsAlike' = TopsAlike
      /\ design' = design
  BY <1>2, InputKept DEF input
<1>4. UNCHANGED <<options, blackbox, lists, flags, ending>>
  BY <1>1 DEF gc_vars
<1>5. retime_results = {} /\ cec_results = {} /\ multi_results = {} /\ div_results = {}
  BY <1>0, <1>1 DEF Lists
<1>6. CheckTypeOK'
  BY <1>0, <1>1, <1>3, <1>4, <1>5 DEF CheckTypeOK, options, lists, ending
<1>7. Given'
  BY <1>0, <1>3, <1>4 DEF Given, options
<1>8. ~Extracted'
  BY <1>1 DEF Extracted
<1>9. Control' /\ Boxes' /\ Lists'
  BY <1>0, <1>1, <1>4, <1>5, <1>8 DEF Control, Boxes, Lists, options, lists, ending
<1>10. Flags'
  BY <1>0, <1>1, <1>4 DEF Flags, lists, flags
<1>11. Ending'
  BY <1>0, <1>1, <1>4 DEF Ending, ReportedRunCleansUp, options, ending
<1> QED BY <1>6, <1>7, <1>9, <1>10, <1>11 DEF CheckInv

LEMMA MultiStep ==
  ASSUME CheckInv, MapInv, CheckExtractMulti
  PROVE  CheckInv'
<1>0. CheckTypeOK /\ Given /\ Control /\ Boxes /\ Lists /\ Flags /\ Ending
  BY DEF CheckInv
<1>1. /\ pc = "map" /\ pc' = "div" /\ stage = "done" /\ UNCHANGED <<vars, options>>
      /\ blackbox' = blackbox \union MarkedModules("multiplier")
      /\ multi_result' = AllTrue(multi_results')
      /\ UNCHANGED <<div_results, retime_results, cec_results>>
      /\ UNCHANGED <<div_result, retime_result, cec_result>>
      /\ UNCHANGED <<tempdir, verdict, error>>
  BY DEF CheckExtractMulti, ending
<1>2. /\ GoldMods' = GoldMods /\ GateMods' = GateMods /\ TopsAlike' = TopsAlike
      /\ Pairs' = Pairs
      /\ \A k : MarkedModules(k)' = MarkedModules(k)
  BY <1>1, FrameKept
<1>3. /\ multi_results' \subseteq MarkedModules("multiplier") \X BOOLEAN
      /\ MarkedModules("multiplier") \subseteq Subjects(multi_results')
  BY GraphFacts DEF CheckExtractMulti
<1>4. design' = design /\ stage' = "done" /\ opaque' = opaque /\ retime' = retime
      /\ assert_mode' = assert_mode /\ nocleanup' = nocleanup
  BY <1>1 DEF vars, input, options
<1>5. verdict' = "none" /\ error' = "none"
  BY <1>0, <1>1 DEF Control
<1>6. ~Extracted'
  BY <1>1, <1>5 DEF Extracted
<1>7. MarkedModules("multiplier") \subseteq design
  BY MarkedInDesign
<1>8. CheckTypeOK'
  <2>1. blackbox' \subseteq design' /\ opaque' \subseteq blackbox'
    BY <1>0, <1>1, <1>4, <1>7 DEF CheckTypeOK
  <2>2. multi_results' \subseteq design' \X BOOLEAN
    BY <1>3, <1>4, <1>7
  <2> QED BY <1>0, <1>1, <1>2, <1>4, <1>5, <2>1, <2>2 DEF CheckTypeOK
<1>9. Given'
  BY <1>0, <1>2, <1>4 DEF Given
<1>10. Control' /\ Boxes'
  BY <1>0, <1>1, <1>2, <1>4, <1>5, <1>6 DEF Control, Boxes
<1>11. Lists'
  BY <1>0, <1>1, <1>2, <1>3, <1>5, <1>6 DEF Lists
<1>12. Flags'
  BY <1>0, <1>1, <1>5 DEF Flags
<1>13. Ending'
  BY <1>1, <1>5 DEF Ending, ReportedRunCleansUp
<1> QED BY <1>8, <1>9, <1>10, <1>11, <1>12, <1>13 DEF CheckInv

LEMMA DivStep ==
  ASSUME CheckInv, MapInv, CheckExtractDiv
  PROVE  CheckInv'
<1>0. CheckTypeOK /\ Given /\ Control /\ Boxes /\ Lists /\ Flags /\ Ending
  BY DEF CheckInv
<1>1. /\ pc = "div" /\ pc' = "retime" /\ stage = "done" /\ UNCHANGED <<vars, options>>
      /\ blackbox' = blackbox \union MarkedModules("divider")
      /\ div_result' = AllTrue(div_results')
      /\ UNCHANGED <<multi_results, retime_results, cec_results>>
      /\ UNCHANGED <<multi_result, retime_result, cec_result>>
      /\ UNCHANGED <<tempdir, verdict, error>>
  BY <1>0 DEF CheckExtractDiv, ending, Control
<1>2. /\ GoldMods' = GoldMods /\ GateMods' = GateMods /\ TopsAlike' = TopsAlike
      /\ Pairs' = Pairs
      /\ \A k : MarkedModules(k)' = MarkedModules(k)
  BY <1>1, FrameKept
<1>3. /\ div_results' \subseteq MarkedModules("divider") \X BOOLEAN
      /\ MarkedModules("divider") \subseteq Subjects(div_results')
  BY GraphFacts DEF CheckExtractDiv
<1>4. design' = design /\ stage' = "done" /\ opaque' = opaque /\ retime' = retime
      /\ assert_mode' = assert_mode /\ nocleanup' = nocleanup
  BY <1>1 DEF vars, input, options
<1>5. verdict' = "none" /\ error' = "none"
  BY <1>0, <1>1 DEF Control
<1>6. ~Extracted'
  BY <1>1, <1>5 DEF Extracted
<1>7. MarkedModules("divider") \subseteq design
  BY MarkedInDesign
<1>8. CheckTypeOK'
  <2>1. blackbox' \subseteq design' /\ opaque' \subseteq blackbox'
    BY <1>0, <1>1, <1>4, <1>7 DEF CheckTypeOK
  <2>2. div_results' \subseteq design' \X BOOLEAN
    BY <1>3, <1>4, <1>7
  <2> QED BY <1>0, <1>1, <1>2, <1>4, <1>5, <2>1, <2>2 DEF CheckTypeOK
<1>9. Given'
  BY <1>0, <1>2, <1>4 DEF Given
<1>10. Control' /\ Boxes'
  BY <1>0, <1>1, <1>2, <1>4, <1>5, <1>6 DEF Control, Boxes
<1>11. Lists'
  BY <1>0, <1>1, <1>2, <1>3, <1>5, <1>6 DEF Lists
<1>12. Flags'
  BY <1>0, <1>1, <1>5 DEF Flags
<1>13. Ending'
  BY <1>1, <1>5 DEF Ending, ReportedRunCleansUp
<1> QED BY <1>8, <1>9, <1>10, <1>11, <1>12, <1>13 DEF CheckInv

(* A gate module has its retimed partner on the gold side, and no module   *)
(* is named like the one looked up for the gate top.                       *)
LEMMA RetimeGoldFacts ==
  ASSUME MapInv, NEW g \in GateMods, RetimeGold(g) \in GoldMods
  PROVE  g # gate_mod /\ RetimeGold(g) = GoldName(g)
<1>1. design \subseteq Name
  BY DEF MapInv, TypeOK
<1>2. NoModule \notin GoldMods
  BY <1>1, NoModuleAssumption DEF GoldMods, Name, NoModule
<1> QED BY <1>2 DEF RetimeGold

LEMMA RetimeFailsStep ==
  ASSUME CheckInv, MapInv, RetimeLookupFails
  PROVE  CheckInv'
<1>0. CheckTypeOK /\ Given /\ Control /\ Boxes /\ Lists /\ Flags /\ Ending
  BY DEF CheckInv
<1>1. /\ pc = "retime" /\ pc' = "error" /\ error' = "no gold module" /\ UNCHANGED <<vars, options>>
      /\ stage = "done" /\ verdict = "none" /\ verdict' = "none"
      /\ UNCHANGED <<blackbox, lists, flags, tempdir>>
  BY <1>0 DEF RetimeLookupFails, Control
<1>2. /\ GoldMods' = GoldMods /\ GateMods' = GateMods /\ TopsAlike' = TopsAlike
      /\ Pairs' = Pairs
      /\ \A k : MarkedModules(k)' = MarkedModules(k)
  BY <1>1, FrameKept
<1>3. design' = design /\ stage' = "done" /\ opaque' = opaque /\ retime' = retime
  BY <1>1 DEF vars, input, options
<1>4. ~Extracted'
  BY <1>1 DEF Extracted
<1>5. CheckTypeOK'
  BY <1>0, <1>1, <1>2, <1>3 DEF CheckTypeOK, lists
<1>6. Given' /\ Control' /\ Boxes'
  BY <1>0, <1>1, <1>2, <1>3, <1>4 DEF Given, Control, Boxes
<1>7. Lists'
  BY <1>0, <1>1, <1>2, <1>4 DEF Lists, lists
<1>8. Flags'
  BY <1>0, <1>1 DEF Flags, lists, flags
<1>9. Ending'
  BY <1>1 DEF Ending, ReportedRunCleansUp
<1> QED BY <1>5, <1>6, <1>7, <1>8, <1>9 DEF CheckInv

LEMMA RetimeStep ==
  ASSUME CheckInv, MapInv, CheckExtractRetime
  PROVE  CheckInv'
<1>0. CheckTypeOK /\ Given /\ Control /\ Boxes /\ Lists /\ Flags /\ Ending
  BY DEF CheckInv
<1>1. /\ pc = "retime" /\ pc' = "cec" /\ stage = "done" /\ UNCHANGED <<vars, options>>
      /\ \A g \in retime : RetimeGold(g) \in GoldMods
      /\ blackbox' = blackbox \union RetimedGold \union retime
      /\ retime_result' = AllTrue(retime_results')
      /\ UNCHANGED <<multi_results, div_results, cec_results>>
      /\ UNCHANGED <<multi_result, div_result, cec_result>>
      /\ UNCHANGED <<tempdir, verdict, error>>
  BY <1>0 DEF CheckExtractRetime, ending, Control, RetimedGold
<1>2. /\ GoldMods' = GoldMods /\ GateMods' = GateMods /\ TopsAlike' = TopsAlike
      /\ Pairs' = Pairs
      /\ \A k : MarkedModules(k)' = MarkedModules(k)
      /\ \A g : RetimeGold(g)' = RetimeGold(g)
      /\ RetimedPairs' = RetimedPairs /\ RetimedGold' = RetimedGold
  BY <1>1, FrameKept
<1>3. /\ retime_results' \subseteq RetimedPairs \X BOOLEAN
      /\ RetimedPairs \subseteq Subjects(retime_results')
  BY GraphFacts DEF CheckExtractRetime
<1>4. design' = design /\ stage' = "done" /\ opaque' = opaque /\ retime' = retime
      /\ assert_mode' = assert_mode /\ nocleanup' = nocleanup
  BY <1>1 DEF vars, input, options
<1>5. verdict' = "none" /\ error' = "none"
  BY <1>0, <1>1 DEF Control
<1>6. RetimedPairs \subseteq GoldMods \X GateMods
  BY <1>0, <1>1 DEF Given, RetimedPairs
<1>7. RetimedGold \subseteq design /\ retime \subseteq design
  BY <1>0, <1>6 DEF RetimedGold, Given, GoldMods, GateMods
<1>8. CheckTypeOK'
  <2>1. blackbox' \subseteq design' /\ opaque' \subseteq blackbox'
    BY <1>0, <1>1, <1>4, <1>7 DEF CheckTypeOK
  <2>2. retime_results' \subseteq (GoldMods' \X GateMods') \X BOOLEAN
    BY <1>2, <1>3, <1>6
  <2> QED BY <1>0, <1>1, <1>2, <1>4, <1>5, <2>1, <2>2 DEF CheckTypeOK
<1>9. Given'
  BY <1>0, <1>2, <1>4 DEF Given
<1>10. Control' /\ Boxes'
  BY <1>0, <1>1, <1>2, <1>4, <1>5 DEF Control, Boxes
<1>11. Lists'
  BY <1>0, <1>1, <1>2, <1>3, <1>5 DEF Lists
<1>12. Flags'
  BY <1>0, <1>1, <1>5 DEF Flags
<1>13. Ending'
  BY <1>1, <1>5 DEF Ending, ReportedRunCleansUp
<1> QED BY <1>8, <1>9, <1>10, <1>11, <1>12, <1>13 DEF CheckInv

LEMMA CecPairStep ==
  ASSUME CheckInv, MapInv, NEW p \in Pairs, NEW ok \in BOOLEAN, CecPair(p, ok)
  PROVE  CheckInv'
<1>0. CheckTypeOK /\ Given /\ Control /\ Boxes /\ Lists /\ Flags /\ Ending
  BY DEF CheckInv
<1>1. /\ pc = "cec" /\ pc' = "cec" /\ UNCHANGED <<vars, options>>
      /\ verdict = "none" /\ verdict' = "none" /\ error = "none" /\ error' = "none"
      /\ cec_results' = cec_results \union {<<p, ok>>}
      /\ UNCHANGED <<blackbox, multi_results, div_results, retime_results>>
      /\ UNCHANGED flags
  BY <1>0 DEF CecPair, ending, Control
<1>2. /\ GoldMods' = GoldMods /\ GateMods' = GateMods /\ TopsAlike' = TopsAlike
      /\ Pairs' = Pairs
      /\ \A k : MarkedModules(k)' = MarkedModules(k)
      /\ \A g : RetimeGold(g)' = RetimeGold(g)
      /\ RetimedPairs' = RetimedPairs /\ RetimedGold' = RetimedGold
  BY <1>1, FrameKept
<1>3. design' = design /\ stage' = stage /\ opaque' = opaque /\ retime' = retime
  BY <1>1 DEF vars, input, options
<1>4. Extracted /\ Extracted'
  BY <1>1 DEF Extracted
<1>5. CheckTypeOK'
  BY <1>0, <1>1, <1>2, <1>3 DEF CheckTypeOK
<1>6. Given' /\ Control' /\ Boxes'
  BY <1>0, <1>1, <1>2, <1>3, <1>4 DEF Given, Control, Boxes
<1>7. Lists'
  BY <1>0, <1>1, <1>2, <1>4 DEF Lists
<1>8. Flags'
  BY <1>0, <1>1 DEF Flags, flags
<1>9. Ending'
  BY <1>1 DEF Ending, ReportedRunCleansUp
<1> QED BY <1>5, <1>6, <1>7, <1>8, <1>9 DEF CheckInv

LEMMA CecAbortStep ==
  ASSUME CheckInv, MapInv, NEW p, CecAbort(p)
  PROVE  CheckInv'
<1>0. CheckTypeOK /\ Given /\ Control /\ Boxes /\ Lists /\ Flags /\ Ending
  BY DEF CheckInv
<1>1. /\ pc = "cec" /\ pc' = "error" /\ error' = "tool" /\ UNCHANGED <<vars, options>>
      /\ stage = "done" /\ verdict = "none" /\ verdict' = "none"
      /\ UNCHANGED <<blackbox, lists, flags, tempdir>>
  BY <1>0 DEF CecAbort, Control
<1>2. /\ GoldMods' = GoldMods /\ GateMods' = GateMods /\ TopsAlike' = TopsAlike
      /\ Pairs' = Pairs
      /\ \A k : MarkedModules(k)' = MarkedModules(k)
  BY <1>1, FrameKept
<1>3. design' = design /\ stage' = "done" /\ opaque' = opaque /\ retime' = retime
  BY <1>1 DEF vars, input, options
<1>4. ~Extracted'
  BY <1>1 DEF Extracted
<1>5. CheckTypeOK'
  BY <1>0, <1>1, <1>2, <1>3 DEF CheckTypeOK, lists
<1>6. Given' /\ Control' /\ Boxes'
  BY <1>0, <1>1, <1>2, <1>3, <1>4 DEF Given, Control, Boxes
<1>7. Lists'
  BY <1>0, <1>1, <1>2, <1>4 DEF Lists, lists
<1>8. Flags'
  BY <1>0, <1>1 DEF Flags, lists, flags
<1>9. Ending'
  BY <1>1 DEF Ending, ReportedRunCleansUp
<1> QED BY <1>5, <1>6, <1>7, <1>8, <1>9 DEF CheckInv

LEMMA ReportStep ==
  ASSUME CheckInv, MapInv, Report
  PROVE  CheckInv'
<1>0. CheckTypeOK /\ Given /\ Control /\ Boxes /\ Lists /\ Flags /\ Ending
  BY DEF CheckInv
<1>1. /\ pc = "cec" /\ pc' = "finish" /\ UNCHANGED <<vars, options>>
      /\ stage = "done" /\ error = "none" /\ error' = "none"
      /\ equiv_mods(blackbox) \subseteq Checked
      /\ cec_result' = AllTrue(cec_results)
      /\ verdict' = IF report_succ THEN "PASSED" ELSE "FAILED"
      /\ UNCHANGED <<blackbox, lists, multi_result, div_result, retime_result>>
  BY <1>0 DEF Report, Control
<1>2. /\ GoldMods' = GoldMods /\ GateMods' = GateMods /\ TopsAlike' = TopsAlike
      /\ Pairs' = Pairs
      /\ \A k : MarkedModules(k)' = MarkedModules(k)
      /\ \A g : RetimeGold(g)' = RetimeGold(g)
      /\ RetimedPairs' = RetimedPairs /\ RetimedGold' = RetimedGold
      /\ \A bb : equiv_mods(bb)' = equiv_mods(bb)
  BY <1>1, FrameKept
<1>3. design' = design /\ stage' = "done" /\ opaque' = opaque /\ retime' = retime
  BY <1>1 DEF vars, input, options
<1>4. Extracted /\ Extracted' /\ verdict' \in {"PASSED", "FAILED"}
  BY <1>1 DEF Extracted
<1>5. Checked' = Checked /\ report_succ' = report_succ
  BY <1>1 DEF Checked, report_succ, lists
<1>6. equiv_mods(blackbox)' = equiv_mods(blackbox)
  BY <1>1, <1>2, FrameKept DEF equiv_mods, vars, input, GateName
<1>7. CheckTypeOK'
  BY <1>0, <1>1, <1>2, <1>3, <1>4 DEF CheckTypeOK, lists
<1>8. Given' /\ Control' /\ Boxes'
  BY <1>0, <1>1, <1>2, <1>3, <1>4 DEF Given, Control, Boxes
<1>9. Lists'
  BY <1>0, <1>1, <1>2, <1>4, <1>5, <1>6 DEF Lists, lists
<1>10. Flags'
  BY <1>0, <1>1 DEF Flags, lists
<1>11. Ending'
  BY <1>1, <1>5 DEF Ending, ReportedRunCleansUp
<1> QED BY <1>7, <1>8, <1>9, <1>10, <1>11 DEF CheckInv

LEMMA FinishCheckStep ==
  ASSUME CheckInv, MapInv, Finish
  PROVE  CheckInv'
<1>0. CheckTypeOK /\ Given /\ Control /\ Boxes /\ Lists /\ Flags /\ Ending
  BY DEF CheckInv
<1>1. /\ pc = "finish" /\ pc' \in {"end", "error"} /\ UNCHANGED <<vars, options>>
      /\ stage = "done" /\ verdict # "none" /\ verdict' = verdict
      /\ tempdir' = nocleanup
      /\ UNCHANGED <<blackbox, lists, flags>>
  BY <1>0 DEF Finish, Control
<1>2. /\ GoldMods' = GoldMods /\ GateMods' = GateMods /\ TopsAlike' = TopsAlike
      /\ Pairs' = Pairs
      /\ \A k : MarkedModules(k)' = MarkedModules(k)
      /\ \A g : RetimeGold(g)' = RetimeGold(g)
      /\ RetimedPairs' = RetimedPairs /\ RetimedGold' = RetimedGold
      /\ \A bb : equiv_mods(bb)' = equiv_mods(bb)
  BY <1>1, FrameKept
<1>3. design' = design /\ stage' = "done" /\ opaque' = opaque /\ retime' = retime
      /\ assert_mode' = assert_mode /\ nocleanup' = nocleanup
  BY <1>1 DEF vars, input, options
<1>4. Extracted /\ Extracted'
  BY <1>1 DEF Extracted
<1>5. Checked' = Checked /\ report_succ' = report_succ /\ AllFlags' = AllFlags
  BY <1>1 DEF Checked, report_succ, AllFlags, lists, flags
<1>6. equiv_mods(blackbox)' = equiv_mods(blackbox)
  BY <1>1, <1>2, FrameKept DEF equiv_mods, vars, input, GateName
<1>7. \/ pc' = "error" /\ error' = "assert" /\ ~AllFlags
      \/ pc' = "end" /\ error' = "none" /\ (assert_mode => AllFlags)
  BY DEF Finish, AllFlags
<1>8. CheckTypeOK'
  BY <1>0, <1>1, <1>2, <1>3, <1>7 DEF CheckTypeOK, lists
<1>9. Given' /\ Control' /\ Boxes'
  BY <1>0, <1>1, <1>2, <1>3, <1>4, <1>7 DEF Given, Control, Boxes
<1>10. Lists'
  BY <1>0, <1>1, <1>2, <1>4, <1>5, <1>6 DEF Lists, lists
<1>11. Flags'
  BY <1>0, <1>1 DEF Flags, lists, flags
<1>12. Ending'
  BY <1>0, <1>1, <1>3, <1>5, <1>7 DEF Ending, ReportedRunCleansUp
<1> QED BY <1>8, <1>9, <1>10, <1>11, <1>12 DEF CheckInv

LEMMA CheckStutterStep ==
  ASSUME CheckInv, UNCHANGED all_vars
  PROVE  CheckInv'
<1>0. CheckTypeOK /\ Given /\ Control /\ Boxes /\ Lists /\ Flags /\ Ending
  BY DEF CheckInv
<1>1. UNCHANGED <<vars, options, blackbox, lists, flags, ending, pc>>
  BY DEF all_vars, gc_vars
<1>2. /\ GoldMods' = GoldMods /\ GateMods' = GateMods /\ TopsAlike' = TopsAlike
      /\ Pairs' = Pairs
      /\ \A k : MarkedModules(k)' = MarkedModules(k)
      /\ \A g : RetimeGold(g)' = RetimeGold(g)
      /\ RetimedPairs' = RetimedPairs /\ RetimedGold' = RetimedGold
      /\ \A bb : equiv_mods(bb)' = equiv_mods(bb)
  BY <1>1, FrameKept
<1>3. design' = design /\ stage' = stage /\ opaque' = opaque /\ retime' = retime
      /\ assert_mode' = assert_mode /\ nocleanup' = nocleanup
  BY <1>1 DEF vars, input, options
<1>4. Extracted' = Extracted /\ UNCHANGED <<tempdir, verdict, error, pc>>
  BY <1>1 DEF Extracted, ending
<1>5. Checked' = Checked /\ report_succ' = report_succ /\ AllFlags' = AllFlags
  BY <1>1 DEF Checked, report_succ, AllFlags, lists, flags
<1>6. equiv_mods(blackbox)' = equiv_mods(blackbox)
  BY <1>1, <1>2, FrameKept DEF equiv_mods, vars, input, GateName
<1>7. CheckTypeOK'
  BY <1>0, <1>1, <1>2, <1>3, <1>4 DEF CheckTypeOK, lists
<1>8. Given' /\ Control' /\ Boxes'
  BY <1>0, <1>1, <1>2, <1>3, <1>4 DEF Given, Control, Boxes
<1>9. Lists'
  BY <1>0, <1>1, <1>2, <1>4, <1>5, <1>6 DEF Lists, lists
<1>10. Flags'
  BY <1>0, <1>1, <1>4 DEF Flags, lists, flags
<1>11. Ending'
  BY <1>0, <1>3, <1>4, <1>5 DEF Ending, ReportedRunCleansUp
<1> QED BY <1>7, <1>8, <1>9, <1>10, <1>11 DEF CheckInv

LEMMA NextCheckInv == CheckInv /\ MapInv /\ [CheckNext]_all_vars => CheckInv'
<1> SUFFICES ASSUME CheckInv, MapInv, [CheckNext]_all_vars PROVE CheckInv'
  OBVIOUS
<1>1. CASE MapModules
  BY <1>1, MapModulesStep
<1>2. CASE CheckExtractMulti
  BY <1>2, MultiStep
<1>3. CASE CheckExtractDiv
  BY <1>3, DivStep
<1>4. CASE RetimeLookupFails
  BY <1>4, RetimeFailsStep
<1>5. CASE CheckExtractRetime
  BY <1>5, RetimeStep
<1>6. CASE \E p \in Pairs, ok \in BOOLEAN : CecPair(p, ok)
  BY <1>6, CecPairStep
<1>7. CASE \E p \in Pairs : CecAbort(p)
  BY <1>7, CecAbortStep
<1>8. CASE Report
  BY <1>8, ReportStep
<1>9. CASE Finish
  BY <1>9, FinishCheckStep
<1>10. CASE UNCHANGED all_vars
  BY <1>10, CheckStutterStep
<1> QED
  BY <1>1, <1>2, <1>3, <1>4, <1>5, <1>6, <1>7, <1>8, <1>9, <1>10 DEF CheckNext, Ended

-----------------------------------------------------------------------------
(* CheckInv holds in every reachable state of the pass.                    *)
THEOREM CheckInvariant == CheckSpec => []CheckInv
BY InitCheckInv, NextCheckInv, CheckMapInv, PTL DEF CheckSpec

(* The lists, flags and options of the pass keep their types.              *)
THEOREM CheckTypeCorrect == CheckSpec => []CheckTypeOK
<1>1. CheckInv => CheckTypeOK
  BY DEF CheckInv
<1> QED BY <1>1, CheckInvariant, PTL

(* A run that reaches its report leaves no temporary directory behind      *)
(* unless told to, also when -assert fails it.                             *)
THEOREM CleanupCorrect == CheckSpec => []ReportedRunCleansUp
<1>1. CheckInv => ReportedRunCleansUp
  BY DEF CheckInv, Ending
<1> QED BY <1>1, CheckInvariant, PTL

(* The verdict report computes from the lists is the conjunction of the    *)
(* flags -assert looks at.                                                 *)
LEMMA VerdictIsFlags ==
  ASSUME CheckInv, verdict # "none"
  PROVE  verdict = IF AllFlags THEN "PASSED" ELSE "FAILED"
<1>1. AllFlags <=> report_succ
  BY DEF CheckInv, Flags, AllFlags, report_succ
<1> QED BY <1>1 DEF CheckInv, Ending

(* -assert fails exactly the runs that the report calls FAILED.            *)
THEOREM AssertCorrect == CheckSpec => []AssertAgreesWithReport
<1>1. CheckInv => AssertAgreesWithReport
  <2> SUFFICES ASSUME CheckInv PROVE AssertAgreesWithReport
    OBVIOUS
  <2>1. error = "assert" => verdict = "FAILED"
    BY VerdictIsFlags DEF CheckInv, Ending
  <2>2. pc = "end" /\ assert_mode => verdict = "PASSED"
    BY VerdictIsFlags DEF CheckInv, Ending, Control
  <2> QED BY <2>1, <2>2 DEF AssertAgreesWithReport
<1> QED BY <1>1, CheckInvariant, PTL

-----------------------------------------------------------------------------
(* Black boxes and their partners.                                         *)

(* A pair of the map is determined by either of its modules.               *)
LEMMA PairDetermined ==
  ASSUME MapInv, TopsAlike, NEW p \in Pairs, NEW q \in Pairs, p[1] = q[1] \/ p[2] = q[2]
  PROVE  p = q
<1>1. /\ p = <<p[1], p[2]>> /\ p[1] \in mapped_mods_gold /\ p[2] = gold2gate[p[1]]
      /\ q = <<q[1], q[2]>> /\ q[1] \in mapped_mods_gold /\ q[2] = gold2gate[q[1]]
  BY PairFacts
<1>2. \A m, n \in mapped_mods_gold : gold2gate[m] = gold2gate[n] => m = n
  BY DEF MapInv, Pairing
<1>3. p[1] = q[1] /\ p[2] = q[2]
  BY <1>1, <1>2
<1> QED BY <1>1, <1>3

(* A pair by name is a pair of the map.                                    *)
LEMMA NamedPair ==
  ASSUME MapInv, stage = "done", NEW m \in NamedGold
  PROVE  <<m, GateName(m)>> \in Pairs
<1>1. m \in mapped_mods_gold /\ gold2gate[m] = GateName(m)
  BY DEF MapInv, ByName
<1>2. <<m, GateName(m)>>[1] = m /\ <<m, GateName(m)>>[2] = GateName(m)
  OBVIOUS
<1> QED BY <1>1, <1>2, PairFacts

(* A marked module of a pair: the pair is marked.                          *)
LEMMA MarkedTogether ==
  ASSUME MapInv, TopsAlike, SidesKept, NEW kind, NEW p \in Pairs,
         p[1] \in MarkedModules(kind) \/ p[2] \in MarkedModules(kind)
  PROVE  p[1] \in MarkedModules(kind) /\ p[2] \in MarkedModules(kind)
<1>1. PICK q \in MarkedPairs(kind) : \/ p[1] = q[1] \/ p[1] = q[2]
                                     \/ p[2] = q[1] \/ p[2] = q[2]
  BY DEF MarkedModules
<1>2. q \in Pairs
  BY DEF MarkedPairs
<1>3. p[1] \in GoldMods /\ p[2] \in GateMods /\ q[1] \in GoldMods /\ q[2] \in GateMods
  BY <1>2 DEF SidesKept
<1>4. p[1] # q[2] /\ p[2] # q[1]
  BY <1>3, SidesDisjoint
<1>5. p = q
  BY <1>1, <1>2, <1>4, PairDetermined
<1> QED BY <1>5 DEF MarkedModules

(* A retimed module of a pair: the pair is the retimed one.                *)
LEMMA RetimedTogether ==
  ASSUME MapInv, Given, SidesKept, stage = "done", NEW p \in Pairs,
         \A g \in retime : RetimeGold(g) \in GoldMods,
         p[1] \in RetimedGold \union retime \/ p[2] \in RetimedGold \union retime
  PROVE  p \in RetimedPairs /\ p[1] \in RetimedGold /\ p[2] \in retime
<1>1. p[1] \in GoldMods /\ p[2] \in GateMods
  BY DEF SidesKept
<1>2. \A q \in RetimedPairs : q[1] \in GoldMods /\ q[2] \in retime /\ q[2] \in GateMods
                              /\ q = <<RetimeGold(q[2]), q[2]>>
  BY DEF RetimedPairs, Given
<1>3. \A g \in retime : <<RetimeGold(g), g>> \in RetimedPairs
  BY DEF RetimedPairs
<1>4. PICK q \in RetimedPairs : p[1] = q[1] \/ p[2] = q[2]
  <2>1. p[1] \notin retime /\ p[2] \notin RetimedGold
    BY <1>1, <1>2, SidesDisjoint DEF RetimedGold, Given
  <2>2. CASE p[1] \in RetimedGold
    BY <2>2 DEF RetimedGold
  <2>3. CASE p[2] \in retime
    BY <1>3, <2>3
  <2> QED BY <2>1, <2>2, <2>3
<1>5. q \in Pairs
  <2>1. /\ q[2] \in GateMods /\ q[1] = RetimeGold(q[2]) /\ q[1] \in GoldMods
        /\ q = <<q[1], q[2]>> /\ q[2] \in design
    BY <1>2 DEF GateMods
  <2>2. q[1] = GoldName(q[2])
    BY <2>1, RetimeGoldFacts
  <2>3. GateName(q[1]) = q[2]
    BY <2>1, <2>2, GateGoldGate DEF MapInv, Given
  <2>4. q[1] \in NamedGold
    BY <2>1, <2>3 DEF NamedGold
  <2>5. <<q[1], GateName(q[1])>> \in Pairs
    BY <2>4, NamedPair
  <2> QED BY <2>1, <2>3, <2>5
<1>6. p = q
  BY <1>4, <1>5, PairDetermined DEF Given
<1> QED BY <1>2, <1>6 DEF RetimedGold

(* A module becomes a black box only together with its partner.            *)
THEOREM BoxesCorrect == CheckSpec => []BoxesComeInPairs
<1>1. CheckInv /\ MapInv => BoxesComeInPairs
  <2> SUFFICES ASSUME CheckInv, MapInv, pc \in {"cec", "finish", "end"}, SidesKept,
                      NEW p \in Pairs, {p[1], p[2]} \cap opaque = {}
               PROVE  p[1] \in blackbox <=> p[2] \in blackbox
    BY DEF BoxesComeInPairs
  <2>1. /\ Given /\ TopsAlike /\ stage = "done"
        /\ \A g \in retime : RetimeGold(g) \in GoldMods
        /\ blackbox = opaque \union MarkedModules("multiplier") \union MarkedModules("divider")
                        \union RetimedGold \union retime
    BY DEF CheckInv, Control, Boxes, Given, Extracted
  <2> QED BY <2>1, MarkedTogether, RetimedTogether
<1> QED BY <1>1, CheckInvariant, CheckMapInv, PTL

(* PASSED is earned: every pair of equally named modules the user did not  *)
(* make opaque was proved by ABC, by BMC or as an arithmetic module.       *)
THEOREM PassedCorrect == CheckSpec => []PassedMeansProved
<1>1. CheckInv /\ MapInv => PassedMeansProved
  <2> SUFFICES ASSUME CheckInv, MapInv, verdict = "PASSED", SidesKept,
                      NEW p \in equiv_mods(opaque)
               PROVE  Proved(p)
    BY DEF PassedMeansProved
  <2>1. /\ CheckTypeOK /\ Given /\ Control /\ Boxes /\ Lists /\ Ending /\ TopsAlike
        /\ Extracted /\ verdict # "none" /\ pc \notin {"map", "div", "retime"}
    BY DEF CheckInv, Given, Extracted, Control
  <2>2. stage = "done" /\ \A g \in retime : RetimeGold(g) \in GoldMods
    BY <2>1 DEF Control
  <2>3. AllTrue(multi_results) /\ AllTrue(div_results)
        /\ AllTrue(retime_results) /\ AllTrue(cec_results)
    BY <2>1 DEF Ending, report_succ
  <2>4. PICK m \in GoldMods \ opaque : GateName(m) \in design /\ p = <<m, GateName(m)>>
    BY DEF equiv_mods
  <2>5. p \in Pairs /\ p[1] = m
    BY <2>2, <2>4, NamedPair DEF NamedGold
  <2>6. CASE m \notin blackbox
    <3>1. p \in equiv_mods(blackbox)
      BY <2>4, <2>6 DEF equiv_mods
    <3>2. p \in Subjects(cec_results)
      BY <2>1, <3>1 DEF Lists, Checked, Subjects
    <3>3. <<p, TRUE>> \in cec_results
      BY <2>1, <2>3, <3>2, AllTrueProves DEF CheckTypeOK
    <3> QED BY <3>3 DEF Proved
  <2>7. CASE m \in MarkedModules("multiplier")
    <3>1. p[1] \in Subjects(multi_results) /\ p[2] \in Subjects(multi_results)
      BY <2>1, <2>5, <2>7, MarkedTogether DEF Lists
    <3>2. <<p[1], TRUE>> \in multi_results /\ <<p[2], TRUE>> \in multi_results
      BY <2>1, <2>3, <3>1, AllTrueProves DEF CheckTypeOK
    <3> QED BY <3>2 DEF Proved
  <2>8. CASE m \in MarkedModules("divider")
    <3>1. p[1] \in Subjects(div_results) /\ p[2] \in Subjects(div_results)
      BY <2>1, <2>5, <2>8, MarkedTogether DEF Lists
    <3>2. <<p[1], TRUE>> \in div_results /\ <<p[2], TRUE>> \in div_results
      BY <2>1, <2>3, <3>1, AllTrueProves DEF CheckTypeOK
    <3> QED BY <3>2 DEF Proved
  <2>9. CASE m \in RetimedGold \union retime
    <3>1. p \in Subjects(retime_results)
      BY <2>1, <2>2, <2>5, <2>9, RetimedTogether DEF Lists
    <3>2. <<p, TRUE>> \in retime_results
      BY <2>1, <2>3, <3>1, AllTrueProves DEF CheckTypeOK
    <3> QED BY <3>2 DEF Proved
  <2> QED BY <2>1, <2>4, <2>6, <2>7, <2>8, <2>9 DEF Boxes
<1> QED BY <1>1, CheckInvariant, CheckMapInv, PTL

(* What -assert can promise: a run under -assert that ends without an      *)
(* error has proved every pair of equally named modules.  (Not the pairs   *)
(* matched by port signature, see AssertFindsUnproven.)                    *)
THEOREM AssertProvesNamedPairs ==
  CheckSpec => [](pc = "end" /\ assert_mode /\ SidesKept => \A p \in equiv_mods(opaque) : Proved(p))
<1>1. AssertAgreesWithReport /\ PassedMeansProved =>
        (pc = "end" /\ assert_mode /\ SidesKept => \A p \in equiv_mods(opaque) : Proved(p))
  BY DEF AssertAgreesWithReport, PassedMeansProved
<1> QED BY <1>1, AssertCorrect, PassedCorrect, PTL

-----------------------------------------------------------------------------
(* Only the external file can break SidesKept.                             *)

SidesInv ==
  /\ unmapped_mods_gold \subseteq GoldMods
  /\ unmapped_mods_gate \subseteq GateMods
  /\ lines_read = 0 => \A m \in mapped_mods_gold : m \in GoldMods /\ gold2gate[m] \in GateMods

(* The counterpart of a named gold module is a gate module.                *)
LEMMA GateNameOnSide ==
  ASSUME TypeOK, NEW m \in NamedGold
  PROVE  m \in GoldMods /\ GateName(m) \in GateMods
BY DEF TypeOK, NamedGold, GoldMods, GateMods, GateName, OnSide

(* The pools only lose members.                                            *)
LEMMA PoolsShrink ==
  ASSUME UNCHANGED input, SidesInv,
         unmapped_mods_gold' \subseteq unmapped_mods_gold,
         unmapped_mods_gate' \subseteq unmapped_mods_gate
  PROVE  unmapped_mods_gold' \subseteq GoldMods' /\ unmapped_mods_gate' \subseteq GateMods'
BY InputKept DEF SidesInv

LEMMA NextSidesInv == MapInv /\ SidesInv /\ [Next]_vars => SidesInv'
<1> SUFFICES ASSUME MapInv, SidesInv, [Next]_vars PROVE SidesInv'
  OBVIOUS
<1>0. TypeOK /\ gold2gate \in [mapped_mods_gold -> mapped_mods_gate] /\ lines_read \in Nat
  BY MaxLinesAssumption DEF MapInv, TypeOK
<1>1. CASE MapGoldByName
  <2>1. /\ GoldMods' = GoldMods /\ GateMods' = GateMods
        /\ unmapped_mods_gold' \subseteq GoldMods
        /\ unmapped_mods_gate' = unmapped_mods_gate
        /\ mapped_mods_gold' = NamedGold
        /\ \A m \in NamedGold : gold2gate'[m] = GateName(m)
    BY <1>1, InputKept DEF MapGoldByName
  <2> QED BY <1>0, <2>1, GateNameOnSide DEF SidesInv
<1>2. CASE MapGateByName
  <2>1. /\ GoldMods' = GoldMods /\ GateMods' = GateMods
        /\ unmapped_mods_gold' = unmapped_mods_gold
        /\ unmapped_mods_gate' \subseteq GateMods
        /\ gold2gate' = gold2gate /\ lines_read' = lines_read
    BY <1>2, InputKept DEF MapGateByName
  <2>2. mapped_mods_gold' = mapped_mods_gold
    BY <1>0, <1>2, GoldNameNamed DEF MapGateByName, MapInv, Untouched
  <2> QED BY <2>1, <2>2 DEF SidesInv
<1>3. CASE \E gld, gte \in design : ExternalLine(gld, gte)
  <2>1. /\ UNCHANGED input /\ lines_read' = lines_read + 1
        /\ unmapped_mods_gold' \subseteq unmapped_mods_gold
        /\ unmapped_mods_gate' \subseteq unmapped_mods_gate
    BY <1>3 DEF ExternalLine
  <2>2. lines_read' # 0
    BY <1>0, <2>1
  <2> QED BY <2>1, <2>2, PoolsShrink DEF SidesInv
<1>4. CASE \E gld \in todo, gname \in gate_sigs : MatchBySignature(gld, gname)
  <2>1. PICK gld \in todo, gname \in gate_sigs : MatchBySignature(gld, gname)
    BY <1>4
  <2>2. gld \in GoldMods /\ gname \in GateMods
    BY DEF SidesInv, MapInv, TypeOK
  <2>3. /\ UNCHANGED input /\ lines_read' = lines_read
        /\ gold2gate' = Assign(gold2gate, gld, gname)
        /\ mapped_mods_gold' = mapped_mods_gold \union {gld}
        /\ unmapped_mods_gold' = unmapped_mods_gold
        /\ unmapped_mods_gate' = unmapped_mods_gate
    BY <2>1 DEF MatchBySignature
  <2>4. \A m \in mapped_mods_gold' : gold2gate'[m] = IF m = gld THEN gname ELSE gold2gate[m]
    BY <1>0, <2>3 DEF Assign
  <2>5. GoldMods' = GoldMods /\ GateMods' = GateMods
    BY <2>3, InputKept
  <2> QED BY <2>2, <2>3, <2>4, <2>5 DEF SidesInv
<1>5. CASE StartFallback \/ FinishFallback \/ UNCHANGED vars
           \/ \E gld \in todo : NoSuchSignature(gld)
  <2>1. /\ UNCHANGED input
        /\ UNCHANGED <<gold2gate, mapped_mods_gold, lines_read>>
        /\ unmapped_mods_gold' \subseteq unmapped_mods_gold
        /\ unmapped_mods_gate' \subseteq unmapped_mods_gate
    BY <1>5 DEF StartFallback, FinishFallback, NoSuchSignature, vars, maps
  <2>2. GoldMods' = GoldMods /\ GateMods' = GateMods
    BY <2>1, InputKept
  <2> QED BY <2>1, <2>2, PoolsShrink DEF SidesInv
<1> QED BY <1>1, <1>2, <1>3, <1>4, <1>5 DEF Next, MapStep, Done

(* The condition under which PassedCorrect and BoxesCorrect speak holds in *)
(* every run that used no line of an external match file.                  *)
THEOREM SidesKeptWithoutFile == CheckSpec => [](lines_read = 0 => SidesKept)
<1>1. CheckInit => SidesInv
  BY DEF CheckInit, Init, SidesInv
<1>2. MapInv /\ SidesInv => (lines_read = 0 => SidesKept)
  BY PairFacts DEF SidesInv, SidesKept
<1> QED BY <1>1, <1>2, NextSidesInv, CheckStepIsMapStep, CheckMapInv, PTL DEF CheckSpec
=============================================================================
