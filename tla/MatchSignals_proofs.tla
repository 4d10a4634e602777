------------------------- MODULE MatchSignals_proofs -------------------------
(***************************************************************************)
(* Proofs about signal matching for all sets of names, match types and     *)
(* scores and any number of external pairs and accepted suggestions: the   *)
(* cut points are a partial bijection, the match files and the counts      *)
(* agree with them, and a suggestion with a positive margin beats its      *)
(* rivals.                                                                 *)
(***************************************************************************)
EXTENDS MatchSignals, FiniteSetTheorems, WellFoundedInduction, TLAPS

-----------------------------------------------------------------------------
(* The parts of the inductive invariant.                                   *)

(* TypeOK without the counts, and with the ends of a cut point in the two  *)
(* modules: without this the counts of unmatched names could be negative.  *)
Given ==
  /\ emit_match_file \in BOOLEAN /\ dump_match \in BOOLEAN
  /\ gold \in Named(GoldName) /\ gate \in Named(GateName)

Progress ==
  /\ stage \in {"exact", "external", "accept", "close", "dump", "done"}
  /\ tries \in 0..MaxTries /\ items \in 0..MaxItems
  /\ todo \subseteq DOMAIN gold
  /\ error \in {"none", "dict::at()"}

CutPoints ==
  /\ cut_points \subseteq CutPoint
  /\ matched_gold \subseteq DOMAIN gold
  /\ matched_gate \subseteq DOMAIN gate

Counts == unmatched_gold \in Nat /\ unmatched_gate \in Nat

(* The dump visits a gold name once: samples and suggestions are about     *)
(* names it has left behind.                                               *)
Visited ==
  /\ stage \notin {"dump", "done"} => samples = {} /\ suggestions = {}
  /\ \A t \in samples : t.gold \notin todo
  /\ \A s \in suggestions : s.gold \notin todo

MatchInv ==
  /\ Given /\ Progress /\ CutPoints /\ Counts
  /\ OneCutPointPerName /\ FilesAgree /\ CountsAreFresh
  /\ Visited /\ SuggestionIsUnrivalled

-----------------------------------------------------------------------------
(* Facts about the operators.                                              *)

LEMMA NamedFacts ==
  ASSUME Given
  PROVE  /\ gold \in [DOMAIN gold -> MatchType] /\ DOMAIN gold \subseteq GoldName
         /\ gate \in [DOMAIN gate -> MatchType] /\ DOMAIN gate \subseteq GateName
         /\ DOMAIN gold \subseteq Name /\ DOMAIN gate \subseteq Name
BY DEF Given, Named, Name

(* Counting what a set of cut points leaves unmatched never goes below 0.  *)
LEMMA UnmatchedNat ==
  ASSUME Given, NEW cps, {cp.gold : cp \in cps} \subseteq DOMAIN gold,
         {cp.gate : cp \in cps} \subseteq DOMAIN gate, Unmatched(cps)
  PROVE  Counts'
<1> DEFINE G == {cp.gold : cp \in cps}
           K == {cp.gate : cp \in cps}
<1>1. IsFiniteSet(DOMAIN gold) /\ IsFiniteSet(DOMAIN gate)
  BY NamedFacts, FiniteAssumption, FS_Subset
<1>2. unmatched_gold' = Cardinality(DOMAIN gold) - Cardinality(G)
      /\ unmatched_gate' = Cardinality(DOMAIN gate) - Cardinality(K)
  BY DEF Unmatched
<1>3. G \in SUBSET DOMAIN gold /\ K \in SUBSET DOMAIN gate
  OBVIOUS
<1> HIDE DEF G, K
<1>4. /\ IsFiniteSet(G) /\ Cardinality(G) <= Cardinality(DOMAIN gold)
      /\ IsFiniteSet(K) /\ Cardinality(K) <= Cardinality(DOMAIN gate)
  BY <1>1, <1>3, FS_Subset
<1>5. /\ Cardinality(DOMAIN gold) \in Nat /\ Cardinality(G) \in Nat
      /\ Cardinality(DOMAIN gate) \in Nat /\ Cardinality(K) \in Nat
  BY <1>1, <1>4, FS_CardinalityType
<1> QED BY <1>2, <1>4, <1>5 DEF Counts

(* A nonempty set of natural numbers has a least member.                   *)
LEMMA LeastNatural ==
  ASSUME NEW T \in SUBSET Nat, T # {}
  PROVE  \E x \in T : \A y \in T : y >= x
<1>1. PICK x \in T : \A y \in T : ~(<<y, x>> \in OpToRel(<, Nat))
  BY NatLessThanWellFounded, WFMin
<1>2. ASSUME NEW y \in T PROVE y >= x
  <2>1. ~(<<y, x>> \in OpToRel(<, Nat))
    BY <1>1
  <2>2. x \in Nat /\ y \in Nat /\ <<y, x>> \in Nat \X Nat
    OBVIOUS
  <2>3. ~(y < x)
    BY <2>1, <2>2 DEF OpToRel
  <2> QED BY <2>2, <2>3
<1> QED BY <1>2

(* A positive margin means a strict lead over every other candidate, the   *)
(* halves dropped or not.                                                  *)
LEMMA MarginIsLead ==
  ASSUME NEW C, NEW score \in [C -> Int], NEW top \in C,
         \A k \in C : score[top] >= score[k],
         score_margin(score, top) > 0
  PROVE  \A k \in C : k # top => score[top] > score[k]
<1> DEFINE rest == DOMAIN score \ {top}
           lead(k) == (score[top] - score[k]) \div 2
           M == {lead(k) : k \in rest}
<1> SUFFICES ASSUME NEW k \in C, k # top PROVE score[top] > score[k]
  OBVIOUS
<1>1. rest = C \ {top} /\ k \in rest
  OBVIOUS
<1>2. \A j \in rest : lead(j) \in Nat
  <2>1. ASSUME NEW j \in rest PROVE lead(j) \in Nat
    <3>1. score[top] \in Int /\ score[j] \in Int /\ score[top] >= score[j]
      BY <1>1
    <3> QED BY <3>1
  <2> QED BY <2>1
<1> DEFINE margin == CHOOSE m \in M : \A j \in rest : lead(j) >= m
<1>3. score_margin(score, top) = margin
  BY <1>1 DEF score_margin
<1>4. margin \in M /\ \A j \in rest : lead(j) >= margin
  <2> HIDE DEF lead, rest
  <2>1. M \in SUBSET Nat /\ M # {}
    BY <1>1, <1>2
  <2>2. PICK m \in M : \A y \in M : y >= m
    BY <2>1, LeastNatural
  <2>3. \A j \in rest : lead(j) >= m
    BY <2>2
  <2>4. \E x \in M : \A j \in rest : lead(j) >= x
    BY <2>3
  <2> QED BY <2>4
<1>5. margin \in Nat /\ margin > 0 /\ lead(k) >= margin
  BY <1>1, <1>2, <1>3, <1>4
<1>6. score[top] \in Int /\ score[k] \in Int /\ (score[top] - score[k]) \div 2 > 0
  <2> HIDE DEF margin
  <2>1. lead(k) \in Nat /\ lead(k) > 0
    BY <1>1, <1>2, <1>5
  <2> QED BY <2>1
<1> QED BY <1>6

-----------------------------------------------------------------------------
(* What several actions share.                                             *)

LEMMA CallKept == ASSUME Given, UNCHANGED call PROVE Given'
BY DEF Given, call

(* A step that makes no cut point and writes no file.                      *)
LEMMA CutsKept ==
  ASSUME MatchInv, UNCHANGED call, UNCHANGED <<cut_points, files>>
  PROVE  Given' /\ CutPoints' /\ OneCutPointPerName' /\ FilesAgree'
<1>1. Given'
  BY CallKept DEF MatchInv
<1>2. CutPoints'
  BY DEF MatchInv, CutPoints, matched_gold, matched_gate, call
<1>3. OneCutPointPerName'
  BY DEF MatchInv, OneCutPointPerName
<1>4. FilesAgree'
  BY DEF MatchInv, FilesAgree, files, call, Line
<1> QED BY <1>1, <1>2, <1>3, <1>4

(* A step of the last stages leaves the cut points and their counts alone. *)
LEMMA CountsKept ==
  ASSUME MatchInv, UNCHANGED call, cut_points' = cut_points, UNCHANGED stats,
         stage' \in {"close", "dump", "done"} => stage \in {"close", "dump", "done"}
  PROVE  Counts' /\ CountsAreFresh'
BY DEF MatchInv, Counts, CountsAreFresh, matched_gold, matched_gate, call, stats

(* A step before the dump, or one that leaves it alone.                    *)
LEMMA DumpKept ==
  ASSUME MatchInv, UNCHANGED dumps, stage \in {"dump", "done"} => stage' \in {"dump", "done"}
  PROVE  Visited' /\ SuggestionIsUnrivalled'
<1>1. Visited'
  BY DEF MatchInv, Visited, dumps
<1>2. SuggestionIsUnrivalled'
  BY DEF MatchInv, SuggestionIsUnrivalled, dumps
<1> QED BY <1>1, <1>2

(* A cut point between two names that are free keeps the partial bijection.*)
LEMMA AddCutPoint ==
  ASSUME MatchInv, UNCHANGED call, NEW cp \in CutPoint,
         FreeGold(cp.gold), FreeGate(cp.gate), cut_points' = cut_points \union {cp}
  PROVE  Given' /\ CutPoints' /\ OneCutPointPerName'
<1>0. CutPoints /\ OneCutPointPerName
  BY DEF MatchInv
<1>1. Given'
  BY CallKept DEF MatchInv
<1>2. \A c \in cut_points : c.gold # cp.gold /\ c.gate # cp.gate
  BY DEF FreeGold, FreeGate, matched_gold, matched_gate
<1>3. OneCutPointPerName'
  BY <1>0, <1>2 DEF OneCutPointPerName
<1>4. CutPoints'
  BY <1>0 DEF CutPoints, FreeGold, FreeGate, matched_gold, matched_gate, call
<1> QED BY <1>1, <1>3, <1>4

-----------------------------------------------------------------------------
(* One lemma per action: it preserves MatchInv.                            *)

LEMMA InitMatchInv == Init => MatchInv
<1> SUFFICES ASSUME Init PROVE MatchInv
  OBVIOUS
<1>1. Given
  BY DEF Init, Given
<1>2. Progress
  BY BoundAssumption DEF Init, Progress
<1>3. CutPoints /\ Counts /\ CountsAreFresh
  BY DEF Init, CutPoints, Counts, CountsAreFresh, matched_gold, matched_gate
<1>4. OneCutPointPerName /\ FilesAgree
  BY DEF Init, OneCutPointPerName, FilesAgree
<1>5. Visited /\ SuggestionIsUnrivalled
  BY DEF Init, Visited, SuggestionIsUnrivalled
<1> QED BY <1>1, <1>2, <1>3, <1>4, <1>5 DEF MatchInv

LEMMA MatchByNameStep ==
  ASSUME MatchInv, MatchByName
  PROVE  MatchInv'
<1>0. Given /\ Progress /\ Visited
  BY DEF MatchInv
<1> DEFINE E == ExactCutPoints
           Common == DOMAIN gold \cap DOMAIN gate
<1>1. /\ cut_points' = E
      /\ match_file' = Dumped(E) /\ exact_file' = Dumped(E) /\ vali_file' = Dumped(E)
      /\ Unmatched(E)
  BY DEF MatchByName
<1>2. stage = "exact" /\ stage' = "external" /\ UNCHANGED call /\ UNCHANGED <<tries, items>>
      /\ UNCHANGED dumps
  BY DEF MatchByName
<1>3. /\ \A c \in E : /\ c.gold \in Common /\ c.gate = c.gold /\ c.type = gold[c.gold]
                      /\ c \in CutPoint
      /\ \A c, d \in E : c.gold = d.gold => c = d
  <2>1. gold \in [DOMAIN gold -> MatchType] /\ DOMAIN gold \subseteq Name
    BY <1>0, NamedFacts
  <2> DEFINE point(n) == [gold |-> n, gate |-> n, type |-> gold[n]]
  <2>2. E = {point(n) : n \in Common}
    BY DEF ExactCutPoints
  <2>3. \A n \in Common : /\ point(n).gold = n /\ point(n).gate = n /\ point(n).type = gold[n]
    OBVIOUS
  <2>4. \A n \in Common : point(n) \in CutPoint
    BY <2>1 DEF CutPoint
  <2> HIDE DEF point, E
  <2> QED BY <2>2, <2>3, <2>4
<1> HIDE DEF E
<1>4. Given'
  BY <1>0, <1>2, CallKept
<1>5. Progress'
  BY <1>0, <1>2 DEF Progress, call, dumps
<1>6. {c.gold : c \in E} \subseteq DOMAIN gold /\ {c.gate : c \in E} \subseteq DOMAIN gate
  BY <1>3
<1>7. CutPoints'
  <2>1. cut_points' = E
    BY <1>1 DEF E
  <2> QED BY <1>2, <1>3, <2>1 DEF CutPoints, matched_gold, matched_gate, call
<1>8. Counts' /\ CountsAreFresh'
  <2>1. Counts'
    BY <1>0, <1>1, <1>6, UnmatchedNat DEF E
  <2>2. CountsAreFresh'
    BY <1>2 DEF CountsAreFresh
  <2> QED BY <2>1, <2>2
<1>9. OneCutPointPerName'
  BY <1>1, <1>3 DEF OneCutPointPerName, E
<1>10. FilesAgree'
  <2>1. cut_points' = E /\ match_file' = exact_file' \union vali_file'
        /\ match_file' = Dumped(E)
    BY <1>1 DEF E
  <2>2. emit_match_file' => \A c \in E : c.type # "NONE" => Line(c) \in Dumped(E)
    BY <1>2 DEF Dumped, call
  <2> QED BY <2>1, <2>2 DEF FilesAgree, Line
<1>11. Visited' /\ SuggestionIsUnrivalled'
  BY <1>2, DumpKept
<1> QED
  BY <1>4, <1>5, <1>7, <1>8, <1>9, <1>10, <1>11 DEF MatchInv

LEMMA ExternalPairStep ==
  ASSUME MatchInv, NEW g \in GoldName, NEW k \in GateName, NEW tstr \in MatchType,
         ExternalPair(g, k, tstr)
  PROVE  MatchInv'
<1> DEFINE cp == [gold |-> g, gate |-> k,
                  type |-> IF tstr = "NONE" THEN gold[g] ELSE tstr]
<1>0. Given /\ Progress /\ FilesAgree /\ Counts
  BY DEF MatchInv
<1>1. /\ cut_points' = cut_points \union {cp}
      /\ match_file' = match_file \union DumpedAll({cp})
      /\ exact_file' = exact_file \union DumpedAll({cp})
  BY DEF ExternalPair
<1>2. /\ stage = "external" /\ stage' = stage /\ UNCHANGED call
      /\ tries' = tries + 1 /\ tries < MaxTries /\ items' = items
      /\ vali_file' = vali_file /\ UNCHANGED stats /\ UNCHANGED dumps
      /\ FreeGold(g) /\ FreeGate(k)
  BY DEF ExternalPair
<1>3. cp \in CutPoint /\ cp.gold = g /\ cp.gate = k
  <2>1. g \in DOMAIN gold /\ gold[g] \in MatchType
    BY <1>0, <1>2, NamedFacts DEF FreeGold
  <2> QED BY <2>1 DEF CutPoint, Name
<1> HIDE DEF cp
<1>4. Given' /\ CutPoints' /\ OneCutPointPerName'
  BY <1>1, <1>2, <1>3, AddCutPoint
<1>5. Progress'
  BY <1>0, <1>2, BoundAssumption DEF Progress, call, dumps
<1>6. Counts' /\ CountsAreFresh'
  BY <1>0, <1>2 DEF Counts, CountsAreFresh, stats
<1>7. FilesAgree'
  <2>1. match_file' = exact_file' \union vali_file'
    BY <1>0, <1>1, <1>2 DEF FilesAgree
  <2>2. emit_match_file => Line(cp) \in DumpedAll({cp})
    BY DEF DumpedAll
  <2> QED BY <1>0, <1>1, <1>2, <2>1, <2>2 DEF FilesAgree, call, Line
<1>8. Visited' /\ SuggestionIsUnrivalled'
  BY <1>2, DumpKept
<1> QED BY <1>4, <1>5, <1>6, <1>7, <1>8 DEF MatchInv

LEMMA EndSectionStep ==
  ASSUME MatchInv, EndExternal \/ EndAccept
  PROVE  MatchInv'
<1>0. Given /\ Progress /\ CutPoints
  BY DEF MatchInv
<1>1. /\ stage \in {"external", "accept"} /\ stage' \in {"accept", "close"}
      /\ Unmatched(cut_points) /\ UNCHANGED call /\ UNCHANGED <<cut_points, files>>
      /\ UNCHANGED <<tries, items>> /\ UNCHANGED dumps
  BY DEF EndExternal, EndAccept
<1>2. Given' /\ CutPoints' /\ OneCutPointPerName' /\ FilesAgree'
  BY <1>1, CutsKept
<1>3. Counts' /\ CountsAreFresh'
  <2>1. Counts'
    BY <1>0, <1>1, UnmatchedNat DEF CutPoints, matched_gold, matched_gate
  <2>2. CountsAreFresh'
    BY <1>1 DEF CountsAreFresh, Unmatched, matched_gold, matched_gate, call
  <2> QED BY <2>1, <2>2
<1>4. Progress'
  BY <1>0, <1>1 DEF Progress, call, dumps
<1>5. Visited' /\ SuggestionIsUnrivalled'
  BY <1>1, DumpKept
<1> QED BY <1>2, <1>3, <1>4, <1>5 DEF MatchInv

LEMMA AcceptStep ==
  ASSUME MatchInv, NEW g \in GoldName, NEW k \in GateName, Accept(g, k, 1)
  PROVE  MatchInv'
<1> DEFINE cp == [gold |-> g, gate |-> k, type |-> gold[g]]
<1>0. Given /\ Progress /\ FilesAgree /\ Counts
  BY DEF MatchInv
<1>1. /\ stage = "accept" /\ stage' = stage /\ UNCHANGED call
      /\ items' = items + 1 /\ items < MaxItems /\ tries' = tries
      /\ exact_file' = exact_file /\ UNCHANGED stats /\ UNCHANGED dumps
      /\ FreeGold(g) /\ FreeGate(k)
      /\ cut_points' = cut_points \union {cp}
      /\ match_file' = match_file \union {Line(cp)}
      /\ vali_file' = vali_file \union {Line(cp)}
  BY DEF Accept, Applicable, FreeGold, FreeGate
<1>2. cp \in CutPoint /\ cp.gold = g /\ cp.gate = k
  <2>1. g \in DOMAIN gold /\ gold[g] \in MatchType
    BY <1>0, <1>1, NamedFacts DEF FreeGold
  <2> QED BY <2>1 DEF CutPoint, Name
<1> HIDE DEF cp
<1>3. Given' /\ CutPoints' /\ OneCutPointPerName'
  BY <1>1, <1>2, AddCutPoint
<1>4. Progress'
  BY <1>0, <1>1, BoundAssumption DEF Progress, call, dumps
<1>5. Counts' /\ CountsAreFresh'
  BY <1>0, <1>1 DEF Counts, CountsAreFresh, stats
<1>6. FilesAgree'
  <2>1. match_file' = exact_file' \union vali_file'
    BY <1>0, <1>1 DEF FilesAgree
  <2> QED BY <1>0, <1>1, <2>1 DEF FilesAgree, call, Line
<1>7. Visited' /\ SuggestionIsUnrivalled'
  BY <1>1, DumpKept
<1> QED BY <1>3, <1>4, <1>5, <1>6, <1>7 DEF MatchInv

LEMMA RejectStep ==
  ASSUME MatchInv, NEW g, NEW k, NEW margin, Reject(g, k, margin)
  PROVE  MatchInv'
<1>0. Progress /\ Counts
  BY DEF MatchInv
<1>1. /\ stage = "accept" /\ stage' = stage /\ UNCHANGED call /\ UNCHANGED <<cut_points, files>>
      /\ items' = items + 1 /\ items < MaxItems /\ tries' = tries
      /\ UNCHANGED stats /\ UNCHANGED dumps
  BY DEF Reject
<1>2. Given' /\ CutPoints' /\ OneCutPointPerName' /\ FilesAgree'
  BY <1>1, CutsKept
<1>3. Progress' /\ Counts' /\ CountsAreFresh'
  <2>1. Progress'
    BY <1>0, <1>1, BoundAssumption DEF Progress, call, dumps
  <2>2. Counts' /\ CountsAreFresh'
    BY <1>1, CountsKept
  <2> QED BY <2>1, <2>2
<1>4. Visited' /\ SuggestionIsUnrivalled'
  BY <1>1, DumpKept
<1> QED BY <1>2, <1>3, <1>4 DEF MatchInv

LEMMA CloseFilesStep ==
  ASSUME MatchInv, CloseFiles
  PROVE  MatchInv'
<1>0. Progress /\ Counts /\ Visited
  BY DEF MatchInv
<1>1. /\ stage = "close" /\ stage' \in {"dump", "done"} /\ UNCHANGED call
      /\ UNCHANGED <<cut_points, files>> /\ UNCHANGED <<tries, items, error>>
      /\ UNCHANGED stats /\ UNCHANGED <<samples, suggestions>>
      /\ todo' \subseteq DOMAIN gold
  BY DEF CloseFiles
<1>2. Given' /\ CutPoints' /\ OneCutPointPerName' /\ FilesAgree'
  BY <1>1, CutsKept
<1>3. Progress' /\ Counts' /\ CountsAreFresh'
  <2>1. Progress'
    BY <1>0, <1>1 DEF Progress, call
  <2>2. Counts' /\ CountsAreFresh'
    BY <1>1, CountsKept
  <2> QED BY <2>1, <2>2
<1>4. samples' = {} /\ suggestions' = {}
  BY <1>0, <1>1 DEF Visited
<1>5. Visited' /\ SuggestionIsUnrivalled'
  BY <1>4 DEF Visited, SuggestionIsUnrivalled
<1> QED BY <1>2, <1>3, <1>5 DEF MatchInv

LEMMA DumpMatchedStep ==
  ASSUME MatchInv, NEW g \in todo, DumpMatched(g)
  PROVE  MatchInv'
<1>0. Progress /\ Counts /\ Visited /\ SuggestionIsUnrivalled
  BY DEF MatchInv
<1> DEFINE sample == [gold |-> g, gate |-> g, score |-> 2000, label |-> 1]
<1>1. /\ stage = "dump" /\ stage' \in {"dump", "done"} /\ UNCHANGED call
      /\ UNCHANGED <<cut_points, files>> /\ UNCHANGED <<tries, items>>
      /\ error' \in {"none", "dict::at()"}
      /\ UNCHANGED stats /\ suggestions' = suggestions /\ todo' = todo \ {g}
      /\ samples' = samples \/ samples' = samples \union {sample}
  BY <1>0 DEF DumpMatched, Progress
<1>2. Given' /\ CutPoints' /\ OneCutPointPerName' /\ FilesAgree'
  BY <1>1, CutsKept
<1>3. Progress' /\ Counts' /\ CountsAreFresh'
  <2>1. Progress'
    BY <1>0, <1>1 DEF Progress, call
  <2>2. Counts' /\ CountsAreFresh'
    BY <1>1, CountsKept
  <2> QED BY <2>1, <2>2
<1>4. sample.gold = g
  OBVIOUS
<1> HIDE DEF sample
<1>5. Visited'
  BY <1>0, <1>1, <1>4 DEF Visited
<1>6. SuggestionIsUnrivalled'
  <2>1. \A s \in suggestions : s.gold # sample.gold
    BY <1>0, <1>4 DEF Visited
  <2> QED BY <1>0, <1>1, <2>1 DEF SuggestionIsUnrivalled
<1> QED BY <1>2, <1>3, <1>5, <1>6 DEF MatchInv

LEMMA EndDumpStep ==
  ASSUME MatchInv, EndDump
  PROVE  MatchInv'
<1>0. Progress /\ Counts
  BY DEF MatchInv
<1>1. /\ stage = "dump" /\ stage' = "done" /\ UNCHANGED call /\ UNCHANGED <<cut_points, files>>
      /\ UNCHANGED <<tries, items>> /\ UNCHANGED stats /\ UNCHANGED dumps
  BY DEF EndDump
<1>2. Given' /\ CutPoints' /\ OneCutPointPerName' /\ FilesAgree'
  BY <1>1, CutsKept
<1>3. Progress' /\ Counts' /\ CountsAreFresh'
  <2>1. Progress'
    BY <1>0, <1>1 DEF Progress, call, dumps
  <2>2. Counts' /\ CountsAreFresh'
    BY <1>1, CountsKept
  <2> QED BY <2>1, <2>2
<1>4. Visited' /\ SuggestionIsUnrivalled'
  BY <1>1, DumpKept
<1> QED BY <1>2, <1>3, <1>4 DEF MatchInv

LEMMA StutterStep ==
  ASSUME MatchInv, UNCHANGED vars
  PROVE  MatchInv'
<1>0. Progress /\ Counts
  BY DEF MatchInv
<1>1. /\ stage' = stage /\ UNCHANGED call /\ UNCHANGED <<cut_points, files>>
      /\ UNCHANGED <<tries, items>> /\ UNCHANGED stats /\ UNCHANGED dumps
  BY DEF vars
<1>2. Given' /\ CutPoints' /\ OneCutPointPerName' /\ FilesAgree'
  BY <1>1, CutsKept
<1>3. Progress' /\ Counts' /\ CountsAreFresh'
  <2>1. Progress'
    BY <1>0, <1>1 DEF Progress, call, dumps
  <2>2. Counts' /\ CountsAreFresh'
    BY <1>1, CountsKept
  <2> QED BY <2>1, <2>2
<1>4. Visited' /\ SuggestionIsUnrivalled'
  BY <1>1, DumpKept
<1> QED BY <1>2, <1>3, <1>4 DEF MatchInv

(* The candidates of one gold name all become samples in one step, so that *)
(* the lead of the first one is a lead over everything the dump holds.     *)
LEMMA DumpUnmatchedStep ==
  ASSUME MatchInv, NEW g \in todo, DumpUnmatched(g)
  PROVE  MatchInv'
<1>0. Progress /\ Counts /\ Visited /\ SuggestionIsUnrivalled
  BY DEF MatchInv
<1> DEFINE C == Candidates(g)
<1>1. /\ stage = "dump" /\ stage' = "dump" /\ UNCHANGED call
      /\ UNCHANGED <<cut_points, files>> /\ UNCHANGED <<tries, items, error>>
      /\ UNCHANGED stats /\ todo' = todo \ {g}
  BY DEF DumpUnmatched
<1>2. PICK score \in [C -> Score] :
        /\ samples' = samples \union
             {[gold |-> g, gate |-> k, score |-> score[k], label |-> 0] : k \in C}
        /\ IF \E k \in C : score[k] > 0
           THEN \E top \in C :
                  /\ \A k \in C : score[top] >= score[k]
                  /\ suggestions' = suggestions \union
                       {[gold |-> g, gate |-> top, margin |-> score_margin(score, top)]}
           ELSE UNCHANGED suggestions
  BY DEF DumpUnmatched
<1> DEFINE sample(k) == [gold |-> g, gate |-> k, score |-> score[k], label |-> 0]
           suggestion(top) == [gold |-> g, gate |-> top, margin |-> score_margin(score, top)]
           new == {sample(k) : k \in C}
<1>3. Given' /\ CutPoints' /\ OneCutPointPerName' /\ FilesAgree'
  BY <1>1, CutsKept
<1>4. Progress' /\ Counts' /\ CountsAreFresh'
  <2>1. Progress'
    BY <1>0, <1>1 DEF Progress, call
  <2>2. Counts' /\ CountsAreFresh'
    BY <1>1, CountsKept
  <2> QED BY <2>1, <2>2
<1>5. /\ \A k : sample(k).gold = g /\ sample(k).gate = k /\ sample(k).score = score[k]
                /\ sample(k).label = 0
      /\ \A k : suggestion(k).gold = g /\ suggestion(k).gate = k
                /\ suggestion(k).margin = score_margin(score, k)
  OBVIOUS
<1>6. samples' = samples \union new
  BY <1>2
<1>7. \/ suggestions' = suggestions
      \/ \E top \in C : /\ \A k \in C : score[top] >= score[k]
                        /\ suggestions' = suggestions \union {suggestion(top)}
  BY <1>2
<1> HIDE DEF sample, suggestion, C
<1>8. Visited'
  BY <1>0, <1>1, <1>5, <1>6, <1>7 DEF Visited
<1>9. \A t \in new : t.gold = g /\ t.gate \in C /\ t.score = score[t.gate]
  BY <1>5
<1>10. \A t \in samples : t.gold # g
  BY <1>0 DEF Visited
<1>11. ASSUME NEW s \in suggestions, s.margin > 0
       PROVE  \E best \in samples' :
                /\ best.gold = s.gold /\ best.gate = s.gate /\ best.label = 0
                /\ \A t \in samples' : t.gold = s.gold /\ t.gate # s.gate => best.score > t.score
  <2>1. PICK best \in samples :
          /\ best.gold = s.gold /\ best.gate = s.gate /\ best.label = 0
          /\ \A t \in samples : t.gold = s.gold /\ t.gate # s.gate => best.score > t.score
    BY <1>0, <1>11 DEF SuggestionIsUnrivalled
  <2>2. s.gold # g
    BY <1>0 DEF Visited
  <2>3. \A t \in samples' : t.gold = s.gold => t \in samples
    BY <1>6, <1>9, <2>2
  <2> QED BY <1>6, <2>1, <2>3
<1>12. ASSUME NEW top \in C, \A k \in C : score[top] >= score[k], suggestion(top).margin > 0
       PROVE  \E best \in samples' :
                /\ best.gold = suggestion(top).gold /\ best.gate = suggestion(top).gate
                /\ best.label = 0
                /\ \A t \in samples' : t.gold = suggestion(top).gold
                                         /\ t.gate # suggestion(top).gate => best.score > t.score
  <2>1. score \in [C -> Int]
    BY ScoreAssumption
  <2>2. score_margin(score, top) > 0
    BY <1>5, <1>12
  <2>3. \A k \in C : k # top => score[top] > score[k]
    BY <1>12, <2>1, <2>2, MarginIsLead
  <2>4. \A t \in samples' : t.gold = g => t \in new
    BY <1>6, <1>10
  <2>5. \A t \in samples' : t.gold = g /\ t.gate # top => score[top] > t.score
    BY <1>9, <2>3, <2>4
  <2>6. sample(top) \in samples'
    BY <1>6
  <2> QED BY <1>5, <2>5, <2>6
<1>13. SuggestionIsUnrivalled'
  <2>1. CASE suggestions' = suggestions
    BY <1>11, <2>1 DEF SuggestionIsUnrivalled
  <2>2. CASE \E top \in C : /\ \A k \in C : score[top] >= score[k]
                            /\ suggestions' = suggestions \union {suggestion(top)}
    BY <1>11, <1>12, <2>2 DEF SuggestionIsUnrivalled
  <2> QED BY <1>7, <2>1, <2>2
<1> QED BY <1>3, <1>4, <1>8, <1>13 DEF MatchInv

LEMMA NextMatchInv == MatchInv /\ [Next]_vars => MatchInv'
<1> SUFFICES ASSUME MatchInv, [Next]_vars PROVE MatchInv'
  OBVIOUS
<1>1. CASE MatchByName
  BY <1>1, MatchByNameStep
<1>2. CASE \E g \in GoldName, k \in GateName, tstr \in MatchType : ExternalPair(g, k, tstr)
  BY <1>2, ExternalPairStep
<1>3. CASE EndExternal \/ EndAccept
  BY <1>3, EndSectionStep
<1>4. CASE \E g \in GoldName, k \in GateName : Accept(g, k, 1)
  BY <1>4, AcceptStep
<1>5. CASE \E g \in GoldName, k \in GateName, margin \in {0, 1} : Reject(g, k, margin)
  BY <1>5, RejectStep
<1>6. CASE CloseFiles
  BY <1>6, CloseFilesStep
<1>7. CASE \E g \in todo : DumpMatched(g)
  BY <1>7, DumpMatchedStep
<1>8. CASE \E g \in todo : DumpUnmatched(g)
  BY <1>8, DumpUnmatchedStep
<1>9. CASE EndDump
  BY <1>9, EndDumpStep
<1>10. CASE UNCHANGED vars
  BY <1>10, StutterStep
<1> QED
  BY <1>1, <1>2, <1>3, <1>4, <1>5, <1>6, <1>7, <1>8, <1>9, <1>10 DEF Next, Done

-----------------------------------------------------------------------------
(* MatchInv holds in every reachable state of match_signals_module.        *)
THEOREM MatchInvariant == Spec => []MatchInv
BY InitMatchInv, NextMatchInv, PTL DEF Spec

(* Cut points, counters and pools keep their types; in particular no count *)
(* of unmatched names becomes negative.                                    *)
THEOREM MatchTypeCorrect == Spec => []TypeOK
<1>1. MatchInv => TypeOK
  BY DEF MatchInv, Given, Progress, CutPoints, Counts, TypeOK
<1> QED BY <1>1, MatchInvariant, PTL

(* Whatever names, the external file and the suggestions offer, the cut    *)
(* points are a partial bijection.                                         *)
THEOREM OneCutPointCorrect == Spec => []OneCutPointPerName
<1>1. MatchInv => OneCutPointPerName
  BY DEF MatchInv
<1> QED BY <1>1, MatchInvariant, PTL

(* The match file is the union of the exact and the validated file and has *)
(* a line for every usable cut point.                                      *)
THEOREM FilesCorrect == Spec => []FilesAgree
<1>1. MatchInv => FilesAgree
  BY DEF MatchInv
<1> QED BY <1>1, MatchInvariant, PTL

(* The counts of unmatched names that are read after the call are those of *)
(* the final cut points.                                                   *)
THEOREM CountsCorrect == Spec => []CountsAreFresh
<1>1. MatchInv => CountsAreFresh
  BY DEF MatchInv
<1> QED BY <1>1, MatchInvariant, PTL

(* A suggestion with a positive margin beats every rival strictly, for all *)
(* scores and although half points are dropped.                            *)
THEOREM SuggestionsCorrect == Spec => []SuggestionIsUnrivalled
<1>1. MatchInv => SuggestionIsUnrivalled
  BY DEF MatchInv
<1> QED BY <1>1, MatchInvariant, PTL
=============================================================================
