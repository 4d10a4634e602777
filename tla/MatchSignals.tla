---------------------------- MODULE MatchSignals ----------------------------
(***************************************************************************)
(* match_signals_module (passes/guide/check/match.cc): which signal bits   *)
(* of a gold and a gate module correspond.  Equal names are matched first, *)
(* then the pairs of the external match file, then accepted suggestions,   *)
(* whose registers a local proof must confirm; the result is written to    *)
(* the match files ABC reads and, with -guide-dump-match, to the samples   *)
(* and suggestions the matching model works with.                          *)
(*                                                                         *)
(* Whether the two bits of a cut point really correspond is no question of *)
(* this module: a local proof may confirm or reject any pair of registers, *)
(* and LocalCut says what its answer is worth.                             *)
(***************************************************************************)
EXTENDS Integers, FiniteSets

CONSTANTS
  GoldName, GateName,   \* names of signal bits, some of them in both sets
  bit_index,            \* the bit index a name ends in
  MatchType,            \* the match types signals have
  Score,                \* candidate scores, in halves
  MaxTries,             \* bound on the external pairs that match
  MaxItems              \* bound on the items of the accepted suggestions file

Name == GoldName \union GateName

ASSUME NameAssumption == bit_index \in [Name -> Nat]
ASSUME FiniteAssumption == IsFiniteSet(GoldName) /\ IsFiniteSet(GateName)
ASSUME TypeAssumption == "NONE" \in MatchType
ASSUME ScoreAssumption == Score \subseteq Int
ASSUME BoundAssumption == MaxTries \in Nat /\ MaxItems \in Nat

VARIABLES
  emit_match_file, dump_match,         \* the call's arguments
  gold, gate,                          \* build_named_sigs: name -> match type
  stage,                               \* the next part of the function
  cut_points,
  match_file, exact_file, vali_file,   \* lines of the match files
  unmatched_gold, unmatched_gate,      \* stats
  tries, items,                        \* external pairs matched, items read
  todo,                                \* gold names the dump has yet to visit
  samples, suggestions,                \* match_jsonl and match_suggestions
  error                                \* the exception that ended the call

call  == <<emit_match_file, dump_match, gold, gate>>
files == <<match_file, exact_file, vali_file>>
stats == <<unmatched_gold, unmatched_gate>>
dumps == <<todo, samples, suggestions, error>>
vars  == <<call, stage, cut_points, files, stats, tries, items, dumps>>

CutPoint == [gold : Name, gate : Name, type : MatchType]
Line(cp) == [gold |-> cp.gold, gate |-> cp.gate, type |-> cp.type]

Named(names) == UNION {[N -> MatchType] : N \in SUBSET names}

matched_gold == {cp.gold : cp \in cut_points}
matched_gate == {cp.gate : cp \in cut_points}

Init ==
  /\ emit_match_file \in BOOLEAN /\ dump_match \in BOOLEAN
  /\ gold \in Named(GoldName) /\ gate \in Named(GateName)
  /\ stage = "exact"
  /\ cut_points = {}
  /\ match_file = {} /\ exact_file = {} /\ vali_file = {}
  /\ unmatched_gold = 0 /\ unmatched_gate = 0
  /\ tries = 0 /\ items = 0
  /\ todo = {} /\ samples = {} /\ suggestions = {} /\ error = "none"

-----------------------------------------------------------------------------
(* Names of both sides are matched with the gold side's type; lines of     *)
(* type NONE are not written.                                              *)
Dumped(cps) == IF emit_match_file THEN {Line(cp) : cp \in {c \in cps : c.type # "NONE"}} ELSE {}
DumpedAll(cps) == IF emit_match_file THEN {Line(cp) : cp \in cps} ELSE {}

UnmatchedAccumulates(cps) ==      \* mutant: subtracts from the last count
  /\ unmatched_gold' = unmatched_gold - Cardinality({cp.gold : cp \in cps})
  /\ unmatched_gate' = unmatched_gate - Cardinality({cp.gate : cp \in cps})

Unmatched(cps) ==
  /\ unmatched_gold' = Cardinality(DOMAIN gold) - Cardinality({cp.gold : cp \in cps})
  /\ unmatched_gate' = Cardinality(DOMAIN gate) - Cardinality({cp.gate : cp \in cps})

ExactCutPoints ==
  {[gold |-> n, gate |-> n, type |-> gold[n]] :
     n \in DOMAIN gold \cap DOMAIN gate}

MatchByName ==
  /\ stage = "exact"
  /\ cut_points' = ExactCutPoints
  /\ match_file' = Dumped(ExactCutPoints)
  /\ exact_file' = Dumped(ExactCutPoints)
  /\ vali_file' = Dumped(ExactCutPoints)
  /\ Unmatched(ExactCutPoints)
  /\ stage' = "external"
  /\ UNCHANGED <<call, tries, items, dumps>>

(* One pair of the external file for which try_pair succeeds: a line of    *)
(* this section, or one bit of its expansion.  A type on the line replaces *)
(* the gold side's; a line whose pair fails changes nothing.               *)
FreeGold(g) == g \in DOMAIN gold \ matched_gold
FreeGate(k) == k \in DOMAIN gate \ matched_gate

ExternalPair(g, k, tstr) ==
  /\ stage = "external"
  /\ tries < MaxTries
  /\ FreeGold(g) /\ FreeGate(k)
  /\ LET cp == [gold |-> g, gate |-> k, type |-> IF tstr = "NONE" THEN gold[g] ELSE tstr]
     IN  /\ cut_points' = cut_points \union {cp}
         /\ match_file' = match_file \union DumpedAll({cp})
         /\ exact_file' = exact_file \union DumpedAll({cp})
  /\ tries' = tries + 1
  /\ UNCHANGED <<call, stage, vali_file, stats, items, dumps>>

EndExternal ==
  /\ stage = "external"
  /\ Unmatched(cut_points)
  /\ stage' = IF emit_match_file THEN "accept" ELSE "close"
  /\ UNCHANGED <<call, cut_points, files, tries, items, dumps>>

-----------------------------------------------------------------------------
(* One item of the accepted suggestions file for this pair of modules and  *)
(* the pre_async snapshot: both names are known and free, of one type, and *)
(* a register pair was confirmed by validate_partition_pair.               *)
ApplicableStale(g, k, margin) ==      \* mutant: the gate side's match is not looked up
  /\ margin > 0
  /\ g \in DOMAIN gold /\ k \in DOMAIN gate
  /\ g \notin matched_gold
  /\ gold[g] = gate[k]
  /\ gold[g] # "NONE"

Applicable(g, k, margin) ==
  /\ margin > 0
  /\ g \in DOMAIN gold /\ k \in DOMAIN gate
  /\ g \notin matched_gold /\ k \notin matched_gate
  /\ gold[g] = gate[k]
  /\ gold[g] # "NONE"

IsDff(type) == type \in {"DFF", "DFF_PO"}

AcceptValidatedOnly(g, k, margin) ==      \* mutant: one file is forgotten
  LET cp == [gold |-> g, gate |-> k, type |-> gold[g]]
  IN  /\ stage = "accept"
      /\ items < MaxItems
      /\ Applicable(g, k, margin)
      /\ cut_points' = cut_points \union {cp}
      /\ vali_file' = vali_file \union {Line(cp)}
      /\ items' = items + 1
      /\ UNCHANGED <<call, stage, match_file, exact_file, stats, tries, dumps>>

Accept(g, k, margin) ==
  LET cp == [gold |-> g, gate |-> k, type |-> gold[g]]
  IN  /\ stage = "accept"
      /\ items < MaxItems
      /\ Applicable(g, k, margin)
      /\ cut_points' = cut_points \union {cp}
      /\ match_file' = match_file \union {Line(cp)}
      /\ vali_file' = vali_file \union {Line(cp)}
      /\ items' = items + 1
      /\ UNCHANGED <<call, stage, exact_file, stats, tries, dumps>>

(* An item that is not applicable, or whose registers the local proof does *)
(* not confirm, leaves no trace in the matching.                           *)
Reject(g, k, margin) ==
  /\ stage = "accept"
  /\ items < MaxItems
  /\ Applicable(g, k, margin) => IsDff(gold[g])
  /\ items' = items + 1
  /\ UNCHANGED <<call, stage, cut_points, files, stats, tries, dumps>>

EndAcceptKeepsCounts ==      \* mutant: the counts are those of the external stage
  /\ stage = "accept"
  /\ stage' = "close"
  /\ UNCHANGED <<call, cut_points, files, stats, tries, items, dumps>>

EndAccept ==
  /\ stage = "accept"
  /\ Unmatched(cut_points)
  /\ stage' = "close"
  /\ UNCHANGED <<call, cut_points, files, tries, items, dumps>>

-----------------------------------------------------------------------------
CloseFiles ==
  /\ stage = "close"
  /\ stage' = IF dump_match THEN "dump" ELSE "done"
  /\ todo' = {g \in DOMAIN gold : gold[g] # "NONE"}
  /\ UNCHANGED <<call, cut_points, files, stats, tries, items, samples, suggestions, error>>

(* A matched gold name becomes a positive sample; its gate entry is looked *)
(* up under the gold name, and dict::at throws if there is none.           *)
DumpMatched(g) ==
  /\ stage = "dump"
  /\ g \in todo
  /\ g \in matched_gold
  /\ todo' = todo \ {g}
  /\ IF g \in DOMAIN gate
     THEN /\ samples' = samples \union {[gold |-> g, gate |-> g, score |-> 2000, label |-> 1]}
          /\ UNCHANGED <<stage, error>>
     ELSE /\ stage' = "done"
          /\ error' = "dict::at()"
          /\ UNCHANGED samples
  /\ UNCHANGED <<call, cut_points, files, stats, tries, items, suggestions>>

Candidates(g) ==
  {k \in DOMAIN gate : /\ k \notin matched_gate
                       /\ gate[k] = gold[g]
                       /\ bit_index[k] = bit_index[g]}

marginOfTop(score, top) == score[top] \div 2      \* mutant: the runner-up is not subtracted

(* The lead over the runner-up, or the score if there is none; assigned to *)
(* an int, so the half is dropped.                                         *)
score_margin(score, top) ==
  LET rest == DOMAIN score \ {top}
  IN  IF rest = {} THEN score[top] \div 2
      ELSE CHOOSE m \in {(score[top] - score[k]) \div 2 : k \in rest} :
             \A k \in rest : (score[top] - score[k]) \div 2 >= m

(* An unmatched gold name: every candidate becomes a negative sample, and  *)
(* the first in the order of the scores a suggestion if its score is       *)
(* positive.  Equal scores are ordered by name.                            *)
DumpUnmatched(g) ==
  /\ stage = "dump"
  /\ g \in todo
  /\ g \notin matched_gold
  /\ todo' = todo \ {g}
  /\ \E score \in [Candidates(g) -> Score] :
       /\ samples' = samples \union
            {[gold |-> g, gate |-> k, score |-> score[k], label |-> 0] : k \in Candidates(g)}
       /\ IF \E k \in Candidates(g) : score[k] > 0
          THEN \E top \in Candidates(g) :
                 /\ \A k \in Candidates(g) : score[top] >= score[k]
                 /\ suggestions' = suggestions \union
                      {[gold |-> g, gate |-> top, margin |-> score_margin(score, top)]}
          ELSE UNCHANGED suggestions
  /\ UNCHANGED <<call, stage, cut_points, files, stats, tries, items, error>>

EndDump ==
  /\ stage = "dump"
  /\ todo = {}
  /\ stage' = "done"
  /\ UNCHANGED <<call, cut_points, files, stats, tries, items, dumps>>

Done == stage = "done" /\ UNCHANGED vars

Next ==
  \/ MatchByName
  \/ \E g \in GoldName, k \in GateName, tstr \in MatchType : ExternalPair(g, k, tstr)
  \/ EndExternal
  \/ \E g \in GoldName, k \in GateName : Accept(g, k, 1)
  \/ \E g \in GoldName, k \in GateName, margin \in {0, 1} : Reject(g, k, margin)
  \/ EndAccept
  \/ CloseFiles
  \/ \E g \in todo : DumpMatched(g)
  \/ \E g \in todo : DumpUnmatched(g)
  \/ EndDump
  \/ Done

Spec == Init /\ [][Next]_vars

-----------------------------------------------------------------------------
TypeOK ==
  /\ emit_match_file \in BOOLEAN /\ dump_match \in BOOLEAN
  /\ gold \in Named(GoldName) /\ gate \in Named(GateName)
  /\ stage \in {"exact", "external", "accept", "close", "dump", "done"}
  /\ cut_points \subseteq CutPoint
  /\ unmatched_gold \in Nat /\ unmatched_gate \in Nat
  /\ tries \in 0..MaxTries /\ items \in 0..MaxItems
  /\ todo \subseteq DOMAIN gold
  /\ error \in {"none", "dict::at()"}

(* cec -M reads one partner per signal: whatever the three sources offer,  *)
(* no gold or gate name is in two cut points.                              *)
OneCutPointPerName ==
  \A c, d \in cut_points : c.gold = d.gold \/ c.gate = d.gate => c = d

(* The match file ABC reads is what exact and validated file hold together,*)
(* and has a line for every cut point it could use.                        *)
FilesAgree ==
  /\ match_file = exact_file \union vali_file
  /\ emit_match_file => \A c \in cut_points : c.type # "NONE" => Line(c) \in match_file

(* The counts are taken three times, after each source of cut points; the  *)
(* ones that telemetry and failure packets read after the call have missed *)
(* none of them.                                                           *)
CountsAreFresh ==
  stage \in {"close", "dump", "done"} =>
    /\ unmatched_gold = Cardinality(DOMAIN gold) - Cardinality(matched_gold)
    /\ unmatched_gate = Cardinality(DOMAIN gate) - Cardinality(matched_gate)

(* A suggestion that passes the margin test of a later run beats every     *)
(* other candidate of its gold signal strictly.                            *)
SuggestionIsUnrivalled ==
  \A s \in suggestions : s.margin > 0 =>
    \E best \in samples :
      /\ best.gold = s.gold /\ best.gate = s.gate /\ best.label = 0
      /\ \A t \in samples : t.gold = s.gold /\ t.gate # s.gate => best.score > t.score
=============================================================================
