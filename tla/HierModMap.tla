----------------------------- MODULE HierModMap -----------------------------
(***************************************************************************)
(* hier_mod_map (passes/guide/check/core.cc): which gold module is         *)
(* compared with which gate module.  Modules are paired by name, then by   *)
(* the lines of an external match file, then greedily by port signature.   *)
(*                                                                         *)
(* A module name is a side and a base: the side's prefix followed by the   *)
(* base name.  The base Root stands for a top module whose name does not   *)
(* begin with the prefix ("gold" with prefix "gold."); with four arguments *)
(* the tops may also be ordinary prefixed modules.                         *)
(***************************************************************************)
EXTENDS Naturals

CONSTANTS
  Base,          \* base names of modules
  Root,          \* the base of an unprefixed top module
  Sig,           \* port signatures (make_sig)
  MaxLines       \* bound on the usable lines of the external match file

ASSUME RootAssumption == Root \notin Base
ASSUME MaxLinesAssumption == MaxLines \in Nat

Name == [side : {"gold", "gate"}, base : Base \union {Root}]

VARIABLES
  gold_mod, gate_mod,      \* the names of the two top modules
  dotted,                  \* the prefixes contain a '.'
  design,                  \* the names of the modules in the design
  sig,                     \* the port signature of each of them
  stage,                   \* the part of hier_mod_map that runs next
  gold2gate,               \* mod_map_gold, a dict
  gate2gold,               \* mod_map_gate, a dict keyed by the gold name
  mapped_mods_gold, mapped_mods_gate,
  unmapped_mods_gold, unmapped_mods_gate,
  lines_read,              \* usable lines of the external file so far
  todo,                    \* unmapped gold modules the fallback has yet to visit
  gate_sigs,               \* unmapped gate modules still available to it
  matched                  \* <<gold, gate>> pairs the fallback made

input == <<gold_mod, gate_mod, dotted, design, sig>>
maps  == <<gold2gate, gate2gold, mapped_mods_gold, mapped_mods_gate,
           unmapped_mods_gold, unmapped_mods_gate>>
fallback == <<todo, gate_sigs, matched>>
vars  == <<input, stage, maps, lines_read, fallback>>

-----------------------------------------------------------------------------
(* A name of the given side: its top, or one that begins with its prefix.  *)
OnSide(n, side, top) == n = top \/ (n.side = side /\ n.base # Root)

GoldMods == {m \in design : OnSide(m, "gold", gold_mod)}
GateMods == {m \in design : OnSide(m, "gate", gate_mod)}

(* get_orignal_mod_name and the other side's prefix; tops face each other. *)
GateName(m) == IF m = gold_mod THEN gate_mod ELSE [side |-> "gate", base |-> m.base]
GoldName(m) == IF m = gate_mod THEN gold_mod ELSE [side |-> "gold", base |-> m.base]

NamedGoldUntested == GoldMods    \* mutant: the counterpart is not looked up

NamedGold == {m \in GoldMods : GateName(m) \in design}
NamedGate == {m \in GateMods : GoldName(m) \in design}

Assign(dict, key, value) ==
  [k \in DOMAIN dict \union {key} |-> IF k = key THEN value ELSE dict[k]]

Empty == [k \in {} |-> {}]

Init ==
  /\ \E goldb, gateb \in Base \union {Root} :
       /\ goldb = Root <=> gateb = Root
       /\ gold_mod = [side |-> "gold", base |-> goldb]
       /\ gate_mod = [side |-> "gate", base |-> gateb]
  /\ design \in {d \in SUBSET Name : /\ gold_mod \in d /\ gate_mod \in d
                                     /\ \A n \in d : n.base = Root => n \in {gold_mod, gate_mod}}
  /\ dotted \in BOOLEAN
  /\ sig \in [design -> Sig]
  /\ stage = "gold"
  /\ gold2gate = Empty
  /\ gate2gold = Empty
  /\ mapped_mods_gold = {} /\ mapped_mods_gate = {}
  /\ unmapped_mods_gold = {} /\ unmapped_mods_gate = {}
  /\ lines_read = 0
  /\ todo = {} /\ gate_sigs = {} /\ matched = {}

-----------------------------------------------------------------------------
(* The loop over the gold side: a module whose counterpart exists is       *)
(* mapped, any other is unmapped.                                          *)
MapGoldByName ==
  /\ stage = "gold"
  /\ gold2gate' = [m \in NamedGold |-> GateName(m)]
  /\ mapped_mods_gold' = NamedGold
  /\ mapped_mods_gate' = {GateName(m) : m \in NamedGold}
  /\ unmapped_mods_gold' = GoldMods \ NamedGold
  /\ stage' = "gate"
  /\ UNCHANGED <<input, gate2gold, unmapped_mods_gate, lines_read, fallback>>

(* The loop over the gate side.  Two gate modules may have the same gold   *)
(* counterpart (a top and a module named like the other top); the last one *)
(* visited stays in the dict.                                              *)
MapGateByName ==
  /\ stage = "gate"
  /\ \E f \in [{GoldName(m) : m \in NamedGate} -> NamedGate] :
       /\ \A k \in DOMAIN f : GoldName(f[k]) = k
       /\ gate2gold' = f
  /\ mapped_mods_gold' = mapped_mods_gold \union {GoldName(m) : m \in NamedGate}
  /\ mapped_mods_gate' = mapped_mods_gate \union NamedGate
  /\ unmapped_mods_gate' = GateMods \ NamedGate
  /\ stage' = "external"
  /\ UNCHANGED <<input, gold2gate, unmapped_mods_gold, lines_read, fallback>>

(* One line of the external match file that names two modules of the       *)
(* design, neither of them mapped; any other line is passed over.  A line  *)
(* with a '.' is taken for a signal line.                                  *)
HasDot(n) == dotted /\ n.base # Root

UnmappedGoldOnly(gld, gte) == gld \notin mapped_mods_gold    \* mutant: one side tested
UnmappedGateOnly(gld, gte) == gte \notin mapped_mods_gate    \* mutant: one side tested

BothUnmapped(gld, gte) == gld \notin mapped_mods_gold /\ gte \notin mapped_mods_gate

ExternalLine(gld, gte) ==
  /\ stage = "external"
  /\ lines_read < MaxLines
  /\ ~HasDot(gld) /\ ~HasDot(gte)
  /\ gld \in design /\ gte \in design
  /\ BothUnmapped(gld, gte)
  /\ gold2gate' = Assign(gold2gate, gld, gte)
  /\ mapped_mods_gold' = mapped_mods_gold \union {gld}
  /\ mapped_mods_gate' = mapped_mods_gate \union {gte}
  /\ unmapped_mods_gold' = unmapped_mods_gold \ {gld}
  /\ unmapped_mods_gate' = unmapped_mods_gate \ {gte}
  /\ lines_read' = lines_read + 1
  /\ UNCHANGED <<input, stage, gate2gold, fallback>>

(* The end of the file: the fallback collects the gate modules by their    *)
(* signature, if both sides have unmapped modules.                         *)
StartFallback ==
  /\ stage = "external"
  /\ IF unmapped_mods_gold # {} /\ unmapped_mods_gate # {}
     THEN /\ todo' = unmapped_mods_gold
          /\ gate_sigs' = unmapped_mods_gate
          /\ stage' = "structural"
     ELSE /\ stage' = "done"
          /\ UNCHANGED <<todo, gate_sigs>>
  /\ UNCHANGED <<input, maps, lines_read, matched>>

(* One unmapped gold module: the first available gate module of the same   *)
(* signature is taken.  Both orders are those of a hash pool.              *)
MatchBySignature(gld, gname) ==
  /\ stage = "structural"
  /\ gld \in todo
  /\ gname \in gate_sigs
  /\ sig[gld] = sig[gname]
  /\ gold2gate' = Assign(gold2gate, gld, gname)
  /\ mapped_mods_gold' = mapped_mods_gold \union {gld}
  /\ mapped_mods_gate' = mapped_mods_gate \union {gname}
  /\ matched' = matched \union {<<gld, gname>>}
  /\ gate_sigs' = gate_sigs \ {gname}
  /\ todo' = todo \ {gld}
  /\ UNCHANGED <<input, stage, gate2gold, unmapped_mods_gold, unmapped_mods_gate, lines_read>>

NoSuchSignatureAtOnce(gld) ==      \* mutant: gives up at a different signature
  /\ stage = "structural"
  /\ gld \in todo
  /\ gate_sigs # {} => \E g \in gate_sigs : sig[g] # sig[gld]
  /\ todo' = todo \ {gld}
  /\ UNCHANGED <<input, stage, maps, lines_read, gate_sigs, matched>>

NoSuchSignature(gld) ==
  /\ stage = "structural"
  /\ gld \in todo
  /\ \A g \in gate_sigs : sig[g] # sig[gld]
  /\ todo' = todo \ {gld}
  /\ UNCHANGED <<input, stage, maps, lines_read, gate_sigs, matched>>

FinishFallbackClears ==      \* mutant: the pools are emptied
  /\ stage = "structural"
  /\ todo = {}
  /\ unmapped_mods_gold' = {}
  /\ unmapped_mods_gate' = {}
  /\ stage' = "done"
  /\ UNCHANGED <<input, gold2gate, gate2gold, mapped_mods_gold, mapped_mods_gate,
                 lines_read, fallback>>

MatchedGold == {p[1] : p \in matched}
MatchedGate == {p[2] : p \in matched}

(* The matched modules leave the unmapped pools.                           *)
FinishFallback ==
  /\ stage = "structural"
  /\ todo = {}
  /\ unmapped_mods_gold' = unmapped_mods_gold \ MatchedGold
  /\ unmapped_mods_gate' = unmapped_mods_gate \ MatchedGate
  /\ stage' = "done"
  /\ UNCHANGED <<input, gold2gate, gate2gold, mapped_mods_gold, mapped_mods_gate,
                 lines_read, fallback>>

Done == stage = "done" /\ UNCHANGED vars

MapStep ==
  \/ MapGoldByName
  \/ MapGateByName
  \/ \E gld, gte \in design : ExternalLine(gld, gte)
  \/ StartFallback
  \/ \E gld \in todo, gname \in gate_sigs : MatchBySignature(gld, gname)
  \/ \E gld \in todo : NoSuchSignature(gld)
  \/ FinishFallback

Next == MapStep \/ Done

Spec == Init /\ [][Next]_vars

-----------------------------------------------------------------------------
(* abc_cec (guide_check.cc) finds the pairs to prove anew, by name only,   *)
(* among the gold modules that are not black boxes.                        *)
equiv_modsByPrefix(blackboxes) ==      \* mutant: the tops are not special
  {<<m, [side |-> "gate", base |-> m.base]>> :
     m \in {n \in GoldMods \ blackboxes : [side |-> "gate", base |-> n.base] \in design}}

equiv_mods(blackboxes) ==
  {<<m, GateName(m)>> : m \in {n \in GoldMods \ blackboxes : GateName(n) \in design}}

Pairs == {<<m, gold2gate[m]>> : m \in DOMAIN gold2gate}

(* Both tops carry the same base name, or none.                            *)
TopsAlike == gold_mod.base = gate_mod.base

TypeOK ==
  /\ gold_mod \in design /\ gold_mod.side = "gold"
  /\ gate_mod \in design /\ gate_mod.side = "gate"
  /\ design \subseteq Name
  /\ dotted \in BOOLEAN
  /\ sig \in [design -> Sig]
  /\ stage \in {"gold", "gate", "external", "structural", "done"}
  /\ gold2gate \in [mapped_mods_gold -> mapped_mods_gate]
  /\ DOMAIN gate2gold \subseteq mapped_mods_gold
  /\ mapped_mods_gold \subseteq design /\ mapped_mods_gate \subseteq design
  /\ unmapped_mods_gold \subseteq design /\ unmapped_mods_gate \subseteq design
  /\ lines_read \in 0..MaxLines
  /\ todo \subseteq unmapped_mods_gold
  /\ gate_sigs \subseteq unmapped_mods_gate \ MatchedGate
  /\ matched \subseteq unmapped_mods_gold \X unmapped_mods_gate \/ stage = "done"

(* Every consumer of the map (arithmetic extraction, signal matching)      *)
(* treats it as a pairing: no gate module stands for two gold modules and  *)
(* a mapped module is on no unmapped list.                                 *)
OneToOne ==
  TopsAlike =>
    /\ \A m, n \in DOMAIN gold2gate : gold2gate[m] = gold2gate[n] => m = n
    /\ mapped_mods_gate = {gold2gate[m] : m \in DOMAIN gold2gate}
    /\ stage = "done" => /\ mapped_mods_gold \cap unmapped_mods_gold = {}
                         /\ mapped_mods_gate \cap unmapped_mods_gate = {}

(* The result says something about every module of either side.            *)
EveryModuleListed ==
  stage = "done" => /\ GoldMods \subseteq mapped_mods_gold \union unmapped_mods_gold
                    /\ GateMods \subseteq mapped_mods_gate \union unmapped_mods_gate

(* The greedy fallback is maximal: no two modules of equal port signature  *)
(* are left over.                                                          *)
NoMatchLeft ==
  stage = "done" =>
    \A m \in unmapped_mods_gold, n \in unmapped_mods_gate : sig[m] # sig[n]

(* What abc_cec will prove is what the signals were matched for: its own   *)
(* search by name finds only pairs of the map, whatever became a black box *)
(* in between.                                                             *)
CecPairsAreMapped ==
  stage \notin {"gold"} => \A bb \in SUBSET GoldMods : equiv_mods(bb) \subseteq Pairs

(* Neither an external line nor the fallback changes a pair that was made. *)
PairsAreFinal ==
  [][stage # "gold" => Pairs \subseteq {<<m, gold2gate'[m]>> : m \in DOMAIN gold2gate'}]_vars

-----------------------------------------------------------------------------
(* The parts of the inductive invariant.                                   *)

(* What each stage has not touched yet.                                    *)
Untouched ==
  /\ stage = "gold" => /\ mapped_mods_gold = {} /\ mapped_mods_gate = {}
                       /\ unmapped_mods_gold = {}
  /\ stage \in {"gold", "gate"} => unmapped_mods_gate = {}
  /\ stage = "gate" => mapped_mods_gold = NamedGold
  /\ stage \in {"gold", "gate", "external"} => todo = {} /\ gate_sigs = {} /\ matched = {}

(* The pairs found by name stay in the map.                                *)
ByName ==
  stage # "gold" =>
    \A m \in NamedGold : m \in mapped_mods_gold /\ gold2gate[m] = GateName(m)

(* Every module of a side that was scanned is on one of its lists.         *)
Listed ==
  /\ stage # "gold" => GoldMods \subseteq mapped_mods_gold \union unmapped_mods_gold
  /\ stage \notin {"gold", "gate"} =>
       GateMods \subseteq mapped_mods_gate \union unmapped_mods_gate

(* The fallback's pools: a gate module is available or matched, a gold     *)
(* module is to be visited, matched, or unlike every available gate module.*)
Fallback ==
  stage = "structural" =>
    /\ unmapped_mods_gate = gate_sigs \union MatchedGate
    /\ todo \cap mapped_mods_gold = {}
    /\ MatchedGold \subseteq mapped_mods_gold /\ MatchedGate \subseteq mapped_mods_gate
    /\ \A m \in unmapped_mods_gold, g \in gate_sigs :
         m \notin todo /\ m \notin MatchedGold => sig[m] # sig[g]

(* Mapped modules leave the unmapped lists, those the fallback maps at its *)
(* end.                                                                    *)
Separate ==
  mapped_mods_gold \cap unmapped_mods_gold = IF stage = "done" THEN {} ELSE MatchedGold

(* If the tops are alike the map is a bijection onto the mapped gate side. *)
Pairing ==
  TopsAlike =>
    /\ \A m, n \in mapped_mods_gold : gold2gate[m] = gold2gate[n] => m = n
    /\ \A g \in mapped_mods_gate : \E m \in mapped_mods_gold : gold2gate[m] = g
    /\ mapped_mods_gate \cap unmapped_mods_gate = IF stage = "done" THEN {} ELSE MatchedGate

(* The inductive invariant of hier_mod_map, from which OneToOne,           *)
(* EveryModuleListed, NoMatchLeft and CecPairsAreMapped follow.            *)
MapInv ==
  /\ TypeOK
  /\ Untouched
  /\ ByName
  /\ Listed
  /\ Fallback
  /\ Separate
  /\ Pairing
  /\ NoMatchLeft
=============================================================================
