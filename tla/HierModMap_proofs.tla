-------------------------- MODULE HierModMap_proofs --------------------------
(***************************************************************************)
(* Proofs about hier_mod_map for every set of base names and signatures    *)
(* and every length of the external match file: the inductive invariant    *)
(* MapInv and what follows from it.                                        *)
(***************************************************************************)
EXTENDS HierModMap, TLAPS

-----------------------------------------------------------------------------
(* The two name translations of the by-name stage.                         *)

(* The gold counterpart of a named gate module is itself a named gold      *)
(* module: the gate loop adds no gold module the gold loop has not mapped. *)
LEMMA GoldNameNamed ==
  ASSUME TypeOK, NEW m \in NamedGate
  PROVE  GoldName(m) \in NamedGold
<1>1. m \in design /\ m \in Name /\ gold_mod \in design /\ gate_mod \in design
  BY DEF TypeOK, NamedGate, GateMods
<1>2. CASE m = gate_mod
  <2>1. GoldName(m) = gold_mod
    BY <1>2 DEF GoldName
  <2>2. gold_mod \in GoldMods /\ GateName(gold_mod) = gate_mod
    BY <1>1 DEF GoldMods, OnSide, GateName
  <2> QED BY <1>1, <2>1, <2>2 DEF NamedGold
<1>3. CASE m # gate_mod
  <2>1. m.side = "gate" /\ m.base # Root
    BY <1>3 DEF NamedGate, GateMods, OnSide
  <2>2. GoldName(m) = [side |-> "gold", base |-> m.base]
    BY <1>3 DEF GoldName
  <2>3. GoldName(m) \in design
    BY DEF NamedGate
  <2>4. GoldName(m) \in GoldMods
    BY <2>1, <2>2, <2>3 DEF GoldMods, OnSide
  <2>5. m = [side |-> "gate", base |-> m.base]
    BY <1>1, <2>1 DEF Name
  <2>6. GateName(GoldName(m)) \in design
    BY <1>1, <2>2, <2>5 DEF GateName
  <2> QED BY <2>4, <2>6 DEF NamedGold
<1> QED BY <1>2, <1>3

(* If the tops are alike, going to the gate side and back changes nothing. *)
LEMMA GoldGateGold ==
  ASSUME TypeOK, TopsAlike, NEW m \in GoldMods
  PROVE  GoldName(GateName(m)) = m
<1>1. m \in Name /\ gold_mod \in Name /\ gold_mod.side = "gold"
  BY DEF TypeOK, GoldMods
<1>2. CASE m = gold_mod
  BY <1>2 DEF GoldName, GateName
<1>3. CASE m # gold_mod
  <2>1. m.side = "gold"
    BY <1>3 DEF GoldMods, OnSide
  <2>2. m = [side |-> "gold", base |-> m.base]
    BY <1>1, <2>1 DEF Name
  <2>3. gold_mod = [side |-> "gold", base |-> gold_mod.base]
    BY <1>1 DEF Name
  <2>4. m.base # gate_mod.base
    BY <1>3, <2>2, <2>3 DEF TopsAlike
  <2>5. GateName(m) = [side |-> "gate", base |-> m.base]
    BY <1>3 DEF GateName
  <2>6. GateName(m).base = m.base
    BY <2>5
  <2>7. GateName(m) # gate_mod
    BY <2>4, <2>6
  <2> QED BY <2>2, <2>6, <2>7 DEF GoldName
<1> QED BY <1>2, <1>3

(* And the other way round.                                                *)
LEMMA GateGoldGate ==
  ASSUME TypeOK, TopsAlike, NEW m \in GateMods
  PROVE  GateName(GoldName(m)) = m
<1>1. m \in Name /\ gate_mod \in Name /\ gate_mod.side = "gate"
  BY DEF TypeOK, GateMods
<1>2. CASE m = gate_mod
  BY <1>2 DEF GoldName, GateName
<1>3. CASE m # gate_mod
  <2>1. m.side = "gate"
    BY <1>3 DEF GateMods, OnSide
  <2>2. m = [side |-> "gate", base |-> m.base]
    BY <1>1, <2>1 DEF Name
  <2>3. gate_mod = [side |-> "gate", base |-> gate_mod.base]
    BY <1>1 DEF Name
  <2>4. m.base # gold_mod.base
    BY <1>3, <2>2, <2>3 DEF TopsAlike
  <2>5. GoldName(m) = [side |-> "gold", base |-> m.base]
    BY <1>3 DEF GoldName
  <2>6. GoldName(m).base = m.base
    BY <2>5
  <2>7. GoldName(m) # gold_mod
    BY <2>4, <2>6
  <2> QED BY <2>2, <2>6, <2>7 DEF GateName
<1> QED BY <1>2, <1>3

(* Definitions that depend on the input alone do not change with it.       *)
LEMMA InputKept ==
  ASSUME UNCHANGED input
  PROVE  /\ GoldMods' = GoldMods /\ GateMods' = GateMods
         /\ NamedGold' = NamedGold /\ NamedGate' = NamedGate
         /\ \A m : GateName(m)' = GateName(m)
         /\ TopsAlike' = TopsAlike
BY DEF input, GoldMods, GateMods, NamedGold, NamedGate, GateName, GoldName, OnSide, TopsAlike

-----------------------------------------------------------------------------
(* One lemma per action: it preserves MapInv.                              *)

LEMMA InitMapInv == Init => MapInv
<1> SUFFICES ASSUME Init PROVE MapInv
  OBVIOUS
<1>1. matched = {} /\ MatchedGold = {} /\ MatchedGate = {}
  BY DEF Init, MatchedGold, MatchedGate
<1>2. gold_mod \in design /\ gold_mod.side = "gold" /\ gate_mod \in design /\ gate_mod.side = "gate"
  BY DEF Init
<1>3. lines_read \in 0..MaxLines
  BY MaxLinesAssumption DEF Init
<1>4. gold2gate \in [mapped_mods_gold -> mapped_mods_gate] /\ DOMAIN gate2gold = {}
  BY DEF Init, Empty
<1>5. TypeOK
  BY <1>1, <1>2, <1>3, <1>4 DEF Init, TypeOK
<1>6. Untouched /\ ByName /\ Listed /\ Fallback /\ NoMatchLeft
  BY <1>1 DEF Init, Untouched, ByName, Listed, Fallback, NoMatchLeft
<1>7. Separate /\ Pairing
  BY <1>1 DEF Init, Separate, Pairing
<1> QED BY <1>5, <1>6, <1>7 DEF MapInv

LEMMA GoldStep == MapInv /\ MapGoldByName => MapInv'
<1> SUFFICES ASSUME MapInv, MapGoldByName PROVE MapInv'
  OBVIOUS
<1>0. TypeOK /\ Untouched
  BY DEF MapInv
<1>1. /\ GoldMods' = GoldMods /\ GateMods' = GateMods
      /\ NamedGold' = NamedGold /\ NamedGate' = NamedGate
      /\ \A m : GateName(m)' = GateName(m)
      /\ TopsAlike' = TopsAlike
  BY InputKept DEF MapGoldByName
<1>2. NamedGold \subseteq GoldMods /\ GoldMods \subseteq design
      /\ {GateName(m) : m \in NamedGold} \subseteq design
  BY DEF NamedGold, GoldMods
<1>3. stage' = "gate" /\ todo' = {} /\ gate_sigs' = {} /\ matched' = {}
      /\ unmapped_mods_gate' = {}
  BY <1>0 DEF MapGoldByName, Untouched, fallback
<1>4. MatchedGold' = {} /\ MatchedGate' = {}
  BY <1>3 DEF MatchedGold, MatchedGate
<1>5. gold2gate' \in [NamedGold -> {GateName(m) : m \in NamedGold}]
      /\ \A m \in NamedGold : gold2gate'[m] = GateName(m)
  BY DEF MapGoldByName
<1>6. DOMAIN gate2gold' = {}
  BY <1>0 DEF MapGoldByName, TypeOK, Untouched
<1>7. TypeOK'
  BY <1>0, <1>2, <1>3, <1>4, <1>5, <1>6 DEF MapGoldByName, TypeOK, input
<1>8. Untouched' /\ Listed' /\ Fallback' /\ Separate' /\ NoMatchLeft'
  BY <1>1, <1>3, <1>4
     DEF MapGoldByName, Untouched, Listed, Fallback, Separate, NoMatchLeft
<1>9. ByName'
  <2>1. \A m \in NamedGold' : m \in mapped_mods_gold' /\ gold2gate'[m] = GateName(m)'
    BY <1>1, <1>5 DEF MapGoldByName
  <2> QED BY <2>1 DEF ByName
<1>10. Pairing'
  <2> SUFFICES ASSUME TopsAlike PROVE Pairing'
    BY <1>1 DEF Pairing
  <2>1. ASSUME NEW m \in NamedGold, NEW n \in NamedGold, GateName(m) = GateName(n)
        PROVE  m = n
    BY <1>0, <1>2, <2>1, GoldGateGold
  <2>2. \A m, n \in mapped_mods_gold' : gold2gate'[m] = gold2gate'[n] => m = n
    BY <1>5, <2>1 DEF MapGoldByName
  <2>3. \A g \in mapped_mods_gate' : \E m \in mapped_mods_gold' : gold2gate'[m] = g
    BY <1>5 DEF MapGoldByName
  <2> QED BY <1>3, <1>4, <2>2, <2>3 DEF Pairing
<1> QED BY <1>7, <1>8, <1>9, <1>10 DEF MapInv

LEMMA GateStep == MapInv /\ MapGateByName => MapInv'
<1> SUFFICES ASSUME MapInv, MapGateByName PROVE MapInv'
  OBVIOUS
<1>0. TypeOK /\ Untouched /\ ByName /\ Listed /\ Separate /\ Pairing
  BY DEF MapInv
<1>1. /\ GoldMods' = GoldMods /\ GateMods' = GateMods
      /\ NamedGold' = NamedGold /\ NamedGate' = NamedGate
      /\ \A m : GateName(m)' = GateName(m)
      /\ TopsAlike' = TopsAlike
  BY InputKept DEF MapGateByName
<1>2. NamedGate \subseteq GateMods /\ GateMods \subseteq design
  BY DEF NamedGate, GateMods
<1>3. stage = "gate" /\ stage' = "external" /\ todo' = {} /\ gate_sigs' = {} /\ matched' = {}
  BY <1>0 DEF MapGateByName, Untouched, fallback
<1>4. MatchedGold = {} /\ MatchedGold' = {} /\ MatchedGate' = {}
  BY <1>0, <1>3 DEF Untouched, MatchedGold, MatchedGate
<1>5. mapped_mods_gold = NamedGold /\ mapped_mods_gold' = NamedGold
  BY <1>0, <1>3, GoldNameNamed DEF Untouched, MapGateByName
<1>6. DOMAIN gate2gold' \subseteq mapped_mods_gold'
  <2>1. PICK f \in [{GoldName(m) : m \in NamedGate} -> NamedGate] : gate2gold' = f
    BY DEF MapGateByName
  <2> QED BY <2>1, <1>5, <1>0, GoldNameNamed
<1>7. gold2gate' = gold2gate /\ gold2gate \in [NamedGold -> mapped_mods_gate]
      /\ mapped_mods_gate' = mapped_mods_gate \union NamedGate
      /\ unmapped_mods_gold' = unmapped_mods_gold
      /\ unmapped_mods_gate' = GateMods \ NamedGate
  BY <1>0, <1>5 DEF TypeOK, MapGateByName
<1>8. gold2gate' \in [mapped_mods_gold' -> mapped_mods_gate']
  BY <1>5, <1>7
<1>9. TypeOK'
  <2>1. mapped_mods_gold' \subseteq design' /\ mapped_mods_gate' \subseteq design'
        /\ unmapped_mods_gold' \subseteq design' /\ unmapped_mods_gate' \subseteq design'
    BY <1>0, <1>2, <1>5, <1>7 DEF TypeOK, MapGateByName, input
  <2> QED BY <1>0, <1>3, <1>4, <1>6, <1>8, <2>1 DEF MapGateByName, TypeOK, input
<1>10. Untouched' /\ Fallback' /\ NoMatchLeft'
  BY <1>3 DEF Untouched, Fallback, NoMatchLeft
<1>11. ByName'
  <2>1. \A m \in NamedGold' : m \in mapped_mods_gold' /\ gold2gate'[m] = GateName(m)'
    BY <1>0, <1>1, <1>3, <1>5, <1>7 DEF ByName
  <2> QED BY <2>1 DEF ByName
<1>12. Listed'
  BY <1>0, <1>1, <1>3, <1>5, <1>7 DEF Listed
<1>13. Separate'
  BY <1>0, <1>3, <1>4, <1>5, <1>7 DEF Separate
<1>14. Pairing'
  <2> SUFFICES ASSUME TopsAlike PROVE Pairing'
    BY <1>1 DEF Pairing
  <2>1. \A m, n \in mapped_mods_gold' : gold2gate'[m] = gold2gate'[n] => m = n
    BY <1>0, <1>5, <1>7 DEF Pairing
  <2>2. ASSUME NEW g \in mapped_mods_gate
        PROVE  \E m \in NamedGold : GateName(m) = g
    BY <1>0, <1>3, <1>5 DEF Pairing, ByName
  <2>3. ASSUME NEW g \in NamedGate
        PROVE  \E m \in NamedGold : GateName(m) = g
    BY <1>0, <1>2, GoldNameNamed, GateGoldGate
  <2>4. \A g \in mapped_mods_gate' : \E m \in mapped_mods_gold' : gold2gate'[m] = g
    BY <1>0, <1>3, <1>5, <1>7, <2>2, <2>3 DEF ByName
  <2>5. ASSUME NEW m \in NamedGold, GateName(m) \in GateMods
        PROVE  GateName(m) \in NamedGate
    <3>1. m \in GoldMods /\ m \in design
      BY DEF NamedGold, GoldMods
    <3>2. GoldName(GateName(m)) = m
      BY <1>0, <3>1, GoldGateGold
    <3> QED BY <2>5, <3>1, <3>2 DEF NamedGate
  <2>6. mapped_mods_gate' \cap unmapped_mods_gate' = {}
    BY <1>7, <2>2, <2>5
  <2> QED BY <1>3, <1>4, <2>1, <2>4, <2>6 DEF Pairing
<1> QED BY <1>9, <1>10, <1>11, <1>12, <1>13, <1>14 DEF MapInv

(* Adding one pair of two unmapped modules keeps the map a bijection and   *)
(* the pairs it had; ExternalLine and MatchBySignature both do this.       *)
LEMMA AddPair ==
  ASSUME MapInv, stage # "gold", UNCHANGED input,
         NEW gld \in design, NEW gte \in design, gld \notin mapped_mods_gold,
         TopsAlike => gte \notin mapped_mods_gate,
         gold2gate' = Assign(gold2gate, gld, gte),
         mapped_mods_gold' = mapped_mods_gold \union {gld},
         mapped_mods_gate' = mapped_mods_gate \union {gte}
  PROVE  /\ gold2gate' \in [mapped_mods_gold' -> mapped_mods_gate']
         /\ \A m \in mapped_mods_gold : gold2gate'[m] = gold2gate[m]
         /\ mapped_mods_gold' \subseteq design' /\ mapped_mods_gate' \subseteq design'
         /\ \A m \in NamedGold' : m \in mapped_mods_gold' /\ gold2gate'[m] = GateName(m)'
         /\ TopsAlike =>
              /\ \A m, n \in mapped_mods_gold' : gold2gate'[m] = gold2gate'[n] => m = n
              /\ \A g \in mapped_mods_gate' : \E m \in mapped_mods_gold' : gold2gate'[m] = g
<1>1. gold2gate \in [mapped_mods_gold -> mapped_mods_gate]
      /\ mapped_mods_gold \subseteq design /\ mapped_mods_gate \subseteq design
  BY DEF MapInv, TypeOK
<1>2. /\ gold2gate' \in [mapped_mods_gold \union {gld} -> mapped_mods_gate \union {gte}]
      /\ gold2gate'[gld] = gte
      /\ \A x \in mapped_mods_gold : x # gld => gold2gate'[x] = gold2gate[x]
  BY <1>1 DEF Assign
<1>3. \A m \in mapped_mods_gold : gold2gate'[m] = gold2gate[m]
  BY <1>2
<1>4. mapped_mods_gold' \subseteq design' /\ mapped_mods_gate' \subseteq design'
  BY <1>1 DEF input
<1>5. \A m \in NamedGold' : m \in mapped_mods_gold' /\ gold2gate'[m] = GateName(m)'
  <2>1. NamedGold' = NamedGold /\ \A m : GateName(m)' = GateName(m)
    BY InputKept
  <2>2. \A m \in NamedGold : m \in mapped_mods_gold /\ gold2gate[m] = GateName(m)
    BY DEF MapInv, ByName
  <2> QED BY <1>3, <2>1, <2>2
<1>6. ASSUME TopsAlike
      PROVE  /\ \A m, n \in mapped_mods_gold' : gold2gate'[m] = gold2gate'[n] => m = n
             /\ \A g \in mapped_mods_gate' : \E m \in mapped_mods_gold' : gold2gate'[m] = g
  <2>1. /\ \A m, n \in mapped_mods_gold : gold2gate[m] = gold2gate[n] => m = n
        /\ \A g \in mapped_mods_gate : \E m \in mapped_mods_gold : gold2gate[m] = g
    BY <1>6 DEF MapInv, Pairing
  <2>2. \A m \in mapped_mods_gold : gold2gate'[m] # gte
    BY <1>1, <1>3, <1>6
  <2> QED BY <1>2, <1>3, <2>1, <2>2
<1> QED BY <1>2, <1>3, <1>4, <1>5, <1>6

LEMMA ExternalStep ==
  ASSUME MapInv, NEW gld \in design, NEW gte \in design, ExternalLine(gld, gte)
  PROVE  MapInv'
<1>0. TypeOK /\ Untouched /\ Listed /\ Separate /\ Pairing
  BY DEF MapInv
<1>1. stage = "external" /\ stage' = "external" /\ UNCHANGED input
      /\ todo' = {} /\ gate_sigs' = {} /\ matched' = {}
  BY <1>0 DEF ExternalLine, Untouched, fallback
<1>2. MatchedGold = {} /\ MatchedGold' = {} /\ MatchedGate = {} /\ MatchedGate' = {}
  BY <1>0, <1>1 DEF Untouched, MatchedGold, MatchedGate
<1>3. /\ gld \notin mapped_mods_gold /\ gte \notin mapped_mods_gate
      /\ gold2gate' = Assign(gold2gate, gld, gte)
      /\ mapped_mods_gold' = mapped_mods_gold \union {gld}
      /\ mapped_mods_gate' = mapped_mods_gate \union {gte}
      /\ unmapped_mods_gold' = unmapped_mods_gold \ {gld}
      /\ unmapped_mods_gate' = unmapped_mods_gate \ {gte}
      /\ gate2gold' = gate2gold
  BY DEF ExternalLine, BothUnmapped
<1>4. /\ gold2gate' \in [mapped_mods_gold' -> mapped_mods_gate']
      /\ \A m \in mapped_mods_gold : gold2gate'[m] = gold2gate[m]
      /\ mapped_mods_gold' \subseteq design' /\ mapped_mods_gate' \subseteq design'
      /\ \A m \in NamedGold' : m \in mapped_mods_gold' /\ gold2gate'[m] = GateName(m)'
      /\ TopsAlike =>
           /\ \A m, n \in mapped_mods_gold' : gold2gate'[m] = gold2gate'[n] => m = n
           /\ \A g \in mapped_mods_gate' : \E m \in mapped_mods_gold' : gold2gate'[m] = g
  BY <1>1, <1>3, AddPair
<1>5. /\ GoldMods' = GoldMods /\ GateMods' = GateMods /\ TopsAlike' = TopsAlike
  BY <1>1, InputKept
<1>6. lines_read' \in 0..MaxLines
  <2>1. lines_read \in 0..MaxLines /\ lines_read < MaxLines /\ lines_read' = lines_read + 1
    BY <1>0 DEF TypeOK, ExternalLine
  <2> QED BY <2>1, MaxLinesAssumption
<1>7. TypeOK'
  <2>1. unmapped_mods_gold' \subseteq design' /\ unmapped_mods_gate' \subseteq design'
        /\ DOMAIN gate2gold' \subseteq mapped_mods_gold'
    BY <1>0, <1>1, <1>3 DEF TypeOK, input
  <2> QED BY <1>0, <1>1, <1>4, <1>6, <2>1 DEF TypeOK, input
<1>8. Untouched' /\ Fallback' /\ NoMatchLeft'
  BY <1>1 DEF Untouched, Fallback, NoMatchLeft
<1>9. ByName'
  BY <1>4 DEF ByName
<1>10. Listed'
  BY <1>0, <1>1, <1>3, <1>5 DEF Listed
<1>11. Separate'
  BY <1>0, <1>1, <1>2, <1>3 DEF Separate
<1>12. Pairing'
  BY <1>0, <1>1, <1>2, <1>3, <1>4, <1>5 DEF Pairing
<1> QED BY <1>7, <1>8, <1>9, <1>10, <1>11, <1>12 DEF MapInv

LEMMA StartFallbackStep == MapInv /\ StartFallback => MapInv'
<1> SUFFICES ASSUME MapInv, StartFallback PROVE MapInv'
  OBVIOUS
<1>0. TypeOK /\ Untouched /\ ByName /\ Listed /\ Separate /\ Pairing
  BY DEF MapInv
<1>1. stage = "external" /\ stage' \in {"structural", "done"} /\ UNCHANGED <<input, maps>>
      /\ matched = {} /\ matched' = {} /\ lines_read' = lines_read
  BY <1>0 DEF StartFallback, Untouched
<1>2. MatchedGold = {} /\ MatchedGold' = {} /\ MatchedGate = {} /\ MatchedGate' = {}
  BY <1>1 DEF MatchedGold, MatchedGate
<1>3. /\ GoldMods' = GoldMods /\ GateMods' = GateMods /\ NamedGold' = NamedGold
      /\ \A m : GateName(m)' = GateName(m)
      /\ TopsAlike' = TopsAlike
  BY <1>1, InputKept
<1>4. /\ stage' = "structural" => todo' = unmapped_mods_gold /\ gate_sigs' = unmapped_mods_gate
      /\ stage' = "done" => /\ todo' = {} /\ gate_sigs' = {}
                            /\ unmapped_mods_gold = {} \/ unmapped_mods_gate = {}
  BY <1>0, <1>1 DEF StartFallback, Untouched
<1>5. TypeOK'
  BY <1>0, <1>1, <1>2, <1>4 DEF TypeOK, input, maps
<1>6. Untouched' /\ Listed' /\ Separate' /\ NoMatchLeft'
  BY <1>0, <1>1, <1>2, <1>3, <1>4 DEF Untouched, Listed, Separate, NoMatchLeft, maps
<1>7. ByName'
  BY <1>0, <1>1, <1>3 DEF ByName, maps
<1>8. Fallback'
  BY <1>0, <1>1, <1>2, <1>4 DEF Fallback, Separate, maps
<1>9. Pairing'
  BY <1>0, <1>1, <1>2, <1>3 DEF Pairing, maps
<1> QED BY <1>5, <1>6, <1>7, <1>8, <1>9 DEF MapInv

LEMMA MatchStep ==
  ASSUME MapInv, NEW gld \in todo, NEW gname \in gate_sigs, MatchBySignature(gld, gname)
  PROVE  MapInv'
<1>0. TypeOK /\ ByName /\ Listed /\ Fallback /\ Separate /\ Pairing
  BY DEF MapInv
<1>1. stage = "structural" /\ stage' = "structural" /\ UNCHANGED input
  BY DEF MatchBySignature
<1>2. /\ gold2gate' = Assign(gold2gate, gld, gname)
      /\ mapped_mods_gold' = mapped_mods_gold \union {gld}
      /\ mapped_mods_gate' = mapped_mods_gate \union {gname}
      /\ matched' = matched \union {<<gld, gname>>}
      /\ gate_sigs' = gate_sigs \ {gname}
      /\ todo' = todo \ {gld}
      /\ gate2gold' = gate2gold /\ lines_read' = lines_read
      /\ unmapped_mods_gold' = unmapped_mods_gold
      /\ unmapped_mods_gate' = unmapped_mods_gate
  BY DEF MatchBySignature
<1>3. MatchedGold' = MatchedGold \union {gld} /\ MatchedGate' = MatchedGate \union {gname}
  <2>1. \A p : p \in matched' <=> p \in matched \/ p = <<gld, gname>>
    BY <1>2
  <2>2. <<gld, gname>>[1] = gld /\ <<gld, gname>>[2] = gname
    OBVIOUS
  <2>3. \A x : x \in MatchedGold' <=> x \in MatchedGold \/ x = gld
    BY <2>1, <2>2, Zenon DEF MatchedGold
  <2>4. \A x : x \in MatchedGate' <=> x \in MatchedGate \/ x = gname
    BY <2>1, <2>2, Zenon DEF MatchedGate
  <2> QED BY <2>3, <2>4
<1>4. gld \in unmapped_mods_gold /\ gname \in unmapped_mods_gate /\ gname \notin MatchedGate
      /\ gld \in design /\ gname \in design
  BY <1>0 DEF TypeOK
<1>5. gld \notin mapped_mods_gold
  BY <1>0, <1>1 DEF Fallback
<1>6. TopsAlike => gname \notin mapped_mods_gate
  BY <1>0, <1>1, <1>4 DEF Pairing
<1>7. stage # "gold"
  BY <1>1
<1>8. /\ gold2gate' \in [mapped_mods_gold' -> mapped_mods_gate']
      /\ mapped_mods_gold' \subseteq design' /\ mapped_mods_gate' \subseteq design'
      /\ \A m \in NamedGold' : m \in mapped_mods_gold' /\ gold2gate'[m] = GateName(m)'
      /\ TopsAlike =>
           /\ \A m, n \in mapped_mods_gold' : gold2gate'[m] = gold2gate'[n] => m = n
           /\ \A g \in mapped_mods_gate' : \E m \in mapped_mods_gold' : gold2gate'[m] = g
  BY <1>1, <1>2, <1>4, <1>5, <1>6, <1>7, AddPair
<1>9. /\ GoldMods' = GoldMods /\ GateMods' = GateMods /\ TopsAlike' = TopsAlike
  BY <1>1, InputKept
<1>10. TypeOK'
  <2>1. /\ unmapped_mods_gold' \subseteq design' /\ unmapped_mods_gate' \subseteq design'
        /\ DOMAIN gate2gold' \subseteq mapped_mods_gold'
    BY <1>0, <1>1, <1>2 DEF TypeOK, input
  <2>2. todo' \subseteq unmapped_mods_gold' /\ gate_sigs' \subseteq unmapped_mods_gate' \ MatchedGate'
    BY <1>0, <1>2, <1>3 DEF TypeOK
  <2>3. matched' \subseteq unmapped_mods_gold' \X unmapped_mods_gate'
    <3>1. matched \subseteq unmapped_mods_gold \X unmapped_mods_gate
      BY <1>0, <1>1 DEF TypeOK
    <3> QED BY <1>2, <1>4, <3>1
  <2> QED BY <1>0, <1>1, <1>2, <1>8, <2>1, <2>2, <2>3 DEF TypeOK, input
<1>11. Untouched' /\ NoMatchLeft'
  BY <1>1 DEF Untouched, NoMatchLeft
<1>12. ByName'
  BY <1>8 DEF ByName
<1>13. Listed'
  BY <1>0, <1>1, <1>2, <1>9 DEF Listed
<1>14. Fallback'
  <2>1. unmapped_mods_gate' = gate_sigs' \union MatchedGate'
    BY <1>0, <1>1, <1>2, <1>3 DEF Fallback
  <2>2. todo' \cap mapped_mods_gold' = {}
        /\ MatchedGold' \subseteq mapped_mods_gold' /\ MatchedGate' \subseteq mapped_mods_gate'
    BY <1>0, <1>1, <1>2, <1>3 DEF Fallback
  <2>3. \A m \in unmapped_mods_gold', g \in gate_sigs' :
          m \notin todo' /\ m \notin MatchedGold' => sig'[m] # sig'[g]
    BY <1>0, <1>1, <1>2, <1>3 DEF Fallback, input
  <2> QED BY <2>1, <2>2, <2>3 DEF Fallback
<1>15. Separate'
  BY <1>0, <1>1, <1>2, <1>3, <1>4, <1>5 DEF Separate
<1>16. Pairing'
  BY <1>0, <1>1, <1>2, <1>3, <1>4, <1>8, <1>9 DEF Pairing
<1> QED BY <1>10, <1>11, <1>12, <1>13, <1>14, <1>15, <1>16 DEF MapInv

LEMMA NoSuchStep ==
  ASSUME MapInv, NEW gld \in todo, NoSuchSignature(gld)
  PROVE  MapInv'
<1>0. TypeOK /\ ByName /\ Listed /\ Fallback /\ Separate /\ Pairing
  BY DEF MapInv
<1>1. /\ stage = "structural" /\ stage' = "structural" /\ UNCHANGED <<input, maps>>
      /\ todo' = todo \ {gld} /\ matched' = matched /\ gate_sigs' = gate_sigs
      /\ lines_read' = lines_read
  BY DEF NoSuchSignature
<1>2. MatchedGold' = MatchedGold /\ MatchedGate' = MatchedGate
  BY <1>1 DEF MatchedGold, MatchedGate
<1>3. /\ GoldMods' = GoldMods /\ GateMods' = GateMods /\ NamedGold' = NamedGold
      /\ \A m : GateName(m)' = GateName(m)
      /\ TopsAlike' = TopsAlike
  BY <1>1, InputKept
<1>4. TypeOK'
  BY <1>0, <1>1, <1>2 DEF TypeOK, input, maps
<1>5. Untouched' /\ NoMatchLeft' /\ Listed' /\ Separate'
  BY <1>0, <1>1, <1>2, <1>3 DEF Untouched, NoMatchLeft, Listed, Separate, maps
<1>6. ByName'
  BY <1>0, <1>1, <1>3 DEF ByName, maps
<1>7. Fallback'
  <2>1. /\ unmapped_mods_gate' = gate_sigs' \union MatchedGate'
        /\ todo' \cap mapped_mods_gold' = {}
        /\ MatchedGold' \subseteq mapped_mods_gold' /\ MatchedGate' \subseteq mapped_mods_gate'
    BY <1>0, <1>1, <1>2 DEF Fallback, maps
  <2>2. \A m \in unmapped_mods_gold', g \in gate_sigs' :
          m \notin todo' /\ m \notin MatchedGold' => sig'[m] # sig'[g]
    BY <1>0, <1>1, <1>2 DEF Fallback, NoSuchSignature, input, maps
  <2> QED BY <2>1, <2>2 DEF Fallback
<1>8. Pairing'
  BY <1>0, <1>1, <1>2, <1>3 DEF Pairing, maps
<1> QED BY <1>4, <1>5, <1>6, <1>7, <1>8 DEF MapInv

LEMMA FinishStep == MapInv /\ FinishFallback => MapInv'
<1> SUFFICES ASSUME MapInv, FinishFallback PROVE MapInv'
  OBVIOUS
<1>0. TypeOK /\ ByName /\ Listed /\ Fallback /\ Separate /\ Pairing
  BY DEF MapInv
<1>1. /\ stage = "structural" /\ stage' = "done" /\ UNCHANGED input
      /\ todo = {} /\ todo' = {} /\ matched' = matched /\ gate_sigs' = gate_sigs
      /\ unmapped_mods_gold' = unmapped_mods_gold \ MatchedGold
      /\ unmapped_mods_gate' = unmapped_mods_gate \ MatchedGate
      /\ gold2gate' = gold2gate /\ gate2gold' = gate2gold
      /\ mapped_mods_gold' = mapped_mods_gold /\ mapped_mods_gate' = mapped_mods_gate
      /\ lines_read' = lines_read
  BY DEF FinishFallback, fallback
<1>2. MatchedGold' = MatchedGold /\ MatchedGate' = MatchedGate
  BY <1>1 DEF MatchedGold, MatchedGate
<1>3. /\ GoldMods' = GoldMods /\ GateMods' = GateMods /\ NamedGold' = NamedGold
      /\ \A m : GateName(m)' = GateName(m)
      /\ TopsAlike' = TopsAlike
  BY <1>1, InputKept
<1>4. TypeOK'
  BY <1>0, <1>1, <1>2 DEF TypeOK, input
<1>5. Untouched' /\ Separate' /\ Fallback'
  BY <1>0, <1>1, <1>2 DEF Untouched, Separate, Fallback
<1>6. ByName'
  BY <1>0, <1>1, <1>3 DEF ByName
<1>7. Listed'
  BY <1>0, <1>1, <1>3 DEF Listed, Fallback
<1>8. Pairing'
  BY <1>0, <1>1, <1>3 DEF Pairing
<1>9. NoMatchLeft'
  BY <1>0, <1>1 DEF NoMatchLeft, Fallback, input
<1> QED BY <1>4, <1>5, <1>6, <1>7, <1>8, <1>9 DEF MapInv

LEMMA StutterStep == MapInv /\ UNCHANGED vars => MapInv'
<1> SUFFICES ASSUME MapInv, UNCHANGED vars PROVE MapInv'
  OBVIOUS
<1>1. UNCHANGED <<input, stage, maps, lines_read, fallback>>
  BY DEF vars
<1>2. MatchedGold' = MatchedGold /\ MatchedGate' = MatchedGate
  BY <1>1 DEF MatchedGold, MatchedGate, fallback
<1>3. /\ GoldMods' = GoldMods /\ GateMods' = GateMods /\ NamedGold' = NamedGold
      /\ \A m : GateName(m)' = GateName(m)
      /\ TopsAlike' = TopsAlike
  BY <1>1, InputKept
<1>4. TypeOK'
  BY <1>1, <1>2 DEF MapInv, TypeOK, input, maps, fallback
<1>5. Untouched' /\ Listed' /\ Separate' /\ Fallback' /\ NoMatchLeft'
  BY <1>1, <1>2, <1>3
     DEF MapInv, Untouched, Listed, Separate, Fallback, NoMatchLeft, input, maps, fallback
<1>6. ByName'
  BY <1>1, <1>3 DEF MapInv, ByName, maps
<1>7. Pairing'
  BY <1>1, <1>2, <1>3 DEF MapInv, Pairing, maps
<1> QED BY <1>4, <1>5, <1>6, <1>7 DEF MapInv

-----------------------------------------------------------------------------
(* Every step of hier_mod_map preserves the invariant.                     *)
LEMMA NextMapInv == MapInv /\ [Next]_vars => MapInv'
<1> SUFFICES ASSUME MapInv, [Next]_vars PROVE MapInv'
  OBVIOUS
<1>1. CASE MapGoldByName
  BY <1>1, GoldStep
<1>2. CASE MapGateByName
  BY <1>2, GateStep
<1>3. CASE \E gld, gte \in design : ExternalLine(gld, gte)
  BY <1>3, ExternalStep
<1>4. CASE StartFallback
  BY <1>4, StartFallbackStep
<1>5. CASE \E gld \in todo, gname \in gate_sigs : MatchBySignature(gld, gname)
  BY <1>5, MatchStep
<1>6. CASE \E gld \in todo : NoSuchSignature(gld)
  BY <1>6, NoSuchStep
<1>7. CASE FinishFallback
  BY <1>7, FinishStep
<1>8. CASE UNCHANGED vars
  BY <1>8, StutterStep
<1> QED
  BY <1>1, <1>2, <1>3, <1>4, <1>5, <1>6, <1>7, <1>8 DEF Next, MapStep, Done

(* MapInv holds in every reachable state of hier_mod_map.                  *)
THEOREM MapInvariant == Spec => []MapInv
BY InitMapInv, NextMapInv, PTL DEF Spec

(* hier_mod_map's dictionaries and pools keep their types.                 *)
THEOREM MapTypeCorrect == Spec => []TypeOK
<1>1. MapInv => TypeOK
  BY DEF MapInv
<1> QED BY <1>1, MapInvariant, PTL

(* The map is a pairing: no gate module stands for two gold modules and at *)
(* the end no module is both mapped and unmapped, if the tops are alike.   *)
THEOREM OneToOneCorrect == Spec => []OneToOne
<1>1. MapInv => OneToOne
  <2> SUFFICES ASSUME MapInv, TopsAlike
               PROVE  /\ \A m, n \in DOMAIN gold2gate : gold2gate[m] = gold2gate[n] => m = n
                      /\ mapped_mods_gate = {gold2gate[m] : m \in DOMAIN gold2gate}
                      /\ stage = "done" => /\ mapped_mods_gold \cap unmapped_mods_gold = {}
                                           /\ mapped_mods_gate \cap unmapped_mods_gate = {}
    BY DEF OneToOne
  <2>1. gold2gate \in [mapped_mods_gold -> mapped_mods_gate]
        /\ DOMAIN gold2gate = mapped_mods_gold
    BY DEF MapInv, TypeOK
  <2>2. Pairing /\ Separate
    BY DEF MapInv
  <2>3. mapped_mods_gate = {gold2gate[m] : m \in DOMAIN gold2gate}
    BY <2>1, <2>2 DEF Pairing
  <2> QED BY <2>1, <2>2, <2>3 DEF Pairing, Separate
<1> QED BY <1>1, MapInvariant, PTL

(* Every module of either side is mapped or listed as unmapped.            *)
THEOREM EveryModuleListedCorrect == Spec => []EveryModuleListed
<1>1. MapInv => EveryModuleListed
  BY DEF MapInv, Listed, EveryModuleListed
<1> QED BY <1>1, MapInvariant, PTL

(* The greedy fallback is maximal: two modules of one signature are never  *)
(* both left over, whatever the order of the two hash pools.               *)
THEOREM NoMatchLeftCorrect == Spec => []NoMatchLeft
<1>1. MapInv => NoMatchLeft
  BY DEF MapInv
<1> QED BY <1>1, MapInvariant, PTL

(* What abc_cec finds by name is in the map, whatever was made a black box *)
(* in between.                                                             *)
THEOREM CecPairsCorrect == Spec => []CecPairsAreMapped
<1>1. MapInv => CecPairsAreMapped
  <2> SUFFICES ASSUME MapInv, stage # "gold", NEW bb \in SUBSET GoldMods
               PROVE  equiv_mods(bb) \subseteq Pairs
    BY DEF CecPairsAreMapped
  <2>1. DOMAIN gold2gate = mapped_mods_gold
    BY DEF MapInv, TypeOK
  <2>2. \A m \in NamedGold : m \in mapped_mods_gold /\ gold2gate[m] = GateName(m)
    BY DEF MapInv, ByName
  <2>3. ASSUME NEW q \in equiv_mods(bb)
        PROVE  q \in Pairs
    <3>1. PICK m \in NamedGold : q = <<m, GateName(m)>>
      BY DEF equiv_mods, NamedGold
    <3>2. m \in DOMAIN gold2gate /\ q = <<m, gold2gate[m]>>
      BY <2>1, <2>2, <3>1
    <3> QED BY <3>2, Zenon DEF Pairs
  <2> QED BY <2>3
<1> QED BY <1>1, MapInvariant, PTL

(* No step after the scan of the gold side changes or drops a pair.        *)
THEOREM PairsFinalCorrect == Spec => PairsAreFinal
<1> DEFINE PairsNext == {<<m, gold2gate'[m]>> : m \in DOMAIN gold2gate'}
<1>1. ASSUME MapInv, stage # "gold", [Next]_vars
      PROVE  Pairs \subseteq PairsNext
  <2>0. DOMAIN gold2gate = mapped_mods_gold /\ gold2gate \in [mapped_mods_gold -> mapped_mods_gate]
    BY <1>1 DEF MapInv, TypeOK
  <2>1. ASSUME NEW gld, NEW gte, gld \notin mapped_mods_gold,
               gold2gate' = Assign(gold2gate, gld, gte)
        PROVE  Pairs \subseteq PairsNext
    <3>1. /\ DOMAIN gold2gate' = mapped_mods_gold \union {gld}
          /\ \A m \in mapped_mods_gold : gold2gate'[m] = gold2gate[m]
      BY <2>0, <2>1 DEF Assign
    <3>2. ASSUME NEW q \in Pairs PROVE q \in PairsNext
      <4>1. PICK m \in mapped_mods_gold : q = <<m, gold2gate[m]>>
        BY <2>0, Zenon DEF Pairs
      <4>2. m \in DOMAIN gold2gate' /\ q = <<m, gold2gate'[m]>>
        BY <3>1, <4>1
      <4> QED BY <4>2, Zenon
    <3> QED BY <3>2
  <2>2. CASE gold2gate' = gold2gate
    BY <2>2, Zenon DEF Pairs
  <2>3. CASE \E gld, gte \in design : ExternalLine(gld, gte)
    BY <2>1, <2>3 DEF ExternalLine, BothUnmapped
  <2>4. CASE \E gld \in todo, gname \in gate_sigs : MatchBySignature(gld, gname)
    <3>1. stage = "structural" => todo \cap mapped_mods_gold = {}
      BY <1>1 DEF MapInv, Fallback
    <3>2. PICK gld \in todo, gname \in gate_sigs : MatchBySignature(gld, gname)
      BY <2>4
    <3>3. gld \notin mapped_mods_gold /\ gold2gate' = Assign(gold2gate, gld, gname)
      BY <3>1, <3>2 DEF MatchBySignature
    <3> QED BY <2>1, <3>3
  <2>5. CASE MapGateByName \/ StartFallback \/ FinishFallback \/ UNCHANGED vars
             \/ \E gld \in todo : NoSuchSignature(gld)
    <3>1. gold2gate' = gold2gate
      BY <2>5 DEF MapGateByName, StartFallback, FinishFallback, NoSuchSignature, vars, maps
    <3> QED BY <2>2, <3>1
  <2> QED BY <1>1, <2>3, <2>4, <2>5 DEF Next, MapStep, Done, MapGoldByName
<1>2. MapInv /\ [Next]_vars => [stage # "gold" => Pairs \subseteq PairsNext]_vars
  BY <1>1
<1> QED BY <1>2, MapInvariant, PTL DEF Spec, PairsAreFinal
=============================================================================
