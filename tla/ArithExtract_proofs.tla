------------------------- MODULE ArithExtract_proofs -------------------------
(***************************************************************************)
(* Proofs about the extraction of multipliers and dividers for every set   *)
(* of module pairs, parameters and arithmetic modules and every number of  *)
(* cells: what is hidden behind stubs and black boxes was verified, and    *)
(* the two sides of a pair change together.                                *)
(***************************************************************************)
EXTENDS ArithExtract, TLAPS

-----------------------------------------------------------------------------
(* The parts of the inductive invariant.                                   *)

(* The design is never changed.                                            *)
Given ==
  /\ kind \in {"mul", "div"}
  /\ arith \in [Pair -> [Side -> Param \union {0}]]
  /\ cells \in [Pair -> [Side -> SortedCells]]

BothMarked(p) == arith[p]["gold"] # 0 /\ arith[p]["gate"] # 0
NoneMarked(p) == arith[p]["gold"] = 0 /\ arith[p]["gate"] = 0

(* What the rules of get_*_map call for, pair by pair.                     *)
Calls(p) ==
  IF BothMarked(p) THEN {ModEntry(p)} ELSE IF NoneMarked(p) THEN CellEntries(p) ELSE {}

(* The map holds that for the pairs visited so far, no more and no less.   *)
Entered == entries = UNION {Calls(p) : p \in Pair \ unmapped}

ModEntries == {e \in entries : e.is_mod}
CellPairs == {e.pair : e \in {x \in entries : ~x.is_mod}}

(* What the verifier was asked so far, and what was hidden in the end.     *)
Progress ==
  /\ pc \in {"map", "check", "done"}
  /\ unmapped \subseteq Pair
  /\ pc # "map" => unmapped = {}
  /\ results \in [DOMAIN results -> BOOLEAN]
  /\ DOMAIN results \subseteq mod_to_check
  /\ pc = "map" => DOMAIN results = {}
  /\ pc # "done" => stubbed = {} /\ blackbox = {}
  /\ pc = "done" => /\ mod_to_check \subseteq DOMAIN results
                    /\ stubbed = CellPairs
                    /\ blackbox = {PairModule(e.pair, s) : e \in ModEntries, s \in Side}

ExtractInv == Given /\ Entered /\ Progress

-----------------------------------------------------------------------------
(* Facts about cells and entries.                                          *)

LEMMA SortedAreSequences == SortedCells \subseteq Seq(Cell)
BY DEF SortedCells

LEMMA CellsAreSequences ==
  ASSUME Given, NEW p \in Pair, NEW s \in Side
  PROVE  cells[p][s] \in Seq(Cell) /\ DOMAIN cells[p][s] = 1..Len(cells[p][s])
<1>1. cells[p][s] \in SortedCells
  BY DEF Given
<1>2. cells[p][s] \in Seq(Cell)
  BY <1>1, SortedAreSequences
<1> QED BY <1>2

(* Entered, one entry at a time.                                           *)
LEMMA EnteredFacts ==
  Entered <=> \A e : e \in entries <=> \E p \in Pair \ unmapped : e \in Calls(p)
BY DEF Entered

(* The fields of the two kinds of entries.                                 *)
LEMMA EntryFields ==
  ASSUME NEW p, NEW i
  PROVE  /\ ModEntry(p).pair = p /\ ModEntry(p).is_mod = TRUE
         /\ CellEntry(p, i).pair = p /\ CellEntry(p, i).is_mod = FALSE
         /\ CellEntry(p, i).index = i
BY DEF ModEntry, CellEntry

(* What an entered pair of cells says of its two modules.                  *)
LEMMA CellEntryFacts ==
  ASSUME Given, NEW p \in Pair, NEW e \in CellEntries(p)
  PROVE  /\ e.pair = p /\ e.is_mod = FALSE
         /\ e.index \in PairedCells(p) /\ e = CellEntry(p, e.index)
         /\ Len(gold_cells(p)) = Len(gate_cells(p))
         /\ DOMAIN gold_cells(p) = DOMAIN gate_cells(p)
         /\ \A s \in Side : e.index \in DOMAIN cells[p][s]
         /\ kind = "mul" => PairedCells(p) = DOMAIN gold_cells(p)
         /\ \A j \in PairedCells(p) : CellEntry(p, j) \in CellEntries(p)
<1>1. /\ Len(gold_cells(p)) = Len(gate_cells(p))
      /\ kind = "mul" => PairedCells(p) = DOMAIN gold_cells(p)
      /\ CellEntries(p) = {CellEntry(p, i) : i \in PairedCells(p)}
  BY Zenon DEF CellEntries
<1>2. PICK i \in PairedCells(p) : e = CellEntry(p, i)
  BY <1>1
<1>3. e.pair = p /\ e.is_mod = FALSE /\ e.index = i
  BY <1>2 DEF CellEntry
<1>4. DOMAIN gold_cells(p) = DOMAIN gate_cells(p)
  BY <1>1, CellsAreSequences DEF gold_cells, gate_cells, Side
<1>5. i \in DOMAIN gold_cells(p)
  BY DEF PairedCells
<1>6. \A s \in Side : e.index \in DOMAIN cells[p][s]
  BY <1>3, <1>4, <1>5 DEF Side, gold_cells, gate_cells
<1> QED BY <1>1, <1>2, <1>3, <1>4, <1>6

(* The map and the cells decide what an entry is worth; a new entry takes  *)
(* nothing from the ones there are.                                        *)
LEMMA DesignKept ==
  ASSUME UNCHANGED design
  PROVE  /\ Given' = Given
         /\ \A p : Calls(p)' = Calls(p)
<1>1. \A p : CellEntries(p)' = CellEntries(p)
  BY DEF design, CellEntries, CellEntry, PairedCells, param_equal, gold_cells, gate_cells
<1> QED BY <1>1 DEF design, Given, Calls, BothMarked, NoneMarked, ModEntry

(* The modules to be verified, one entry at a time.                        *)
LEMMA ToCheckMod ==
  ASSUME NEW e \in entries, e.is_mod, NEW s \in Side
  PROVE  PairModule(e.pair, s) \in mod_to_check
BY DEF mod_to_check

LEMMA ToCheckCell ==
  ASSUME NEW e \in entries, ~e.is_mod, NEW s \in Side, cells[e.pair][s][e.index].impl # Internal
  PROVE  cells[e.pair][s][e.index].impl \in mod_to_check
<1> DEFINE Impls(x) == {cells[x.pair][t][x.index].impl : t \in Side} \ {Internal}
           FromCells == UNION {Impls(x) : x \in {y \in entries : ~y.is_mod}}
           FromMods == {PairModule(x.pair, t) : x \in {y \in entries : y.is_mod}, t \in Side}
<1>1. mod_to_check = FromMods \union FromCells
  BY DEF mod_to_check
<1>2. cells[e.pair][s][e.index].impl \in Impls(e)
  OBVIOUS
<1>3. cells[e.pair][s][e.index].impl \in FromCells
  BY <1>2
<1> HIDE DEF FromCells, FromMods
<1> QED BY <1>1, <1>3

(* An entry about a cell is one of the cell entries of its pair, and they  *)
(* are all there.                                                          *)
LEMMA CellEntryOf ==
  ASSUME Given, Entered, NEW e \in entries, ~e.is_mod
  PROVE  /\ e.pair \in Pair \ unmapped /\ NoneMarked(e.pair)
         /\ e \in CellEntries(e.pair) /\ CellEntries(e.pair) \subseteq entries
<1>1. PICK p \in Pair \ unmapped : e \in Calls(p)
  BY EnteredFacts
<1>2. ~BothMarked(p)
  BY <1>1, EntryFields DEF Calls
<1>3. NoneMarked(p) /\ Calls(p) = CellEntries(p)
  BY <1>1, <1>2 DEF Calls
<1>4. e.pair = p
  <2>1. p \in Pair /\ e \in CellEntries(p)
    BY <1>1, <1>3
  <2> QED BY <2>1, CellEntryFacts
<1>5. CellEntries(p) \subseteq entries
  BY <1>3, EnteredFacts
<1> QED BY <1>1, <1>3, <1>4, <1>5

LEMMA ModEntryOf ==
  ASSUME Given, Entered, NEW e \in entries, e.is_mod
  PROVE  e.pair \in Pair \ unmapped /\ BothMarked(e.pair)
<1>1. PICK p \in Pair \ unmapped : e \in Calls(p)
  BY EnteredFacts
<1>2. BothMarked(p) /\ e = ModEntry(p)
  BY <1>1, CellEntryFacts DEF Calls
<1> QED BY <1>1, <1>2, EntryFields

-----------------------------------------------------------------------------
(* One lemma per action: it preserves ExtractInv.                          *)

LEMMA InitExtractInv == Init => ExtractInv
<1> SUFFICES ASSUME Init PROVE ExtractInv
  OBVIOUS
<1>1. DOMAIN results = {} /\ results \in [DOMAIN results -> BOOLEAN]
  BY DEF Init
<1> QED BY <1>1 DEF Init, ExtractInv, Given, Entered, Progress

LEMMA MapPairStep ==
  ASSUME ExtractInv, NEW p \in unmapped, MapPair(p)
  PROVE  ExtractInv'
<1>0. Given /\ Entered /\ Progress
  BY DEF ExtractInv
<1>1. /\ pc = "map" /\ p \in Pair /\ unmapped' = unmapped \ {p}
      /\ pc' \in {"map", "check"} /\ (pc' # "map" => unmapped' = {})
      /\ UNCHANGED <<results, stubbed, blackbox>> /\ UNCHANGED design
  BY <1>0 DEF MapPair, Progress
<1>2. Given' /\ \A q : Calls(q)' = Calls(q)
  BY <1>0, <1>1, DesignKept
<1>3. entries' = entries \union Calls(p)
  BY DEF MapPair, Calls, BothMarked, NoneMarked
<1>4. Entered'
  <2>1. \A e : e \in entries' <=> \E q \in Pair \ unmapped' : e \in Calls(q)
    BY <1>0, <1>1, <1>3, EnteredFacts
  <2> QED BY <2>1, <1>2 DEF Entered
<1>5. Progress'
  BY <1>0, <1>1 DEF Progress
<1> QED BY <1>2, <1>4, <1>5 DEF ExtractInv

LEMMA CheckModuleStep ==
  ASSUME ExtractInv, NEW m \in mod_to_check, NEW ok \in BOOLEAN, CheckModule(m, ok)
  PROVE  ExtractInv'
<1>0. Given /\ Entered /\ Progress
  BY DEF ExtractInv
<1>1. /\ pc = "check" /\ pc' = "check"
      /\ results' = [n \in DOMAIN results \union {m} |-> IF n = m THEN ok ELSE results[n]]
      /\ UNCHANGED <<unmapped, entries, stubbed, blackbox>> /\ UNCHANGED design
  BY DEF CheckModule
<1>2. Given' /\ \A q : Calls(q)' = Calls(q)
  BY <1>0, <1>1, DesignKept
<1>3. Entered'
  BY <1>0, <1>1, <1>2 DEF Entered
<1>4. mod_to_check' = mod_to_check
  BY <1>1 DEF mod_to_check, design
<1>5. /\ DOMAIN results' = DOMAIN results \union {m}
      /\ results' \in [DOMAIN results' -> BOOLEAN]
  BY <1>0, <1>1 DEF Progress
<1>6. Progress'
  BY <1>0, <1>1, <1>4, <1>5 DEF Progress
<1> QED BY <1>2, <1>3, <1>6 DEF ExtractInv

LEMMA ExtractStep ==
  ASSUME ExtractInv, Extract
  PROVE  ExtractInv'
<1>0. Given /\ Entered /\ Progress
  BY DEF ExtractInv
<1>1. /\ pc = "check" /\ pc' = "done" /\ mod_to_check \subseteq DOMAIN results
      /\ stubbed' = CellPairs
      /\ blackbox' = {PairModule(e.pair, s) : e \in ModEntries, s \in Side}
      /\ UNCHANGED <<unmapped, entries, results>> /\ UNCHANGED design
  BY DEF Extract, CellPairs, ModEntries
<1>2. Given' /\ \A q : Calls(q)' = Calls(q)
  BY <1>0, <1>1, DesignKept
<1>3. Entered'
  BY <1>0, <1>1, <1>2 DEF Entered
<1>4. mod_to_check' = mod_to_check /\ CellPairs' = CellPairs /\ ModEntries' = ModEntries
  BY <1>1 DEF mod_to_check, design, CellPairs, ModEntries
<1>5. Progress'
  BY <1>0, <1>1, <1>4 DEF Progress, PairModule
<1> QED BY <1>2, <1>3, <1>5 DEF ExtractInv

LEMMA StutterStep ==
  ASSUME ExtractInv, UNCHANGED vars
  PROVE  ExtractInv'
<1>0. Given /\ Entered /\ Progress
  BY DEF ExtractInv
<1>1. UNCHANGED <<unmapped, entries, results, stubbed, blackbox, pc>> /\ UNCHANGED design
  BY DEF vars, design
<1>2. Given' /\ \A q : Calls(q)' = Calls(q)
  BY <1>0, <1>1, DesignKept
<1>3. Entered'
  BY <1>0, <1>1, <1>2 DEF Entered
<1>4. mod_to_check' = mod_to_check /\ CellPairs' = CellPairs /\ ModEntries' = ModEntries
  BY <1>1 DEF mod_to_check, design, CellPairs, ModEntries
<1>5. Progress'
  BY <1>0, <1>1, <1>4 DEF Progress, PairModule
<1> QED BY <1>2, <1>3, <1>5 DEF ExtractInv

LEMMA NextExtractInv == ExtractInv /\ [Next]_vars => ExtractInv'
<1> SUFFICES ASSUME ExtractInv, [Next]_vars PROVE ExtractInv'
  OBVIOUS
<1>1. CASE \E p \in unmapped : MapPair(p)
  BY <1>1, MapPairStep
<1>2. CASE \E m \in mod_to_check, ok \in BOOLEAN : CheckModule(m, ok)
  BY <1>2, CheckModuleStep
<1>3. CASE Extract
  BY <1>3, ExtractStep
<1>4. CASE UNCHANGED vars
  BY <1>4, StutterStep
<1> QED BY <1>1, <1>2, <1>3, <1>4 DEF Next, Done

(* ExtractInv holds in every reachable state of either extraction.         *)
THEOREM ExtractInvariant == Spec => []ExtractInv
BY InitExtractInv, NextExtractInv, PTL DEF Spec

-----------------------------------------------------------------------------
(* A pair whose cells became stubs: all cells it paired have an entry.     *)
LEMMA StubbedPair ==
  ASSUME ExtractInv, NEW p \in CellPairs
  PROVE  /\ p \in Pair /\ CellEntries(p) \subseteq entries
         /\ \E e \in entries : ~e.is_mod /\ e \in CellEntries(p)
         /\ Len(gold_cells(p)) = Len(gate_cells(p))
         /\ DOMAIN gold_cells(p) = DOMAIN gate_cells(p)
         /\ \E i : i \in DOMAIN gold_cells(p)
         /\ kind = "mul" => PairedCells(p) = DOMAIN gold_cells(p)
         /\ \A j \in PairedCells(p) : CellEntry(p, j) \in entries
<1>0. Given /\ Entered
  BY DEF ExtractInv
<1>1. PICK e \in entries : ~e.is_mod /\ e.pair = p
  BY DEF CellPairs
<1>2. p \in Pair /\ e \in CellEntries(p) /\ CellEntries(p) \subseteq entries
  BY <1>0, <1>1, CellEntryOf
<1>3. /\ Len(gold_cells(p)) = Len(gate_cells(p))
      /\ DOMAIN gold_cells(p) = DOMAIN gate_cells(p)
      /\ e.index \in PairedCells(p)
      /\ kind = "mul" => PairedCells(p) = DOMAIN gold_cells(p)
      /\ \A j \in PairedCells(p) : CellEntry(p, j) \in CellEntries(p)
  BY <1>0, <1>2, CellEntryFacts
<1>4. e.index \in DOMAIN gold_cells(p)
  BY <1>3 DEF PairedCells
<1> QED BY <1>1, <1>2, <1>3, <1>4

(* A module that became a black box is one of a pair of arithmetic modules.*)
LEMMA BoxedModule ==
  ASSUME ExtractInv, pc = "done", NEW m
  PROVE  m \in blackbox <=>
           \E e \in entries : \E s \in Side : e.is_mod /\ m = PairModule(e.pair, s)
<1>1. blackbox = {PairModule(e.pair, s) : e \in ModEntries, s \in Side}
  BY DEF ExtractInv, Progress
<1> QED BY <1>1 DEF ModEntries

(* The maps, verdicts and hidden modules keep their types.                 *)
THEOREM ExtractTypeCorrect == Spec => []TypeOK
<1>1. ExtractInv => TypeOK
  <2> SUFFICES ASSUME ExtractInv PROVE TypeOK
    OBVIOUS
  <2>0. Given /\ Entered /\ Progress
    BY DEF ExtractInv
  <2>1. ASSUME NEW e \in entries
        PROVE  /\ e.pair \in Pair \ unmapped
               /\ ~e.is_mod => \A s \in Side : e.index \in DOMAIN cells[e.pair][s]
    <3>1. CASE e.is_mod
      BY <2>0, <3>1, ModEntryOf
    <3>2. CASE ~e.is_mod
      BY <2>0, <3>2, CellEntryOf, CellEntryFacts
    <3> QED BY <3>1, <3>2
  <2>2. stubbed \subseteq Pair
    BY <2>0, StubbedPair DEF Progress
  <2>3. blackbox \subseteq Pair \X Side
    <3>1. CASE pc = "done"
      <4>1. ASSUME NEW m \in blackbox PROVE m \in Pair \X Side
        <5>1. PICK e \in entries, s \in Side : e.is_mod /\ m = PairModule(e.pair, s)
          BY <3>1, BoxedModule
        <5> QED BY <2>1, <5>1 DEF PairModule
      <4> QED BY <4>1
    <3>2. CASE pc # "done"
      BY <2>0, <3>2 DEF Progress
    <3> QED BY <3>1, <3>2
  <2> QED BY <2>0, <2>1, <2>2, <2>3 DEF TypeOK, Given, Progress
<1> QED BY <1>1, ExtractInvariant, PTL

(* No arithmetic module disappears behind a stub or a black box without a  *)
(* verdict of the external verifier.                                       *)
THEOREM NothingHiddenCorrect == Spec => []NothingUnverifiedIsHidden
<1>1. ExtractInv => NothingUnverifiedIsHidden
  <2> SUFFICES ASSUME ExtractInv, pc = "done",
                      kind = "mul" \/ \A p \in stubbed : PairedCells(p) = DOMAIN gold_cells(p),
                      NEW m \in StubbedModules \union blackbox
               PROVE  m \in DOMAIN results
    BY DEF NothingUnverifiedIsHidden
  <2>0. mod_to_check \subseteq DOMAIN results /\ stubbed = CellPairs
    BY DEF ExtractInv, Progress
  <2>1. CASE m \in blackbox
    BY <2>0, <2>1, BoxedModule, ToCheckMod
  <2>2. CASE m \in StubbedModules
    <3>0. PICK p \in stubbed, s \in Side :
            \E j \in DOMAIN cells[p][s] : m = cells[p][s][j].impl /\ m # Internal
      BY <2>2 DEF StubbedModules
    <3>1. PICK i \in DOMAIN cells[p][s] : m = cells[p][s][i].impl /\ m # Internal
      BY <3>0
    <3>2. /\ DOMAIN gold_cells(p) = DOMAIN gate_cells(p)
          /\ PairedCells(p) = DOMAIN gold_cells(p)
          /\ \A j \in PairedCells(p) : CellEntry(p, j) \in entries
      BY <2>0, StubbedPair
    <3>3. i \in PairedCells(p)
      BY <3>2 DEF Side, gold_cells, gate_cells
    <3>4. CellEntry(p, i) \in entries
      BY <3>2, <3>3
    <3>5. CellEntry(p, i).pair = p /\ ~CellEntry(p, i).is_mod /\ CellEntry(p, i).index = i
      BY DEF CellEntry
    <3>6. m \in mod_to_check
      BY <3>1, <3>4, <3>5, ToCheckCell
    <3> QED BY <2>0, <3>6
  <2> QED BY <2>1, <2>2
<1> QED BY <1>1, ExtractInvariant, PTL

(* A multiplier stub always faces one of its own sign and width.           *)
THEOREM MultipliersCorrect == Spec => []MultipliersAgree
<1>1. ExtractInv => MultipliersAgree
  <2> SUFFICES ASSUME ExtractInv, kind = "mul", pc = "done", NEW p \in stubbed
               PROVE  /\ Len(gold_cells(p)) = Len(gate_cells(p))
                      /\ \A i \in DOMAIN gold_cells(p) : param_equal(p, i)
    BY DEF MultipliersAgree, MismatchedPairIsSkipped
  <2>1. p \in CellPairs
    BY DEF ExtractInv, Progress
  <2>2. /\ p \in Pair /\ Len(gold_cells(p)) = Len(gate_cells(p))
        /\ PairedCells(p) = DOMAIN gold_cells(p)
    BY <2>1, StubbedPair
  <2>3. DOMAIN gold_cells(p) = 1..Len(gold_cells(p)) /\ Len(gold_cells(p)) \in Nat
    BY <2>2, CellsAreSequences DEF ExtractInv, gold_cells, Side
  <2>4. ASSUME NEW i \in DOMAIN gold_cells(p) PROVE param_equal(p, i)
    <3>1. i \in PairedCells(p) /\ i \in 1..i
      BY <2>2, <2>3
    <3> QED BY <3>1 DEF PairedCells
  <2> QED BY <2>2, <2>4
<1> QED BY <1>1, ExtractInvariant, PTL

(* Stubs face stubs and black boxes face black boxes.                      *)
THEOREM SidesChangeCorrect == Spec => []SidesChangeTogether
<1>1. ExtractInv => SidesChangeTogether
  <2> SUFFICES ASSUME ExtractInv, pc = "done"
               PROVE  /\ \A p \in stubbed : /\ Len(gold_cells(p)) = Len(gate_cells(p))
                                            /\ gold_cells(p) # <<>>
                      /\ \A p \in Pair : PairModule(p, "gold") \in blackbox
                                           <=> PairModule(p, "gate") \in blackbox
    BY DEF SidesChangeTogether
  <2>1. ASSUME NEW p \in stubbed
        PROVE  Len(gold_cells(p)) = Len(gate_cells(p)) /\ gold_cells(p) # <<>>
    <3>1. p \in CellPairs
      BY DEF ExtractInv, Progress
    <3>2. DOMAIN gold_cells(p) # {}
      BY <3>1, StubbedPair
    <3>3. DOMAIN <<>> = {}
      OBVIOUS
    <3> QED BY <3>1, <3>2, <3>3, StubbedPair
  <2>2. ASSUME NEW p \in Pair, NEW s \in Side, NEW t \in Side, PairModule(p, s) \in blackbox
        PROVE  PairModule(p, t) \in blackbox
    <3>1. PICK e \in entries, u \in Side : e.is_mod /\ PairModule(p, s) = PairModule(e.pair, u)
      BY <2>2, BoxedModule
    <3>2. PairModule(p, t) = PairModule(e.pair, t)
      BY <3>1 DEF PairModule
    <3> QED BY <3>1, <3>2, BoxedModule
  <2> QED BY <2>1, <2>2 DEF Side
<1> QED BY <1>1, ExtractInvariant, PTL

(* The pairs of arithmetic modules and the pairs of ordinary modules that  *)
(* have cells to extract.                                                  *)
ArithPairs == {p \in Pair : BothMarked(p)}
ExtractedPairs == {p \in Pair : NoneMarked(p) /\ CellEntries(p) # {}}

(* What is hidden is a function of the design alone, however the pairs and *)
(* the modules were ordered and whatever the verifier said: the modules of *)
(* every pair marked on both sides become black boxes, as GuideCheck       *)
(* assumes with MarkedModules, and the cells of every unmarked pair with   *)
(* cell entries become stubs.                                              *)
ResultIsDetermined ==
  pc = "done" => /\ blackbox = ArithPairs \X Side
                 /\ stubbed = ExtractedPairs
                 /\ blackbox \subseteq DOMAIN results

THEOREM ExtractionIsDetermined == Spec => []ResultIsDetermined
<1>1. ExtractInv => ResultIsDetermined
  <2> SUFFICES ASSUME ExtractInv, pc = "done"
               PROVE  /\ blackbox = ArithPairs \X Side
                      /\ stubbed = ExtractedPairs
                      /\ blackbox \subseteq DOMAIN results
    BY DEF ResultIsDetermined
  <2>0. /\ Given /\ Entered /\ unmapped = {} /\ stubbed = CellPairs
        /\ mod_to_check \subseteq DOMAIN results
    BY DEF ExtractInv, Progress
  <2>1. ASSUME NEW m \in blackbox PROVE m \in ArithPairs \X Side /\ m \in DOMAIN results
    <3>1. PICK e \in entries, s \in Side : e.is_mod /\ m = PairModule(e.pair, s)
      BY BoxedModule
    <3>2. e.pair \in ArithPairs
      BY <2>0, <3>1, ModEntryOf DEF ArithPairs
    <3>3. m \in mod_to_check
      BY <3>1, ToCheckMod
    <3> QED BY <2>0, <3>1, <3>2, <3>3 DEF PairModule
  <2>2. ASSUME NEW p \in ArithPairs, NEW s \in Side PROVE <<p, s>> \in blackbox
    <3>1. p \in Pair \ unmapped /\ ModEntry(p) \in Calls(p)
      BY <2>0 DEF ArithPairs, Calls
    <3>2. ModEntry(p) \in entries
      BY <2>0, <3>1, EnteredFacts
    <3>3. ModEntry(p).is_mod /\ ModEntry(p).pair = p
      BY EntryFields
    <3> QED BY <3>2, <3>3, BoxedModule DEF PairModule
  <2>3. ASSUME NEW p \in stubbed PROVE p \in ExtractedPairs
    <3>1. PICK e \in entries : ~e.is_mod /\ e.pair = p
      BY <2>0 DEF CellPairs
    <3> QED BY <2>0, <3>1, CellEntryOf DEF ExtractedPairs
  <2>4. ASSUME NEW p \in ExtractedPairs PROVE p \in stubbed
    <3>1. PICK e \in CellEntries(p) : p \in Pair \ unmapped /\ NoneMarked(p) /\ ~BothMarked(p)
      BY <2>0 DEF ExtractedPairs, NoneMarked, BothMarked
    <3>2. e \in entries
      BY <2>0, <3>1, EnteredFacts DEF Calls
    <3>3. e.pair = p /\ ~e.is_mod
      BY <2>0, <3>1, CellEntryFacts
    <3> QED BY <2>0, <3>2, <3>3 DEF CellPairs
  <2>5. blackbox = ArithPairs \X Side
    BY <2>1, <2>2
  <2>6. stubbed = ExtractedPairs
    BY <2>3, <2>4
  <2> QED BY <2>1, <2>5, <2>6
<1> QED BY <1>1, ExtractInvariant, PTL
=============================================================================
