---------------------------- MODULE ArithExtract ----------------------------
(***************************************************************************)
(* Multipliers (retime_multi.cc) and dividers (div_check.cc) are taken out *)
(* of the equivalence check: get_multi_map / get_div_map pair the          *)
(* arithmetic cells of each mapped module pair, check_extract_multi /      *)
(* check_extract_div have an external tool verify the arithmetic modules,  *)
(* replace the cells by stubs and turn arithmetic modules into black boxes.*)
(* The two passes have the same shape; kind says which one is running.     *)
(*                                                                         *)
(* A module pair is a pair of arithmetic modules, or its two sides have    *)
(* arithmetic cells.  A cell is internal ($mul, $div) or an instance of an *)
(* arithmetic module; its parameter stands for (sign, width).  The cells   *)
(* inside a marked module are never looked at.                             *)
(***************************************************************************)
EXTENDS Naturals, Sequences

CONSTANTS
  Pair,          \* the module pairs of mod_map_gold
  Param,         \* (sign, width), ordered
  Impl,          \* arithmetic modules that cells are instances of
  ImplParam,     \* their (sign, width)
  MaxCells       \* bound on the arithmetic cells of a module

ASSUME ParamAssumption == Param \subseteq Nat \ {0}
ASSUME ImplAssumption == ImplParam \in [Impl -> Param]
ASSUME MaxCellsAssumption == MaxCells \in Nat

Internal == "internal"
Side == {"gold", "gate"}

VARIABLES
  kind,          \* "mul" or "div"
  arith,         \* the parameter of a module marked multiplier/divider, 0 if unmarked
  cells,         \* the arithmetic cells of each module, sorted by parameter
  unmapped,      \* module pairs get_*_map has not come to yet
  entries,       \* the MultiMap / DivMap
  results,       \* verdict of each arithmetic module checked so far
  stubbed,       \* module pairs whose cells were replaced by stubs
  blackbox,      \* modules that became black boxes
  pc

vars == <<kind, arith, cells, unmapped, entries, results, stubbed, blackbox, pc>>
design == <<kind, arith, cells>>

Cell == {c \in [param : Param, impl : Impl \union {Internal}] :
           c.impl # Internal => c.param = ImplParam[c.impl]}

(* std::sort by (sign, width): any order among equal parameters.           *)
SortedCells ==
  {q \in UNION {[1..n -> Cell] : n \in 0..MaxCells} :
     \A i, j \in DOMAIN q : i < j => q[i].param <= q[j].param}

Init ==
  /\ kind \in {"mul", "div"}
  /\ arith \in [Pair -> [Side -> Param \union {0}]]
  /\ cells \in [Pair -> [Side -> SortedCells]]
  /\ \A p \in Pair, s \in Side : arith[p][s] # 0 => cells[p][s] = <<>>
  /\ unmapped = Pair
  /\ entries = {}
  /\ results = [m \in {} |-> FALSE]
  /\ stubbed = {}
  /\ blackbox = {}
  /\ pc = "map"

-----------------------------------------------------------------------------
gold_cells(p) == cells[p]["gold"]
gate_cells(p) == cells[p]["gate"]

ModEntry(p) == [pair |-> p, is_mod |-> TRUE, index |-> 0]
CellEntry(p, i) == [pair |-> p, is_mod |-> FALSE, index |-> i]

param_equal(p, i) == gold_cells(p)[i].param = gate_cells(p)[i].param

(* The cells are paired in order up to the first pair that differs.        *)
PairedCells(p) ==
  {i \in DOMAIN gold_cells(p) : \A j \in 1..i : param_equal(p, j)}

(* What one module pair adds to the map.  get_multi_map drops the pairs of *)
(* a module in which two cells differ; get_div_map has already pushed the  *)
(* ones before.                                                            *)
CellEntriesNoTest(p) ==      \* mutant: the parameters are not compared
  IF Len(gold_cells(p)) = Len(gate_cells(p))
  THEN {CellEntry(p, i) : i \in DOMAIN gold_cells(p)} ELSE {}

CellEntriesNoCount(p) ==     \* mutant: the numbers of cells are not compared
  {CellEntry(p, i) : i \in DOMAIN gold_cells(p)}

CellEntries(p) ==
  IF \/ Len(gold_cells(p)) # Len(gate_cells(p))
     \/ kind = "mul" /\ PairedCells(p) # DOMAIN gold_cells(p)
  THEN {}
  ELSE {CellEntry(p, i) : i \in PairedCells(p)}

MapPair(p) ==
  /\ pc = "map"
  /\ p \in unmapped
  /\ unmapped' = unmapped \ {p}
  /\ entries' = entries \union
       (IF arith[p]["gold"] # 0 \/ arith[p]["gate"] # 0
        THEN IF arith[p]["gold"] # 0 /\ arith[p]["gate"] # 0 THEN {ModEntry(p)} ELSE {}
        ELSE CellEntries(p))
  /\ pc' = IF unmapped' = {} THEN "check" ELSE "map"
  /\ UNCHANGED <<design, results, stubbed, blackbox>>

-----------------------------------------------------------------------------
(* A module of a pair, or one that cells are instances of.                 *)
PairModule(p, s) == <<p, s>>

mod_to_checkGoldOnly ==      \* mutant: the gate cell's module is not checked
  {PairModule(e.pair, s) : e \in {x \in entries : x.is_mod}, s \in Side}
    \union {gold_cells(e.pair)[e.index].impl :
              e \in {x \in entries : ~x.is_mod /\ gold_cells(x.pair)[x.index].impl # Internal}}

mod_to_check ==
  {PairModule(e.pair, s) : e \in {x \in entries : x.is_mod}, s \in Side}
    \union UNION {{cells[e.pair][s][e.index].impl : s \in Side} \ {Internal} :
                    e \in {x \in entries : ~x.is_mod}}

(* check_multi / check_div: the external verifier has its say; a failure   *)
(* does not end the pass.                                                  *)
CheckModule(m, ok) ==
  /\ pc = "check"
  /\ m \in mod_to_check
  /\ m \notin DOMAIN results
  /\ results' = [n \in DOMAIN results \union {m} |-> IF n = m THEN ok ELSE results[n]]
  /\ UNCHANGED <<design, unmapped, entries, stubbed, blackbox, pc>>

ExtractCheckedOnly ==        \* mutant: failed arithmetic modules stay ordinary modules
  /\ pc = "check"
  /\ mod_to_check \subseteq DOMAIN results
  /\ stubbed' = {e.pair : e \in {x \in entries : ~x.is_mod}}
  /\ blackbox' = {m \in {PairModule(e.pair, s) : e \in {x \in entries : x.is_mod}, s \in Side} :
                    results[m]}
  /\ pc' = "done"
  /\ UNCHANGED <<design, unmapped, entries, results>>

(* All arithmetic cells of a module with an entry become stubs, whether    *)
(* they have an entry or not; pairs of arithmetic modules become boxes.    *)
Extract ==
  /\ pc = "check"
  /\ mod_to_check \subseteq DOMAIN results
  /\ stubbed' = {e.pair : e \in {x \in entries : ~x.is_mod}}
  /\ blackbox' = {PairModule(e.pair, s) : e \in {x \in entries : x.is_mod}, s \in Side}
  /\ pc' = "done"
  /\ UNCHANGED <<design, unmapped, entries, results>>

Done == pc = "done" /\ UNCHANGED vars

Next ==
  \/ \E p \in unmapped : MapPair(p)
  \/ \E m \in mod_to_check, ok \in BOOLEAN : CheckModule(m, ok)
  \/ Extract
  \/ Done

Spec == Init /\ [][Next]_vars

-----------------------------------------------------------------------------
TypeOK ==
  /\ kind \in {"mul", "div"}
  /\ unmapped \subseteq Pair
  /\ \A e \in entries : /\ e.pair \in Pair \ unmapped
                        /\ ~e.is_mod => \A s \in Side : e.index \in DOMAIN cells[e.pair][s]
  /\ results \in [DOMAIN results -> BOOLEAN]
  /\ DOMAIN results \subseteq mod_to_check
  /\ stubbed \subseteq Pair
  /\ blackbox \subseteq Pair \X Side
  /\ pc \in {"map", "check", "done"}

(* multi_result / div_result of guide_check.                               *)
Passed == \A m \in DOMAIN results : results[m]

StubbedModules ==
  (UNION {UNION {{cells[p][s][i].impl : i \in DOMAIN cells[p][s]} : s \in Side} : p \in stubbed})
    \ {Internal}

(* The check that follows sees stubs and black boxes in place of the       *)
(* arithmetic modules, so each multiplier was verified if the pass reports *)
(* success: nothing unverified disappears from the design.  (The stubs of  *)
(* a divider pair that should have been skipped are the exception, see     *)
(* MismatchedPairIsSkipped.)                                               *)
NothingUnverifiedIsHidden ==
  /\ pc = "done" /\ Passed
  /\ kind = "mul" \/ \A p \in stubbed : PairedCells(p) = DOMAIN gold_cells(p)
  =>
    \A m \in StubbedModules \union blackbox : m \in DOMAIN results

(* Two modules whose arithmetic cells differ in number or in a parameter   *)
(* are skipped ("Skip this two module!", "Divider parameter mismatch ...   *)
(* Skip!"): a stub on one side always faces one of its own sign and width. *)
(* get_div_map only leaves the loop over the cells and keeps the           *)
(* entries made before the mismatch, so for dividers this does not hold.   *)
MismatchedPairIsSkipped ==
  pc = "done" =>
    \A p \in stubbed : /\ Len(gold_cells(p)) = Len(gate_cells(p))
                       /\ \A i \in DOMAIN gold_cells(p) : param_equal(p, i)

(* For multipliers it holds: get_multi_map enters the cells of a pair only *)
(* after all of them were compared.                                        *)
MultipliersAgree == kind = "mul" => MismatchedPairIsSkipped

(* The cells of one side never become stubs while their number on the      *)
(* other side is a different one, and a black box always faces another.    *)
SidesChangeTogether ==
  pc = "done" =>
    /\ \A p \in stubbed : Len(gold_cells(p)) = Len(gate_cells(p)) /\ gold_cells(p) # <<>>
    /\ \A p \in Pair : PairModule(p, "gold") \in blackbox <=> PairModule(p, "gate") \in blackbox
=============================================================================
