# A TLA+ development for guide_check

`guide_check` (`passes/guide/` in the source tree) decides whether a gold and
a gate version of a hierarchical design are equivalent. It is a Yosys pass
that pairs the modules of the two sides, verifies arithmetic and retimed
modules with tools of their own and hides them, matches the signals of each
pair, lets ABC prove the pairs one by one, and reports a single verdict. The
verdict rests on many small bookkeeping steps: a module on the wrong list, a
stub on one side only, a rule that stops a plan one run too early changes
"not proved" into "PASSED" or the other way round, and only for particular
sequences of tool answers or particular shapes of the hierarchy. This project
models those steps, and the two places under the pass where threads and
solvers decide (the driver of ABC processes, bounded model checking with
induction), checks them with TLC and proves the central ones with TLAPS.

## 1. The system

| Component | Source | State it keeps | Operations |
|---|---|---|---|
| guide_check pass | `guide_check.cc` | result lists and flags, the working copy of the design, the temporary directory, telemetry | `execute`, `abc_cec`, `report` |
| Module pairing | `check/core.cc` (`hier_mod_map`) | `ModMap`: two dictionaries, four pools | scan of both sides, external lines, greedy fallback |
| ABC plan | `check/core.cc` (`run_abc_plan`, `abc_cec_module`) | previous and last result, trace, packet, sample | skip, run or abort an action |
| Arithmetic extraction | `check/retime_multi.cc`, `check/div_check.cc` | entries of `MultiMap` / `DivMap`, modules to check, to rewrite, to hide | `get_*_map`, `check_extract_*`, the xor stubs |
| Retiming check | `check/retime_multi.cc` | pairs of retimed modules | `check_retime`, `check_extract_retime` |
| Signal matching | `check/match.cc` | cut points, match files, counts, suggestions | by name, by external file, by suggestion, dump |
| Partition and local validation | `check/region.cc` | a cut copy of one module pair and its audit | `partition_module`, `refine_shell_closure`, `validate_partition_pair` |
| Command execution, failure packets | `check/fail_exec.cc` | log files, packets, hints | `exec_cmd`, `emit_failure_packet` |
| Models | `check/scheduler.cc` | trees of a learned model | load, predict |
| BMC / induction | `check/core.cc`, `backends/smt2/smtbmc.py` | time step and asserted frames of the solver | `bmcinduct_check` |
| Marking passes | `guide_multi.cc`, `guide_div.cc`, `guide_retime.cc` | attributes of the design | wrap and mark |
| Design chain | `guide_design.cc`, `guide_design_check.cc` | list of design names | register, check consecutive designs |
| abc pass, threaded driver | `passes/techmap/abc.cc` | work and result queues, idle ABC processes, results by index | prepare, run, integrate, join |
| Kernel queues and threads | `kernel/threading.h` | queue, condition variables | push, pop, close |

`guide_check` itself runs in one thread. What makes it hard is not concurrency
but distance: the module map is made once and used by stages that have
rewritten the design in between; `abc_cec` searches its pairs anew; the
suggestions of one run are applied in another, after passes that rename
signals; a local proof assumes what it is to show; external tools (ABC,
amulet, divVerify, smtbmc) may answer anything, fail, or end the pass; hash
pools are visited in no particular order.

The synthesis passes under it are threaded: the `abc` pass runs the clock
domains of a module on worker threads. There the hard part is the usual one:
two blocking queues between the threads, a shared stack of child processes,
pipes that other children may inherit, results that come in any order and are
integrated in the order of the domains, and processes that die at any time.
The full list of hazards, each at its line and with the properties that cover
it, is under `hazards` in `PROJECT.json`.

What makes each component correct:

* **pass**: PASSED only if every equally named pair was proved by some engine;
  report, `-assert` and cleanup agree.
* **pairing**: the map is one-to-one, complete, maximal, never revised, and
  contains whatever `abc_cec` will find later.
* **plan**: the verdict depends on the answers of ABC alone and not on the
  order of the plan, except where the rules say so; the audited run is the one
  that proved the pair; packets and samples tell what happened.
* **extraction**: nothing that was not verified is hidden; both sides of a
  pair change together; stubs do not identify different functions.
* **matching**: one partner per signal; the files and the counts agree with the
  cut points.
* **local validation**: registers accepted as authoritative, or by a strict
  fallback without `-skip`, agree in every cycle if they do initially and the
  children of the modules always do; those accepted by any fallback do not part
  after `k_induct` cycles of agreement.
* **BMC and induction**: a pass promises agreement from the first checked
  cycle on (strict) or that modules that agree for K cycles never diverge
  (weak).
* **abc driver**: every domain is run once and integrated in order; no wakeup
  is lost, no missing result is used, and the pass ends.

## 2. Modules

| Module | Models | Extends |
|---|---|---|
| `AbcPlan` | one call of `abc_cec_module` | |
| `PairProof` | what a call of `abc_cec_module` promises (abstract) | |
| `AbcPlan_proofs` | theorems, refinement of `PairProof` | `AbcPlan`, `TLAPS` |
| `HierModMap` | `hier_mod_map` and the pair search of `abc_cec` | |
| `HierModMap_proofs` | its theorems | `HierModMap`, `TLAPS` |
| `ArithExtract` | multiplier and divider maps and extraction | |
| `ArithExtract_proofs` | its theorems | `ArithExtract`, `TLAPS` |
| `XorStub` | what a stub computes, on operands of two bits | |
| `MatchSignals` | `match_signals_module` on one pair of modules | |
| `MatchSignals_proofs` | its theorems | `MatchSignals`, `TLAPS` |
| `LocalCut` | `validate_partition_pair`, and the modules in operation after it | |
| `LocalCut_proofs` | its theorems | `LocalCut`, `TLAPS` |
| `BmcInduct` | `bmcinduct_check` with the loops of smtbmc, and the modules in operation after it | |
| `BmcInduct_proofs` | its theorems | `BmcInduct`, `TLAPS` |
| `ConcurrentQueue` | the blocking queue of `kernel/threading.h` | |
| `AbcPool` | the threaded driver of the `abc` pass | instances of `ConcurrentQueue` |
| `Pipeline` | what the driver promises (abstract) | |
| `AbcPool_proofs` | theorems, refinement of `Pipeline` | `AbcPool`, `TLAPS` |
| `GuideCheck` | `execute`, from the parsed arguments to the verdict | `HierModMap` |
| `GuideCheck_proofs` | its theorems | `GuideCheck`, `HierModMap_proofs` |
| `MC*` | constants and symmetry for TLC | the module named |

Variables and actions keep the names of the code. An operator named as a
mutant in a comment is a deliberately wrong variant of the definition that
follows it; no specification uses it, it documents which error a property
would detect.

**AbcPlan.** The plan is a sequence of the four actions `cec`/`dsec` with and
without the name map; the heuristic plan is fixed, a learned one is any order
of the predicted costs. Each step of the walk is `SkipAction` (the rules of
`run_abc_plan`), `RunAction` (any result code ABC can return, including a
tolerated tool error) or `AbortAction` (a tool error of a fatal call);
`Finish` writes the failure packet and the scheduler sample. The two callers
(the `abc_cec` pass, which passes its own options on and stops at a tool error,
and local validation, which clears the dump and model options and tolerates
tool errors) differ in `CallerConf` and `LocalConf`. `PairProof` is the same call without a
plan: engines are asked, each once, and a verdict is given. The mapping hides
the position, the skipping rules and what is written; an executed action is an
`Ask`, `Finish` is `Decide`, an abort is `GiveUp`.

**HierModMap.** A module name is a side and a base name; the base `Root` is an
unprefixed top. The design, the signatures and the tops are chosen initially,
so a behaviour is one execution of `hier_mod_map`. The stages are actions; the
external file is any sequence of up to `MaxLines` usable lines; the fallback
takes one gold module at a time, in any order.

**ArithExtract / XorStub.** A set of pairs of modules with up to `MaxCells`
arithmetic cells a side, each cell internal or an instance of an arithmetic module, with its sign and
width as one parameter; the external verifier's verdict on a module is any.
The variable `kind` selects multipliers or dividers, the two variants of the
source. `XorStub` evaluates the stub and the cell for all operand choices on
small words.

**MatchSignals.** One call for one pair of modules. The two signal tables are
any assignment of match types to names; an external pair and an item of the
suggestion file are steps. `validate_partition_pair` may accept or reject any
register candidate: nothing is assumed of it here, `LocalCut` says what an
acceptance is worth. The dump computes scores, samples and suggestions;
`score_margin` drops the half a double may have.

**LocalCut.** Two modules, each a next-state function over its registers. A
suggestion is validated by cutting both at the registers matched so far and at
the candidate: the outputs of the cut registers become inputs both sides
share, their next values the outputs that are compared. The children of the
modules are removed as well: their outputs are inputs both sides share
(`LocalCycle`), and what the modules feed into them is compared by nobody. What
a proof by ABC with a clean audit means is stated without naming a cycle:
`dsec` has a closed set of residual states with equal compared outputs, `cec`
has a pairing of the residual registers whose next values are equal, and does
not look at initial values (`paired` keeps it). A proof that fails the audit
may mean nothing (`ValidateUnaudited`); the caller accepts it all the same. The
fallback is the two queries of `bmcinduct_check` over paths of the cut modules,
with the mode, `-k` and `-skip` of the caller. `Start` and `Clock` then run the
two modules, uncut and each with its own children, and the properties speak of
what they do; `children_agreed` and `streak` record the run.

**BmcInduct.** The miter is any total transition relation with initial states
and a set of states in which the outputs agree. The two loops of smtbmc are
stepped as the script does, with the set of states that satisfy the query as
`front`: forwards from the initial states, and backwards from a disagreement.
`-k` and `-skip` are any integers from -1 on, because they are read with `atoi`
and never tested. `Execute` runs a pair that passed. `-noinit` needs no case of
its own: the initial states are any set, all states included. `BmcInduct` has
the loops behind the two queries that `LocalCut` takes as formulas.

**ConcurrentQueue / AbcPool / Pipeline.** A queue is its contents, its
capacity and the two sets of waiters; `notify_one` wakes any one waiter, and
a wakeup may come for no reason. `AbcPool` instantiates it twice, for the work
(bounded by the number of workers, closed at the end) and for the results
(unbounded). Thread 0 is the main thread, with one program location per
blocking point; a run of ABC is the same sequence of actions on a worker and,
on a machine without a core to spare, on the main thread. A process is named
after the job it was started for; `holders` says which other processes have
inherited its ends of its pipes between `OpenPipes` and `Fork`; that the parent
closes the child's ends only after `posix_spawn` is part of `Fork`, which makes
the window of the leak a little shorter than it is. Files, pipes
and processes fail at every point where the code tests for it. `Pipeline` is
the same without threads, queues or processes.

**GuideCheck.** `execute` as a sequence of stages over the steps of
`HierModMap`, with marked, retimed and opaque modules in the design. The
verdict of ABC for a pair is nondeterministic (or a fatal error), which is
`PairProof` in one step; `AbcPlan` is the detailed view of it, `ArithExtract`
of the extraction of cells. That all pairs marked on both sides become black
boxes, whatever the verifiers say, is `MarkedModules` here and the theorem
`ExtractionIsDetermined` there. Two properties carry the condition `SidesKept`:
the external match file names a gold module first and a gate module second.

## 3. Runs

| Run | Question | Bounds |
|---|---|---|
| `abc_plan` | Do walk, packet, sample and verdict agree with a reference that does not walk the plan? | none but a set of ordered costs; all plans and answers |
| `hier_mod_map` | Is the map one-to-one, complete, maximal, final, and a superset of what `abc_cec` proves? | 3 base names, 2 signatures, 2 external lines |
| `extract` | What may become a stub or a black box? | 2 pairs of modules, 2 cells a side |
| `match_signals` | Is the matching one-to-one and consistent with the files and the counts? | 3 names a side, 2 external pairs, 2 items |
| `guide_check` | Does PASSED mean proved, and do report, `-assert` and cleanup agree? | 2 base names, 1 external line, all markings and answers |
| `local_cut` | Do registers accepted by a local proof agree when the modules run? | 2 registers a side, a child with one output, 3 gold modules, 10 gate modules up to symmetry, any earlier matching and initial values, 2 suggestions, `-k` 1, `-skip` 0 and 1 |
| `bmc_induct` | What does a pass of the sequential check promise? | 3 states, `-k` up to 3, `-skip` up to 2, 4 cycles |
| `abc_pool` | Does the driver keep its order, lose no wakeup, use no missing result, and end? | 3 domains, 3 cores |

The bounds are the smallest at which the interesting cases occur. Two modules
competing for one partner need two bases besides the top, hence three; an
external line that names a module already taken by an earlier line needs two
lines; a partial mismatch needs two cells a side; a second register suggestion
proved on the ground of the first needs two items and two names on each side
that the other does not have, and a rival candidate needs two on the gate
side. A circular local proof needs two registers a side, one assumed and one
to be shown; the gold module latches, inverts around a loop, or takes a child's
output in, and each gate register has one of four such functions, so that the
two sides may be alike, alike after a cycle, or never. With `-k` 1 and `-skip` 1
the base case is empty. Outputs that differ, agree and differ again
need three states of a miter, and `-k` 3 with `-skip` 2 leaves a bounded check
shorter than the induction. A second worker waiting while another is woken
needs two workers and a third domain, hence three cores and three domains;
three domains on four cores and four on three were checked too, with the same
result. Symmetry is used for names, signatures, states and registers, which
the specifications never distinguish; no liveness property is checked with it.

Terminated states stutter by an explicit action (`Done`, `Terminated`), so
deadlock checking stays on; `LocalCut` never ends, as its modules keep running.

Fairness is assumed in `AbcPool` alone, where something must eventually
happen: weak fairness of the main thread and of each worker, since the
operating system runs every thread that can run, and a thread that waits for
a living ABC process can take its next step because ABC answers. Nothing is
assumed of spurious wakeups or of processes that end: they happen at any time
or never. `CompletesUnlessLeaked` then says that the pass ends unless a thread
waits for ever on a pipe another process has inherited. All other properties
are safety properties; the loops of the other components are bounded walks
over finite lists.

### Disagreements between code and documentation

Each is shown by a run that ends in a counterexample.

* `xor_stub_equivalent`: stubs identify different functions, and the modules
  are then reported equivalent.
* `guide_check_assert`: the help promises an error for any unproven structure;
  a pair matched by port signature is not proved and not noticed.
* `abc_pool_leak`: a comment says that the pipes are opened so that nothing
  leaks into racing forks; between making the child's ends inheritable and
  starting it, another worker's child inherits them, and if the first child
  then ends its worker waits for ever.
* `bmc_induct_skip`: the help says that `-skip N` ignores checks in the first N
  cycles; with it the bounded check covers only `k - N` cycles while the
  induction may look back over `k`, and a pair passes whose outputs differ
  later. (The quick start of the repository uses `-skip 10 -k 20`.)

Smaller observations made while modelling, without a run of their own:

* `get_div_map` warns "Skip!" at the first mismatching divider of a pair but
  keeps the entries made before it (`map_failed` is computed and not used); the
  multiplier variant drops them. `NothingUnverifiedIsHidden` makes an
  exception for this, `MultipliersAgree` is about multipliers only.
* The lookup of the gold counterpart of a retimed top compares an unescaped
  name with an escaped one, so the gold top is looked up with a prefix it does
  not have and is not found (`RetimeLookupFails` of `GuideCheck`).
* `-guide-dump-match` looks a gate entry up under the gold name and throws for
  a pair of different names (`DumpMatched` of `MatchSignals`).
* `hier_mod_map` takes an external line for any two modules of the design and
  does not test which side they are on. A line that names two gold modules, or
  a gate module first, makes a pair that the extraction hides while the module
  one of them is paired with by name stays open; `BoxesComeInPairs` fails then,
  as TLC shows with one line. `SidesKept` excludes such a file, and
  `SidesKeptWithoutFile` says that nothing else makes such a pair.
* What a local proof rests on without testing it. Each of these was tried by
  dropping the premise that excludes it from the properties of `LocalCut`, and
  TLC finds accepted registers that diverge: weak mode (no base case); `-skip`,
  which `validate_partition_pair` passes on to a strict fallback with the rest
  of the configuration; a proof by ABC whose audit failed, since the caller
  tests `proved` and only logs `auth_ok`; children whose outputs differ, their
  inputs being compared by nobody; and different initial values of the
  registers that `cec` pairs.

## 4. Proofs

All proofs hold for every value of the constants, under the named assumptions
of the modules (`Root` is not a base name, bounds are natural numbers, costs
are integers, a module has finitely many names, and the design has no module
named as the gold top with the gold prefix put before its full name, which is
what `check_retime` looks for; a base name is never one of these). They are checked with the SMT and Zenon backends and PTL for
the temporal steps.

`AbcPlan_proofs`. The verdict of the walk is not inductive: whether an action
is skipped depends on the previous executed run, on whether the mapped `dsec`
was among them, and on the position in the plan. `PlanInv` strengthens type
correctness with what the trace says about the results so far: which actions
can have been executed before the current position, that `prev_result` is the
result of the last of them, and that `solved` is set exactly if one of them
proved the pair. From it follow `TypeCorrect`, `HeuristicProofIsAProof`,
`VerdictCorrect` (the verdict is the reference's), `DecidingRunCorrect` (the
audited run is the proving one) and the action property `ExecutedOnceCorrect`.
`Refinement` maps every step to a step or a stutter of `PairProof`; that an
engine is asked after a proof only by a caller who wants every answer is the
part that needs `PlanInv`. `ReportInv` adds that nothing is written before the
end and gives `FailureCorrect` and `SampleCorrect`.

`HierModMap_proofs`. `OneToOne` speaks of the maps alone; that it survives an
external line or a fallback step depends on the pools. `MapInv` adds
what a stage has not touched (`Untouched`), that pairs by name stay
(`ByName`), that mapped and unmapped modules overlap exactly in what the
fallback has matched and not yet removed (`Separate`, `Pairing`), and that a
gold module the fallback has given up is unlike every available gate module
(`Fallback`). The two lemmas on names, `GoldGateGold` and `GateGoldGate`, are
where the assumption that the tops are alike is used: with tops of different
base names the map by name is not injective. From `MapInv` follow
`MapTypeCorrect`, `OneToOneCorrect`, `EveryModuleListedCorrect`,
`NoMatchLeftCorrect`, `CecPairsCorrect` and, for steps, `PairsFinalCorrect`.

`AbcPool_proofs`. `PoolInv` follows a job through the driver: it is never in two
places at once (held by a thread, in one of the queues, received), the place
tells whether the job has run (`Places`, `Queued`, `Returned`), and the
received results are as many as `finished_count` says (`Counted`, by
cardinality), so that all of them are there when the count reaches `n`. `Waiting` and `Control`
relate the waiters to the program locations; `NoLostWakeup` is inductive
together with them. `Whole`, `IdleHasRun` and `InUse` say what integrated
results, idle processes and threads that talk to ABC have behind them; the
abstract steps need them. From it: `TypeCorrect`,
`NoWakeupIsLost`, `IndexingIsSafe`, `ProcessesAreBounded`, and `Refinement`,
that the driver implements `Pipeline`, for any number of domains and cores.

`BmcInduct_proofs`. The frames are tied to executions: before the bounded
check ends, `front` holds the last state of every execution of that length,
and the checked cycles agree; during the induction every sequence of agreeing
states that ends in a disagreement has its first state in `front`, so an empty
frame says that a window of agreement is never followed by a disagreement. The
lemma `Window` shifts such a window to any place of an execution; the
properties are then kept by each further cycle that is executed (`StrictStep`,
`WeakStep`), so that time itself is the induction. From `BmcInductInv` follow `TypeCorrect`, `StrictCorrect` and
`WeakCorrect`, for any miter, any `-k` and any `-skip`.

`LocalCut_proofs`. That accepted registers agree is not inductive: the next
values of the cut registers are only known to agree while the residual state
is one the cut modules can be in. `LocalCutInv` says that the modules in
operation, while their children agree, stay in every closed set of the cut
modules that holds their initial state (`OperationInv`), and that every
acceptance that counts has proved all cut points there are (`ProvedInv`), which
is what breaks the circle: the registers matched earlier are assumed and also
compared each time. That a strict fallback has proved them is not assumed but
shown from its two queries: if paths from the initial state disagreed, a
shortest one would (`LeastNumber`); it cannot end within the base case, and
beyond it the induction step applies to its end (`InitialPathsAgree`), so that
the residual states on such paths are a closed set (`StrictProves`).
`CecWithInitialValues` does the same for a pairing found by `cec`. For
`FallbackKeepsAgreement`, `FallbackInv` keeps a depth at which the induction
holds, and `StreakInv` ties the cycles of agreement to a path of the cut
modules (`History`) that long. From these: `TypeCorrect`, `StrictCorrect`,
`AuthoritativeCorrect` and `FallbackCorrect`, for any registers, inputs,
children, netlists and `-k`. What remains assumed is what ABC's `dsec` and
`cec` mean when the audit finds nothing.

`GuideCheck_proofs`. `CheckContainsMap` shows that the pass, seen through the
variables of `hier_mod_map`, is a behaviour of `HierModMap`: the map is built
by its steps and then left alone. `MapInv` and all that follows from it so hold
in the pass. The properties of the verdict are not inductive, since the verdict
is computed at the end from lists filled earlier, and those from the map and
the black boxes of their time. `CheckInv` says at each stage which modules are
black boxes (`Boxes`), for which modules and pairs each list has an entry
(`Lists`), and that the flags `-assert` reads are the conjunction of the lists
`report` reads (`Flags`, `Ending`). `PassedCorrect` then is an argument by
cases: an equally named pair is in the map (`CecPairsCorrect`); if neither
module is a black box ABC was asked for it; if one is, the map being one-to-one,
its step has also looked at the partner, so that both are in the list of that
step. The same argument gives `BoxesCorrect`. `AssertCorrect` and
`CleanupCorrect` follow from `Ending`, and `AssertProvesNamedPairs` combines
them into what `-assert` does promise, next to the run `guide_check_assert`
that shows what it does not.

`ArithExtract_proofs`. The properties speak of the end, of cells that were
compared at the start. `ExtractInv` says that the entries are exactly those the
rules call for on the pairs visited so far (`Entered`), that no module is asked
for before all pairs were visited, and that every module asked for comes from
an entry (`Progress`). From it `ExtractTypeCorrect`, `NothingHiddenCorrect`,
`MultipliersCorrect`, `SidesChangeCorrect` for any number of pairs and cells,
and `ExtractionIsDetermined`: neither the order of the pairs nor the answers of
the verifier change what is hidden.

`MatchSignals_proofs`. `MatchInv` adds to the checked properties that both ends
of a cut point are names of their modules, without which the counts could fall
below zero (they are cardinalities, hence the assumption of finitely many
names), and that the dump has samples and suggestions only for names it has
left behind (`Visited`): a later sample of the same gold name could otherwise
be a rival of a suggestion already made. That the margin is the least lead over
the other candidates rests on the least member of a set of natural numbers
(`LeastNatural`), taken from the well-foundedness of `<`. From `MatchInv` follow
`MatchTypeCorrect`, `OneCutPointCorrect`, `FilesCorrect`, `CountsCorrect`, `SuggestionsCorrect`.

The inductive invariants were checked by TLC on the instances of the runs
before they were proved, where they can be evaluated.

Only model-checked: the liveness property `CompletesUnlessLeaked`, and the
violations of section 3, which are counterexamples. Every other property of a
passing run is a theorem. What lies beyond TLAPS here: liveness under fairness,
`ENABLED`, and what recursive definitions compute for every input.

## 5. Not modelled

* Netlist semantics: BLIF and SMT2 export, flattening, library import and the
  Yosys passes `guide_check` runs. Tools answer nondeterministically.
* File and text handling: parsing of arguments, of JSON and of ABC's log,
  wording of messages, failure hints. A file that cannot be opened is not
  distinguished from an empty one.
* Aliases in signal matching: two names of one netlist bit are two signals.
  (The comment in `match_signals_module` that forbids NONE entries in the
  match file is about such aliases; an external line can write one.)
* Learned models: any score, any cost.
* `region.cc` beyond the validation: how the boundary names of children are
  made canonical, the tracing of residual inputs, `refine_shell_closure` and
  the parsing of ABC's log. Their outcome is nondeterministic in `LocalCut`: a
  proof is audited clean or not, and the limit of 32 unresolved inputs can only
  refuse the fallback, which `Reject` allows. That `auth_ok` is set only when
  the boundaries do correspond is assumed of them. (The promotion stages of
  `refine_shell_closure` compare source ids that contain the module's name and
  so differ between the sides.) Nor is there a cut point without a register on
  one side, which a match by name allows since it does not compare types:
  `cutpoints_to_pi_po` skips it there, the two cut modules have different ports,
  and no suggestion is accepted (`miter` stops with an error, and `cec` and
  `dsec` are assumed to refuse networks with different outputs).
* `$initstate` and other cells that know the first cycle, and the options of
  smtbmc that `bmcinduct_check` does not pass.
* In the `abc` pass: extraction and re-integration of netlists, the ABC
  script, the buffers of the log, and the unthreaded call without `-dff`.
* Dividers and multipliers in one behaviour: a divider whose multipliers have
  become stubs is handed to its verifier in the changed form and fails.
* `guide_multi`, `guide_div`, `guide_retime`: netlist rewriting whose result is
  the initial state of `ArithExtract` and `GuideCheck`. `guide_design` and
  `guide_design_check`: a list of names and a loop of calls.
* The upstream kernel, frontends, backends and the other passes of Yosys,
  which are most of the lines of the repository and not part of this program's
  own logic, and the Python scripts that train the models.

## 6. Plan

Done: `BmcInduct`, the queues and the driver of the `abc` pass, `PairProof`,
local validation with children, audit and `-skip` as `LocalCut`, and the proofs
of every safety property. Left, in this order:

1. The composition by proof: that `GuideCheck` with `ArithExtract` or `AbcPlan`
   in place of its nondeterministic steps still implements `GuideCheck`
   (`ExtractionIsDetermined` and the refinement of `PairProof` are its halves).
2. The fixed point of `refine_shell_closure` against a reference on small
   graphs.
