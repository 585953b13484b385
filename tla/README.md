# LKK-HSAT in TLA+

TLA+ models, TLC runs and TLAPS proofs for LKK-HSAT, a structural front end for
SAT solvers. It recovers cardinality constraints from a CNF by bounded
resolution, assembles them into boxes (exactly *r* of these variables) and
resources (at most *c* of these), decides the resulting allocation problem by
maximum flow, and answers UNSATISFIABLE with a checkable witness when the flow
falls short; everything else goes to a CDCL solver. Around it sits the tooling
of a benchmark campaign: acquisition of public instances, process supervision,
thread pools, calibration of a timeout and of a solver selector, agreement
checks, tables.

`tlc -workers 2 -config <run>.cfg <module>` checks a run; `tlapm <module>.tla` checks
the proofs in `BasicLemmas` and the modules named `...Proofs`.
`PROJECT.json` names the runs, the theorems, the source lines of each definition and,
for each property, a mutation of the model that breaks it.

## The system

| Part | State | Operations | Calls / called by |
|---|---|---|---|
| parser, gates (`phase2/cnf.py`, `phase2/structure.py`) | none | `parse_cnf`, `fast_cheap_gate`, `benefit_gate` | first steps of the hybrid |
| bounded recovery (`phase2/cnf.py`) | clause database, literal index, agenda, visited pairs, counters | `bounded_resolution` | feeds the registry and the witness |
| exact registry (`phase2/structure.py`) | check counter, candidate families, boxes, resources | `recover_exact_registry`, `build_structural_model` | reads the database, feeds the flow |
| flow (`phase2/flow.py`) | residual network, levels, cursors | `flow_box_test`, `exhaustive_box_test` | feeds the witness |
| witness (`phase2/witness.py`) | none | `create_witness`, `check_witness` | called by the hybrid, and offline on native witnesses |
| hybrid (`phase2/hybrid.py`) | stage results, one child process | `solve_hybrid`, `run_external_solver` | composes all of the above with CaDiCaL |
| native core (`native/core`) | as the Python parts | C++ rewrite of recovery, registry, flow | used by `native/phase4a`..`phase5` |
| indexed registry (`phase4c/registry_indexed.py`, `lkk_registry_indexed.hpp`) | as the registry, an inverted index, a memo of decided families | the same search from pairs that share variables; in C++ also boxes of demand one | used in place of the scan from phase 4C on |
| LemmaBridge (`native/phase4b`, `phase4b/lemmas.py`) | harvest, covered sub-model, lemmas | harvest, restrict, condition, generate; offline verification | lemmas injected into CaDiCaL |
| native front end (`native/phase5`) | stage results, one child process | `solve_main`: stop-after, telemetry-only, selector, in-process or spawned fallback, exit code | started by the campaign under `timeout --signal=KILL` |
| acquisition (`phase5/acquire.py`) | target and part files, one thread per segment, error list | `download`, `download_parallel`, unpacking with caps | feeds the campaign's corpus |
| harness (`benchmark/harness.py`) | one child in a session of its own, rows, reports | `run_solver` with its poll loop, validation, measurement | top level |
| campaign (`phase5/run_phase5.py`) | corpus, telemetry, timeout, thresholds, result rows, output directory, digest of the sealed predecessors | the stages of `main` | starts the native front end and the solvers |
| telemetry pool (`phase5/run_telemetry.py`, `parallel.py`) | futures, busy workers | `run_pool`, `derive_selector_rows` | as the telemetry stage |
| strata and selector (`phase5/classify.py`, `selector.py`) | none | `classify`, `decide`, `evaluate`, `fit` | called by the stages |
| phases 3 and 4 (`phase3`, `phase4*`) | result rows | measuring loops over generated instances | earlier campaigns |

What is hard here: loops over structures that grow while they are walked
(agenda, cliques); answers that are only right if two independent greedy
selections fit together; budgets of several kinds that may run out anywhere;
a maximum flow that has to take back what it pushed; threads that report into
one list, retries and crashes that leave files behind; nested timeouts, and
answers that are late for them; a campaign whose stages hand each other timeouts,
samples and thresholds, that may be killed and started again, and that must not
tune on what it evaluates.

What makes the parts correct:

* recovery: only consequences are recorded, each derivation can be replayed, COMPLETE means closed;
* registry: a box or resource is what it claims, and an infeasible model refutes the clauses;
* flow: the answer is that of Hall's condition, a cut or an allocation explains it;
* witness and hybrid: UNSATISFIABLE is answered only after the check, every other path ends in the fallback;
* lemmas: whatever is injected is implied by the formula;
* acquisition: what is assembled is whole, and work done is not repeated;
* indexed registry: it decides what the scan decides, as long as both can afford it;
* native front end: wherever it stops and whenever it is killed, a definite answer is right;
* harness and campaign: runs do not disturb each other, disagreement is noticed, calibration
  and evaluation share no file, a campaign starts in an empty directory.

## Modules

| Module | Models | Correspondence |
|---|---|---|
| `CNF` | clauses, single-pivot resolution, cardinality clauses, satisfaction | a clause is the set of its literals: `canonical_clause` sorts and removes duplicates, so nothing else is observable |
| `Resolution` | abstract specification of recovery | known clauses with depths, grown one resolvent at a time, abandoned at any time, COMPLETE only when nothing is missing |
| `Recovery` | `bounded_resolution` | one action per branch of the loops: load, take from the agenda, open a literal, visit a right id, derive, abort. Ids are positions in `records`, from 1; the literal index is read off the records, as it is extended exactly when a record is appended |
| `Capacity` | capacity instances, Hall's condition, cuts | `exhaustive_box_test` is the oracle of the repository's tests; the cut is computed by the flow and again by the checker; `ProperInstance` is what gets past the `ValueError`s of `flow_box_test` |
| `Flow` | `flow_box_test`, Dinic | `send` is a path of nodes (its call stack) with steps down, back, and through the sink; a breadth-first search goes wave by wave; the order of the adjacency lists is left open. |
| `Registry` | `recover_exact_registry`, `build_structural_model` | the lists of positive and negative clauses are sets of ids, of which `Nth` picks one; pairs in the code's order, so that the budget runs out where it does; a greedy selection takes the best remaining family and drops those that overlap; a growth pass is one step charged with the variables it looks at |
| `RegistryIndexed` | `recover_exact_registry_indexed` and its C++ twin | the state, acceptance test, selection and edges of `Registry`; the pairs come from the index, each lookup is charged, families already decided are not tested again; after the exact boxes, one positive clause per step becomes a box of demand one or is passed over |
| `Registries` | the comparison of phase 4C | scan, indexed search and indexed search with one-sided boxes, one after another on the same database and budget |
| `Gates`, `Export` | `fast_cheap_gate`, `benefit_gate`; `create_witness` | operators, used by `Hybrid` and `Native` |
| `Witness` | `check_witness` | one action per record, box and resource, accepted or rejected, and one per later check; a witness is a record that may hold anything a file may hold. A reached box is an index of a Python list and may count from the end, a resource that does not exist is one that is not reached |
| `Solver` | abstract specification of a solver run | one answer: the truth, or UNKNOWN, TIMEOUT, ERROR |
| `Hybrid` | `solve_hybrid`, `run_external_solver` | an INSTANCE of each of `Recovery`, `Registry`, `Flow`, `Witness` on its own variables, whose steps are taken while the hybrid is in that call; between calls, the values one returns become the arguments of the next. The fallback process prints, ends, or hangs on its own |
| `Native` | `lkk_native5` under `timeout` and `native_run` | parser with its trailer and header checks, then INSTANCEs of `Recovery` and `RegistryIndexed` on its own variables, the flow at its result, the witness and its checker (`Witness`), which reads the file again with a parser of its own and raises on one it does not take (`Readable`), the selector and both fallbacks; with the selector the file is run twice, first for telemetry |
| `Campaign` | `run_phase5.py`, `run_telemetry.py`, `run_pool`, `classify`, `selector` | one action per stage, and one per run inside the stages that measure; pool workers finish in any order; a directory remembers of each file which invocation wrote it last: a campaign refuses a directory that holds anything, a telemetry pass enters any and writes its four over what is there |
| `Harness` | `benchmark/harness.py` | the child runs on between two steps of the poll loop; a child is GNU time and the solver below it, and only the group is killed |
| `Measurement` | both programs | on the files of one corpus, started from one shell, never at once |
| `Harvest` | `harvest` of `native/phase4b` | the steps of `Registry` where the code is the same, and steps of its own where `registry()` gives up |
| `LemmaBridge` | `restrict_to_covered`, `residual`, `OriginalIndex`, `generate_lemmas` | one action per clause pushed and per conditioning tried, family after family, and then the recovered clauses; the sub-model is read off the harvest, the flow is taken at its result |
| `LemmaCheck` | `phase4b/lemmas.py`, the loop of `generate_and_verify` | one action per record, family and lemma, accepted, complained about or raising, as `combinations` does on a negative size and `as_clause` on a tautology |
| `Transfer` | generation, verification and one run of the ablation for one instance (`run_phase4b.py`, `solve_main`) | `LemmaBridge` twice with an INSTANCE of `LemmaCheck` in between; the document is a record, killed runs leave none or half of one. The second run is in one of the three arms that start this binary: CaDiCaL, Kissat in a child, CaDiCaL with the accepted lemmas |
| `Acquire` | `download`, `download_parallel`, `_fetch_segment` | calling thread and segment threads interleave; files are their sizes; the process may be killed at any step and be run again |
| `BasicLemmas` | lemmas about resolution and counting literals; about sums, cuts and Hall's condition | |
| `RecoveryProofs`, `FlowProofs`, `RegistryProofs`, `WitnessProofs`, `HybridProofs`, `TransferProofs` | theorems about `Recovery`, `Flow`, `Registries`, `Witness`, `Hybrid`, and about `LemmaBridge` with `Transfer` | `HybridProofs` instantiates the four before it |
| `ToolingProofs` | theorems about `Acquire`, `Harness`, `Campaign`, `Measurement` and `LemmaCheck` | |
| `SmallFormulas`, `MCRecovery`, `MCFlow`, `MCRegistry`, `MCWitness`, `MCHybrid`, `MCLemmaCheck`, `MCTransfer`, `MCNative`, `MCMeasurement` | small inputs for TLC | |

Abstractions to keep in mind. The recovery's clock is a nondeterministic abort
wherever the code reads it. In `Acquire` the bytes of a range are the right
ones, so that a prefix of the archive is correct and the digest tells exactly
whether all of it is there; part files are copied into the target one at a
time, which is enough to leave a short target behind. Starting the segment
threads is one step: a thread may take its own first step at any later time.
The groups of a witness are sets, so a file that lists a variable twice in one
group is not among the claims; literals are not 0. In `Hybrid` the fallback
solver is right when it answers, may print `s UNKNOWN`, may end with a code and
no output or the other way round, and need never end.

In `LemmaBridge` the flow is not run again: `Flow` shows that its result is that
of the exhaustive test, which is used in its place, and `registry()`, which runs
before on the same database, has the result of the harvest as long as its own
budget lasts. A recovery is a constant there, any database that can be replayed
(`RecoveriesAssumption`), complete or aborted, of any formula that the native parser keeps;
the second run gets any database of the same formula, as its clock may stop it elsewhere. The parents of a lemma are
left out of the document, as nothing reads them; in `LemmaCheck` a record or box is
referred to by its position, and a resource by the id the document gives it, which need not differ
from another's. The generator numbers its resources from 0 (`Numbered`). A document may otherwise
hold anything. Formatting, timing fields
and logging are left out everywhere.

The `native_run` of `phase4c/run_phase4c.py`, whose witnesses are checked, and that of
`phase5/run_phase5.py` end a run alike, and `Native` has one for both.
In `Native` the flow is one step: the boxes and resources reached in a residual
network are the smallest minimum cut whatever paths filled it. In `Campaign` and
`Harness` a solver is a profile: for each file content, how many ticks it takes
and what it says, right or wrong; it says the same for every seed. Time in the
harness passes between the poll and the reading of the clock. In the campaign a
run is one step, as nothing else runs beside it. A file is its content; the
manifest's hash, its name and whether it is there are fields of the row. The hash
that assigns instances to calibration or evaluation is the set `Calibrated`.

## Runs

| Run | Checks | Bounds, and why they suffice |
|---|---|---|
| `recovery` | every property of `Recovery` but `Distinct` and `AppendOnly`, which are proved, with `Resolution` as a temporal property | all sequences of three clauses from a pool with units, duplicates and clashing pairs (512) and five formulas with mirrored literals, two chains, a cycle of implications and a late derivation. Memory 900 ends the cycle, six derived clauses the longer chain. Depth 2 is met by the shorter chain, whose last unit would resolve with a clause of depth two; size 3 and occurrence limit 2 make the other rejections happen |
| `flow` | every property of `Flow` | all instances with two boxes, two resources, demands and capacities 1 or 2 and every reachability (256), and a chain in which the last unit has to be rerouted through all boxes; all adjacency orders |
| `registry` | every property of `Registry` and `Registries` | pigeonhole with 2 and 3 boxes over 2 resources, exact-two boxes, overlapping families, capacities 1 and 2, and damaged databases; budgets that run out in each of the loops of each engine, and one that runs out in none |
| `witness` | every property of `Witness` | all ways to claim one or two boxes and resources over two variables, with every demand, capacity, marker and cut, on three formulas of which one is unsatisfiable; steps with every parent and pivot, missing, repeated and reordered originals, a double clash, a witness for another formula, single fields altered |
| `hybrid` | every property of `Hybrid`, with `Solver` as a temporal property | sixteen formulas: refuted from their own clauses, refuted only after hidden clauses are derived, feasible with and without a model, overlapping and partial families, capacity two, rejected by either gate, too large for each limit in turn; limits of the shipped configuration except that the memory, checks, clauses and pairs allowed are small enough to be exceeded |
| `lemmas` | every property of `Transfer` | fourteen recoveries: a ring, forced and paired conflicts, uncovered boxes, a box of capacity two, overlapping families, derived and subsumed clauses, an aborted recovery, a skipped one, a tautological formula; budgets 15 and 45 end the harvest among the pairs or during growth, registry budget 6 before it; one lemma more than `MaxLemmas`, and more conditionings than `FlowBudget`; the second run in each of its three arms, with Kissat exiting with either verdict's code, with another code, killed, or not started |
| `lemma_check` | every property of `LemmaCheck` but `ProvenIsImplied` | every combination of ten databases, seven lists of boxes, seven of resources and three of lemmas over two boxes and two resources (1470), among them ids that are no positions and ids that coincide; three documents whose boxes draw from three resources, two of which may share an id, and a tautological formula |
| `lemma_replay` | expected violation of `ProvenIsImplied` | see Findings; bounds as `lemma_check` |
| `acquire` | assembly, survival of segments, end of each invocation | five bytes over four connections give three segments, the last shorter, and one that is dropped; two attempts, three invocations, both transfer modes |
| `acquire_resume` | expected violation of `ResumesAfterInterruption` | see Findings |
| `native` | every property of `Native`, with `Solver` as a temporal property | twelve files: with a trailer, with an empty clause of their own, with too few and too many clauses, refuted, refuted with a trailer and with a tautological clause, left open by the registry or by the flow, without structure; every stage to stop after, both fallbacks, the selector with and without one-sided boxes, no fallback; thresholds between which the files fall, a budget that some registries exceed, `timeout` at every moment |
| `measurement` | every property of `Campaign`, `Harness` and `Measurement` | manifests of up to six rows with a duplicated, a missing and an altered file, one without calibration, one without evaluation, an empty one; a solver that is wrong on a file it has to itself or shares; two workers, two directories, two invocations, each a campaign or a telemetry pass into either directory, one fault (failing run, kill, worker that raises, changed predecessor) and one mishap of the harness (failing or interrupted run); a deadline and two of three timeouts below what the slowest file takes |

Deadlock is checked in all runs but the two of `Acquire`, where nobody has to
run acquisition again and the number of invocations is bounded.

**Fairness.** `Recovery` and `Flow` are single-threaded loops that wait for nothing:
weak fairness of the next-state relation. In `Transfer` the fair part leaves out the kills
of the front end and of the generation: both must end by their budgets. Only the solvers,
the verifier's included, may end by their timeouts.
`Native` asks nothing of the engine: weak fairness is that of `timeout`, of
`native_run` and of the checker. `Registry`, `Witness`, `LemmaCheck`, `Campaign`
and `Harness` are bounded loops over finite lists; no liveness is stated of them.
The hybrid waits for its fallback, but with a timeout: weak fairness
of its own steps, the timeout among them, and none of the fallback's. In `Acquire` each
thread has weak fairness of its own steps, as the operating system schedules
it and every socket has a timeout; crashes and re-invocations have none.

**Properties worth a second look.**
`ClosedWhenComplete` is closure with respect to the depths in the database. The
depth of a clause is that of the first derivation found, so with a finite depth
limit the database need not hold all clauses that have *some* derivation within
the limit. `RefutationIsSound` ties registry and flow together: for a COMPLETE
registry whose model fails Hall's condition, TLC enumerates all assignments and
finds no model.
`AnswerIsExplained` asks of a flow that is short for the cut, and of one that is
not for an allocation, and so checks what the residual updates leave behind. `SameWhenUnbounded` and
`NeverFewerBoxes` are what phase 4C claims of the index: nothing changes but the
cost.
`NeverRaises` crosses all modules: `check_witness` re-derives from the file what
recovery, registry and flow computed, `solve_hybrid` does not catch its
`WitnessError`, and so any disagreement between producer and checker would end
the run without an answer. `ValidMeansUnsat` does not assume a producer at all. `VerifierConfirms` plays the
same part for the lemmas, where producer and checker are written in two
languages. `ConclusionsImplied` holds of lemmas and refutations alike.
`StructuralCheckProves` needs the boxes to be disjoint and the resources to have ids of their
own: the verifier checks neither, and where boxes overlap or two resources go by one id, whose
capacity is then charged once for both, only the solver rejects a lemma that does not follow
(see the observations below). `WitnessesAccepted` is `NeverRaises` for the native engine,
whose witnesses no stage of phase 5 checks. It is claimed of the files that `parse_cnf` takes;
the engine refutes others too, whose witnesses cannot be checked (see there).
`NothingOlder` is what the emptiness check of `run_phase5.py` is worth: what a campaign finds in its
directory later is its own, or from a telemetry pass that was started after it and pointed there. `DerivedChoice` assumes that recovery
ends the same way in both runs: `derive_selector_rows` calls its result
deterministic, but the clock of 250 ms may end a recovery elsewhere. `CleanExitIsRight`
says how far the agreement checks reach: an instance that all modes get wrong
passes. `HeldOut` compares contents, not names, since a corpus may hold one
file twice. `TimeoutSuffices` compares the timeout, chosen from runs made at the
ceiling, with runs that would be made at the timeout.

## Proofs

`RecoveryProofs` proves, for all formulas and budgets, every safety property of
`Recovery`: `TypeCorrect`, `Soundness`, `Unambiguous`, `ReplaySucceeds`,
`BudgetsHold`, `NothingIsForgotten` and `FixedPointIsClosed`. The assumptions
are `BoundsAssumption` (limits are natural numbers) and `FormulasAssumption`
(what `parse_cnf` returns: finite clauses without complementary literals).

The argument is one chain of inductive invariants, each proved relative to the
previous ones:

* `Typed` adds to `TypeOK` where the left clause and the agenda point; without it
  `records[left]` has no type. One step per action.
* `SoundInv` generalises `Sound` from the assignments over the variables of the
  formula to all assignments, which makes it inductive by `ResolventHolds`: an
  assignment that satisfies both parents satisfies the resolvent.
* `Growth` reduces every action to "database unchanged, an input clause
  appended, or a resolvent of `left` appended"; `Distinct`, `ReplayInv` and
  `BudgetInv` are proved from these three cases.
* `ClosedInv` is what makes `ClosedWhenComplete` inductive: a pair is *settled*
  when it is visited or has no recordable resolvent, and all pairs of clauses
  before the cursor are settled; of the current left clause, those on literals
  already tried, and those of the current literal not in `rights`. A clause
  appended meanwhile is behind the cursor and settles its pairs in its own turn.
  Visiting a pair without deriving settles it because `Resolves` is symmetric
  (`ResolvesSymmetric`) and the database only grows (`StaysSettled`).

`ImplementsClosure` is the refinement, step by step: each action maps to a step of
`Resolution` on the records' clauses and depths or to none. `RefinementInv` takes the
invariants above and adds what a step of the closure reads: before the scan the
records are the originals loaded so far, every original has depth 0, what `rights` still
holds resolves with the left clause, and depths can be read off the clauses (`DepthInv`,
from `Distinct`). A derivation is one new resolvent whose depth is one more than the deeper
parent's; the last step needs `ClosedWhenComplete`, as COMPLETE is only allowed when nothing
is missing.

`WitnessProofs` proves `TypeCorrect`, `ReplayIsSound`, `EvidenceIsProof` and
`ValidIsSound` for all formulas and witness files, from `ClaimsAssumption` (what
`parse_cnf` returns, and lists of records of integers: `WellFormed`). `ReplayInv` generalises `RebuiltIsImplied` as
`SoundInv` does; a record that passes is an original or a resolvent of two
implied clauses (`RecordIsImplied`). `EvidenceInv` keeps the bounds of the boxes
and resources accepted so far. That the required clauses prove a bound for
groups of every size is counting: if fewer than *d* literals of a group were
true, *n - d + 1* false ones could be picked, whose clause is required and false
(`SubsetOfSize`, `LowerBoundHolds`, `UpperBoundHolds` in `BasicLemmas`).
`ValidIsSound` then argues across the cut: in a model the reached boxes draw their
demands from true variables, each of which is in a reached resource, and counts against
its capacity, or crosses the cut; so the cut is no less than the demand. A box
that is reached under two ids (0 and its index from the end) is counted twice by the
code, in the edges of the cut; that only makes the cut larger.

Of `LemmaCheck`, `ToolingProofs` proves `TypeCorrect`, `CleanReplay` and `StructuralCheck` for
all formulas and lemma documents, from `DocumentsAssumption` (lists of clauses). `CleanReplayProves` is not inductive
as it stands, and the violation `lemma_replay` shows why: the parents of a
record come from the document. `CleanInv` adds that, as long as nothing was
complained about, all records before the current one are themselves proven.
`FamilyInv` does the same for families. `StructuralCheck` takes a model that makes the
support of a confirmed conditioning true and shows that what remains of it meets
the remaining demands, which Hall's condition forbids. Its two hypotheses, disjoint boxes and distinct
ids, enter where the assumed variables are counted: each is charged to its own box and its own resource.

`HybridProofs` proves `NothingRaised`, `NoChildLeft` and `AnswersRightly` for all formulas
that `parse_cnf` returns, and all bounds and budgets (`HybridAssumption`). `AnswersRightly` is the safety of
`ImplementsSolver`: one answer, and a right one if it is definite; only its
fairness is left to TLC. The argument crosses all parts. Their proof modules are
instantiated on the variables of the hybrid, so that each step of a part keeps the invariant
of that part, and `HybridInv` says what each stage may rely on. At the seams:

* `DatabaseExported`: a finished database has the originals first, in the order in which they
  first occur in the formula, no clause twice, no tautology, and derivations with earlier parents
  (`ReplayInv`, `FirstsInv`). The checker matches originals by position, so their order matters.
* `RegistryStarts`, `Mapped`: the registry gets a list of literal sets, and a COMPLETE one has one
  resource for each variable, so that `build_structural_model` does not fail.
* `FlowStarts`: that model is a proper capacity instance, whatever the registry selected; and
  `CutExported`: the cut that the flow names, measured again by the checker from the witness, is the same.
* `WitnessExported` sums this up as `Exported`, what a witness must be for the checker to accept
  it; `PassingNext` (in `WitnessProofs`) follows the checker through such a witness and finds no
  failing branch enabled. Together with `NoModel`, the last step of `ValidIsSound`, the verdict is right.

`FallbackInv` follows the child: it runs only while it is waited for or about to be killed, and its
output and code are the truth, no result, or a signal, so that `LogIsRight`.

`BasicLemmas` has what all of these count with. Sums over boxes and
resources are `SumFunction` of the community modules, a fold; its lemmas are proved from two
facts, that a sum over no index is 0 and that one index can be taken out, by
induction over finite sets in the form that needs no operator as a parameter: a set of
subsets that holds {} and grows by one element holds all. `CountBothWays`
counts a finite relation by rows and by columns; `CutBound` and `HallBound` are the
two directions of Hall's theorem that are needed: an allocation meets every cut
(`AllocationMeetsHall`), and a cut below the demand contains a violator
(`CutShowsViolator`).

`FlowProofs` proves `FlowExplains` and `FlowAgrees` for all instances that satisfy
`ProperInstance` and every order of the adjacency lists. `FlowInv` says: residual
capacities of an edge and its reverse add up to the edge's; what enters a node leaves it,
and `maximum` is what has left the source; along the path of `send` levels rise by one, so
no node is on it twice and an augmentation by the bottleneck keeps both; when a phase
ends, the sink is out of reach. Then no residual edge leaves what is reached, the
cut's edges are saturated and those back are empty, and the cut is the flow. Short of
the demand this is a Hall violator, by `CutShowsViolator`; otherwise the saturated
edges from boxes to resources are an allocation.

`RegistryProofs` proves `SelectionHolds` and `RefutationHolds` for all three engines, every
database (`DatabasesAssumption`: a list of finite sets of literals, tautologies included, as
the native parser keeps them) and every budget. `RegistryInv` has six parts: types;
`Ordered`, what is still empty in which loop; `BoxesInv`, the families that are candidates
or selected have all their clauses in the database; `ResourcesInv`, so have the resources, and
the edges left to try and the group that grows have one variable per box at most; `Apart`,
selected groups are disjoint; `Covered`, COMPLETE is only answered when every boxed variable
has a resource. `IndexInv` adds for the indexed search that the examined edges are some of
the pairs' partners, `SidedInv` that only boxes placed after the exact ones are one-sided. `NthIsThere` shows that
a list in the order of ids has an n-th element, `FirstIsThere` that a finite order has a first
one: the code sorts, the model chooses. That an edge has its variables in distinct boxes is
a surjection between sets of one size (`EdgeIsAcross`). For `RefutationHolds`, take a
model of the clauses: its true variables, each in one box and one resource, allocate every
demand, and no set of boxes wants more than its resources have (`AllocationHasNoViolator`,
`ModelMeetsHall`).

`ToolingProofs` proves `AssemblyWhole` and `SegmentsSurvive` for every size, number of
connections and attempts, and however often the process is killed. `AcquireInv` follows the
calling thread: what may be on disk at each place, and that no segment thread is
alive outside of `join`. The arithmetic is that the segments are `1 .. n` and each
begins where the one before it ends, so that the parts assembled so far have
`Copied(piece)` bytes, and all of them `Total`.

It also proves the six invariants of `Measurement`, for every corpus, manifest, set of solver
profiles, number of workers and of directories, and whatever faults disturb the campaign, from
`CampaignAssumption` (modes and the instances of a manifest have distinct names, hashes are
numbers, and for each content there is what every solver does with it). The
invariants behind them, each proved relative to those before it:

* `AloneInv` is `RunsAlone` with what it needs: a process is left only by an interruption, after
  which the harness does nothing. `AgreementInv` follows the harness' rows into its verdict: a
  clean exit means that every instance has one definite answer at most (`AgreedIs`).
* `ShellInv` and `FilesInv` say which invocation the campaign is in, which stage has run,
  and that a file in a directory is from the running invocation or an earlier one. A campaign is only entered
  when its directory is empty, so it is the oldest there, and what is younger is from telemetry
  passes (`CampaignBeginsEmpty`). A pass writes its logs when it starts and the rest when its pool
  has ended, so `passes` remembers which invocations those are.
* `TelemetryInv` and `CollectInv` say that a row of telemetry is that of the file with its
  place in the manifest, and that a pool's slots are those of its items: a slot is filled by the
  worker that took it, and drained in order (`PoolKeepsOrder`).
* `SampleInv` keeps the pools of the stages within their split. The round-robin of
  `_stratified_sample` picks rows of its argument and none twice (`SampleTakes`, by way of
  `Takes`: a list is taken from another by positions that differ), so what is measured for
  calibration has a hash assigned to calibration, and what is evaluated has not
  (`EvaluationIsHeldOut`). A file listed twice has one hash, and so one split.
* `MeasuredInv` says that each measured row was made from the row of the pool it stands beside
  (`IsMeasured`), at the ceiling for calibration. `DirectRunIs` relates a run at the ceiling to
  a run at a shorter timeout, and the chosen grid point leaves room for all that calibration
  solved (`ChosenTimeoutSuffices`).
* `ResultsInv` says which of the evaluation's rows are there: those scheduled up to now. The
  rotation of the modes is a permutation (`TurnedDiffers`), so each mode runs an
  instance once (`ScheduledOnce`), and when the campaign ends cleanly the correctness stage has
  compared all its answers with each other and with the declared one (`NoWrongAnswerPasses`). This one has the hypothesis `Len(Seeds) = 1`, as in the shipped
  configuration (`evaluation_seeds` in `phase5/config.json`). With several seeds `stage_correctness`
  keeps the last answer of a mode only, and the theorem would be false for the others.

`TransferProofs` proves `AnswersHold`, `ConclusionsHold` and `VerifierAgrees` for all formulas
(in the first two, clauses with complementary literals included), recoveries, budgets and limits, from `DatabasesAssumption` and
`RecoveriesAssumption`. A harvest takes steps of the registry search,
so `RegistryInv` and its step lemmas carry over; `HarvestInv` adds that all boxes are exact. That
every lemma is entailed has one reason for each of its origins:

* Clauses of a family are in the database (`BoxesInv`, `ResourcesInv`), and
  whatever is in the database follows from the formula: the first clause that did not would
  have parents that do (`RecoveredHolds`).
* A conditioning that conflicts has no model: the variables a model makes true, less
  those that are assumed, allocate what is left of the demands within what is left of the
  capacities (`ModelMeetsResidual`), while the conflict is an overcommitment or a violator of
  Hall's condition on just these. This is where a box with an uncovered variable must not be
  kept: its variables would draw on no resource. With nothing assumed it is `BaseRefutes`.

`TransferInv` then says that all lemmas follow (`LemmasInv`), what the note stands for
(`NoteInv`), that the document is the one of the harvest while it is verified, and that
every answer is right. What is injected is generated, so `AnswersHold` asks nothing of the
verifier; its work matters where the generator is not what the model says it is. The
verifier builds the sub-model again from the document, in code of its own;
`ConclusionsHold` shows the two capacity instances equal (`SameInstance`), so the
verdicts are. The lists that the generator walks, of clauses and of conditionings, are
sorted, and that a finite set has an n-th member in a strict total order is
`RankIsTaken` (in `BasicLemmas`; the campaign's lists need it as well).

`VerifierAgrees` shows that the verifier does confirm what the generator wrote. Its hypothesis is
the one of `VerifierConfirms`: `parse_cnf` takes no clause with complementary literals. Then the
database has none either, as resolution on the only clashing pair makes none (`CleanClauses`).
Two invariants meet. `OriginInv` is about the generator: a lemma of a family has a clause of
`FamilyClauses`, a recovered one a clause of the database, and a conditional one the conflict
it was pushed for, under a sub-model that was found feasible. `CheckInv` is about the verifier and
says what each of its stages has established: every step replays, the parents of a record being
earlier ones (`StepReplays`), so the replay proves the whole database; the families are in it
(`FamiliesJudged`), so they become supported; no lemma is a tautology and each is entailed, so none
raises or is refuted (`LemmasJudged`). At the lemmas the two give the checks for every origin
(`LemmasConfirmed`), for the conditional ones because `SameInstance` holds with any support
assumed. The second process overwrites the state the document was written from, which is why
`CheckInv` is claimed for the stage of the verification only.

Only model-checked, and why:

* Liveness under fairness (`Terminates`, `InvocationEnds`, `TransferTerminates`, that every
  `Solver` answers at last): out of this prover's reach, as is anything about ENABLED.
* What compares two runs of an algorithm (`SameWhenUnbounded`, `NeverFewerBoxes`): it needs
  what both searches compute, not what they keep.
* `Native` (`WitnessesAccepted`, `DerivedChoice`, `Solver`): its parts are proved on their own,
  but its parser and its gates count with recursive operators over sequences, which the
  prover cannot reason about.

## Findings

* `acquire_resume`. `download_parallel` promises that "re-invoking acquisition
  resumes rather than restarting" (`phase5/acquire.py:152`). The target is
  assembled in place, and `download` does not fetch a target that exists and is
  not empty (`phase5/acquire.py:197`). A process killed between the first and
  the last part leaves a short target: each later run rejects it by its
  checksum although all segments are on disk, until somebody deletes it.
* `lemma_replay`. "each database clause is proved implied by resolution"
  (`phase4b/lemmas.py:11`), but the parents of a record are looked up in the
  document (line 68) and not among the proven clauses, so what follows from a
  rejected record is called proven. The errors are counted, and every lemma is
  still checked by a solver, so nothing wrong is injected.

Observations that no run is spent on. The first two were found with TLC when the hypotheses of
`StructuralCheckProves` and of `WitnessesAccepted` were left out, and their files are still among
the inputs; the others concern completeness, wording or what the documentation leaves open:

* `phase4b/lemmas.py:154` calls `OVERCOMMITTED` "itself a refutation of that conditioning". A
  resource's id is taken from the document and merged with another's that is the same (lines
  128 and 159), so that one capacity is charged for the variables of both: with resources {1, 3}
  and {2, 4} under one id, assuming 1 and 2 is overcommitted, and a lemma that does not follow
  passes the structural check. The generator's ids differ, and the solver's check rejects the lemma.
* "Every structural refutation is re-verified by `phase2/witness.py`" (`README.md:97`), but
  `check_witness` reads the file again with `parse_cnf` (`phase2/witness.py:143`), which
  raises on a SATLIB trailer, on more clauses than declared and on a tautological clause
  (`phase2/cnf.py:61-80`). The engine takes all three, so that it refutes files whose witness
  cannot be checked.
* `native/phase4b/lkk_native4b.cpp:326`, "Only pairs that interact locally can produce
  a conflict the unit pass missed": in a ring of three boxes over three resources, a
  variable of one box and one of the next starve the third together, though they
  share neither box nor resource. A lemma is missed; those emitted are right.
* `phase6/test_atleast_boxes.py:9` holds that answers given on exact boxes stay. A
  one-sided box that touches no resource leaves the mapping incomplete, and a
  database that was refuted is then not.
* `run_phase5.py:3` calls the stages independently resumable; a directory that holds
  anything is refused, and no stage reads what an earlier invocation wrote.
* `stage_correctness` keeps one status per mode, so of several seeds the last;
  the ablation's answers are compared with nothing; `native_run`'s witnesses are not checked.
* A telemetry run that is killed has no gate decision and is classified as one that
  the cheap gate declined.
* An interrupted harness leaves its solver running, in a session of its own.
* A telemetry pass whose `--output` is a campaign's directory writes over the campaign's
  `benchmark_manifest.csv` and `strata_summary.csv` (`run_telemetry.py:75`, `105-106`).

## Not modelled, and the plan

Done in this order: `Recovery`, `Flow`, `Registry`, `Acquire`, `Witness`, `Hybrid`,
`LemmaBridge` with `LemmaCheck` and `Transfer`; then `RegistryIndexed` with
`Registries`, `Native`, `Campaign`, `Harness` and `Measurement`; the proofs of
`Recovery`, `Witness` and `LemmaCheck`, then those of `Acquire`, `Flow`, the
registries, `Transfer`, the campaign with the harness, and `Hybrid`.
The plan is done: what stays with TLC is listed above, with the reasons.

Not modelled, and why:

* Text formats (CNF, JSON, CSV): only what their readers guarantee is assumed.
* The campaigns of phases 3, 4A, 4B and 4C: measuring loops with the control of
  phase 5's and without stages that depend on each other. What is particular
  to 4B (generation, verification, injection) is in `Transfer`, to 4C in `Registries`.
* The front ends of phases 4A and 4C: `Native` with the in-process fallback only.
  `lkk_core_probe` and `flow_batch` call the same core without a pipeline.
* `tune.py`, instance generators, reports, plots, profiling: data in, text out.
* Unpacking and the choice of the SAT Competition slice in `acquire.py`: loops over
  an archive that is whole.
* In the campaign: dry run, `--skip-hash-verify`, and instances whose names coincide.
* The solvers themselves, which are external.
