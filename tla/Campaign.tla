------------------------------ MODULE Campaign ------------------------------
(***************************************************************************)
(* The phase 5 campaign (phase5/run_phase5.py): its stages over a corpus,  *)
(* in the order main takes them, with the worker pool of the stand-alone   *)
(* telemetry pass (phase5/run_telemetry.py, phase5/parallel.py), the       *)
(* strata (classify.py) and the static selector (selector.py).             *)
(*                                                                         *)
(* What a solver does with a file is a profile: how many ticks it takes    *)
(* and what it answers, right or wrong.  A run may also fail, the campaign *)
(* may be killed and started again, and the sealed results of an earlier   *)
(* phase may change under it: MaxFaults of these in a behaviour.           *)
(***************************************************************************)
EXTENDS Integers, FiniteSets, Sequences, SequencesExt, FiniteSetsExt, Functions

CONSTANTS
    Manifests,         \* sequences of manifest rows
    Profiles,          \* from a file's content to what the programs do with it
    Calibrated,        \* the contents whose hash falls below calibration_fraction
    Modes, Variants,   \* config["modes"], config["ablation_variants"]: sequences
    Seeds,             \* evaluation_seeds, ablation_seeds
    TimeoutGrid, TelemetryTimeout,
    ThresholdGrid,     \* the products of the selector's search_grid, in order
    CalibrationLimit, EvaluationLimit, AblationLimit,
    Workers, Dirs, MaxCampaigns, MaxFaults

VARIABLES
    manifest, profile,   \* the inputs
    stage, turn,         \* where main is, and the runs that its stage has made
    out, files,          \* --output; per directory, which invocation wrote a file
    invocation, code,    \* how many were started; what the last returned
    passes,              \* the invocations that were of run_telemetry
    corpus, pool,        \* load_corpus; the sample of the stage
    telemetry, measured, timeout, cases, parameters, results, ablation,
    tree, before,        \* the digest of the predecessors, now and at the start
    faults,
    working, collected   \* run_pool: the busy workers; results, by index

inputs == <<manifest, profile>>
session == <<out, invocation, passes, corpus, before>>
shell == <<session, files, code>>
memory == <<telemetry, measured, timeout, cases, parameters, results, ablation>>
poolVars == <<working, collected>>
campaignVars == <<inputs, stage, turn, shell, pool, memory, tree, faults, poolVars>>

Definite == {"SATISFIABLE", "UNSATISFIABLE"}

\* What the programs do with a file.
IsFile(file) ==
    file \in [truth : Definite, features : {file.features}, front : Nat, trailer : BOOLEAN,
              engines : [{"cadical", "kissat", "linked"} ->
                           [takes : Nat, says : Definite \cup {"UNKNOWN"}]]]

\* Hashes are ordered, instances and modes have names of their own.
ASSUME CampaignAssumption ==
    /\ \A rows \in Manifests :
         /\ rows \in Seq(Range(rows))
         /\ \A k \in DOMAIN rows :
              /\ rows[k].sha256 \in Int
              /\ rows[k].present => \A p \in Profiles : IsFile(p[rows[k].actual])
         /\ \A j, k \in DOMAIN rows : rows[j].instance = rows[k].instance => j = k
    /\ TimeoutGrid \in Seq(Nat) /\ TimeoutGrid # <<>>
    /\ CalibrationLimit \in Int /\ EvaluationLimit \in Int /\ AblationLimit \in Int
    /\ Seeds \in Seq(Int) /\ Modes \in Seq(Range(Modes))
    /\ \A j, k \in DOMAIN Modes : Modes[j].name = Modes[k].name => j = k

---------------------------------------------------------------------------
(* A solver under timeout(1).                                              *)

Blank == [gate |-> "", benefit |-> "", recovery |-> "", registry |-> "", overBudget |-> FALSE,
          structural |-> "", boxes |-> 0, groups |-> 0, derived |-> 0, mirror |-> 0,
          monotone |-> 0, clauses |-> 0]

Ended(status, runtime) == [status |-> status, runtime |-> runtime]

Under(limit, took, status) ==
    IF took > limit THEN Ended("TIMEOUT", limit) ELSE Ended(status, took)

\* The baselines get the file without SATLIB's trailer, which they refuse.
Sanitized(file) == [file EXCEPT !.trailer = FALSE]

\* external: cadical and kissat, started by themselves
Baseline(file, solver, limit) ==
    IF file.trailer THEN Ended("UNKNOWN", 0)
    ELSE Under(limit, file.engines[solver].takes, file.engines[solver].says)

DirectRun(file, solver, limit) == Baseline(Sanitized(file), solver, limit)

ChooseEngine(f, p) ==
    IF \/ /\ f.boxes >= p.minBoxes /\ f.registry # "COMPLETE"
          /\ f.monotone + 2 * f.mirror >= p.minSignal
       \/ f.clauses >= p.minClauses
    THEN "kissat" ELSE "linked"

\* lkk-native5 with --stop-after flow or an earlier stage, as module Native has it.
NativeRun(file, spec, p, limit) ==
    LET f == IF spec.stopAfter = "flow" THEN file.features ELSE Blank
        refuted == f.structural = "UNSAT"
        solver == IF spec.fallback = "selector" THEN ChooseEngine(f, p) ELSE spec.fallback
    IN  IF refuted \/ solver = "none"
        THEN Under(limit, file.front, IF refuted THEN "UNSATISFIABLE" ELSE "UNKNOWN")
        ELSE Under(limit, file.front + file.engines[solver].takes, file.engines[solver].says)

Run(file, spec, p, limit) ==
    IF spec.kind = "direct" THEN DirectRun(file, spec.fallback, limit)
    ELSE NativeRun(file, spec, p, limit)

\* A run killed from outside has the code of a timeout; any other failure is
\* UNKNOWN of a baseline and ERROR of lkk-native5.
Failed(spec) ==
    {Ended("TIMEOUT", 0), Ended(IF spec.kind = "direct" THEN "UNKNOWN" ELSE "ERROR", 0)}

FileOf(item) == profile[item.actual]

---------------------------------------------------------------------------
(* Corpus, strata, samples.                                                *)

\* The values of a function on numbers, in the order of the numbers.
InOrder(f) ==
    [k \in 1..Cardinality(DOMAIN f) |->
       f[CHOOSE i \in DOMAIN f : Cardinality({j \in DOMAIN f : j <= i}) = k]]

LoadCorpus ==
    InOrder(Restrict(manifest, {k \in DOMAIN manifest :
                                  manifest[k].status = "OK" /\ manifest[k].present}))

SplitOf(item) == IF item.sha256 \in Calibrated THEN "calibration" ELSE "evaluation"

\* The first rule that applies.
Classify(f) ==
    LET rules == <<
          <<f.structural = "UNSAT", "lkk_direct_structural_unsat">>,
          <<f.gate # "RUN_LKK", "no_useful_detected_structure">>,
          <<f.benefit = "SKIP_TO_CDCL", "no_useful_detected_structure">>,
          <<f.registry = "COMPLETE" /\ f.structural = "FEASIBLE", "structural_not_closed_by_flow">>,
          <<f.boxes > 0 /\ f.groups > 0, "resource_allocation_like">>,
          <<f.boxes > 0 /\ f.mirror > 0 /\ f.derived > 0, "hidden_cardinality_recovered">>,
          <<f.boxes > 0 /\ f.overBudget, "matching_hall_like">>,
          <<f.boxes > 0, "cardinality_exact_r_heavy">>,
          <<f.mirror > 0 /\ f.derived > 0, "hidden_cardinality_recovered">>,
          <<TRUE, "unknown_fallback_dominated">> >>
    IN  rules[Min({k \in DOMAIN rules : rules[k][1]})][2]

\* sorted(buckets)
Strata == << "cardinality_exact_r_heavy", "hidden_cardinality_recovered",
             "lkk_direct_structural_unsat", "matching_hall_like",
             "no_useful_detected_structure", "resource_allocation_like",
             "structural_not_closed_by_flow", "unknown_fallback_dominated" >>

TelemetrySpec == [kind |-> "native", fallback |-> "none", stopAfter |-> "flow"]

TelemetryRow(item, run) ==
    LET f == IF run.status \in {"TIMEOUT", "ERROR"} THEN Blank ELSE FileOf(item).features
    IN  [item |-> item, split |-> SplitOf(item), features |-> f, stratum |-> Classify(f)]

SplitRows(split) ==
    InOrder(Restrict(telemetry, {k \in DOMAIN telemetry : telemetry[k].split = split}))

\* Round robin over the strata, each in the order of the hashes.
StratifiedSample(rows, limit) ==
    LET earlier(i, j) == \/ rows[i].item.sha256 < rows[j].item.sha256
                         \/ rows[i].item.sha256 = rows[j].item.sha256 /\ i < j
        round(i) == Cardinality({j \in DOMAIN rows :
                                   rows[j].stratum = rows[i].stratum /\ earlier(j, i)})
        bucket(i) == CHOOSE k \in DOMAIN Strata : Strata[k] = rows[i].stratum
        sooner(i, j) == \/ round(i) < round(j)
                        \/ round(i) = round(j) /\ bucket(i) < bucket(j)
        place(i) == 1 + Cardinality({j \in DOMAIN rows : sooner(j, i)})
    IN  IF limit <= 0 \/ Len(rows) <= limit THEN rows
        ELSE [k \in 1..limit |-> rows[CHOOSE i \in DOMAIN rows : place(i) = k]]

---------------------------------------------------------------------------
(* The timeout.                                                            *)

Ceiling == Max(Range(TimeoutGrid))

\* Mutation: what the ceiling solved counts for every timeout.
SolvedAtCeiling(t) == {k \in DOMAIN measured : measured[k].run.status \in Definite}

Solved(t) ==
    {k \in DOMAIN measured : measured[k].run.status \in Definite /\ measured[k].run.runtime <= t}

\* The smallest within two points of the best.
ChooseTimeout ==
    LET fine(t) == 100 * Cardinality(Solved(t)) + 2 * Len(measured)
                     >= 100 * Cardinality(Solved(Ceiling))
    IN  Min({t \in Range(TimeoutGrid) : fine(t)})

---------------------------------------------------------------------------
(* The selector.                                                           *)

Decide(f, p) ==
    IF \/ /\ f.boxes >= p.minBoxes /\ f.registry # "COMPLETE"
          /\ f.monotone + 2 * f.mirror >= p.minSignal
       \/ f.clauses >= p.minClauses
    THEN "kissat" ELSE "linked"

Par2(run, limit) == IF run.status \in Definite THEN run.runtime ELSE 2 * limit

Regret(p) ==
    LET cost(case, solver) == Par2(case.runs[solver], timeout)
        best(case) == Min({cost(case, solver) : solver \in {"linked", "kissat"}})
    IN  FoldLeft(LAMBDA sum, case : sum + cost(case, Decide(case.features, p)) - best(case),
                 0, cases)

Eagerness(p) == -(p.minBoxes + p.minClauses + p.minSignal)

Better(p, q) == \/ Regret(p) < Regret(q)
                \/ Regret(p) = Regret(q) /\ Eagerness(p) < Eagerness(q)

Fit == FoldLeft(LAMBDA best, p : IF Better(p, best) THEN p ELSE best,
                Head(ThresholdGrid), Tail(ThresholdGrid))

---------------------------------------------------------------------------
(* main                                                                    *)

\* Of some predecessors config.json has the digest.
Untouched == [pinned |-> 0, unpinned |-> 0]

CampaignInit ==
    /\ manifest \in Manifests /\ profile \in Profiles
    /\ stage = "shell" /\ turn = 0 /\ pool = <<>>
    /\ out \in Dirs /\ files = [d \in Dirs |-> <<>>] /\ invocation = 0 /\ passes = {}
    /\ code = "none"
    /\ corpus = <<>> /\ before = Untouched /\ tree = Untouched
    /\ faults = 0
    /\ telemetry = <<>> /\ measured = <<>> /\ timeout = 0 /\ cases = <<>>
    /\ parameters = Head(ThresholdGrid) /\ results = <<>> /\ ablation = <<>>
    /\ working = {} /\ collected = <<>>

Put(f, key, value) == [x \in DOMAIN f \cup {key} |-> IF x = key THEN value ELSE f[x]]

\* write_csv, write_text: files are kept with the invocation that wrote them last
WritingAll(names) ==
    files' = [files EXCEPT ![out] =
                [x \in DOMAIN @ \cup names |-> IF x \in names THEN invocation ELSE @[x]]]

Writing(name) == WritingAll({name})

Forget ==
    /\ telemetry' = <<>> /\ measured' = <<>> /\ timeout' = 0 /\ cases' = <<>>
    /\ parameters' = Head(ThresholdGrid) /\ results' = <<>> /\ ablation' = <<>>
    /\ pool' = <<>> /\ turn' = 0

End(result) == stage' = "shell" /\ code' = result

\* Mutation: only a campaign that was completed is in the way.
OccupiedWhenComplete(dir) == "RESULTS.md" \in DOMAIN files[dir]

Occupied(dir) == files[dir] # <<>>

\* A file or a predecessor with another digest, or a directory that is not empty, raises.
StartCampaign(dir) ==
    /\ stage = "shell" /\ invocation < MaxCampaigns
    /\ invocation' = invocation + 1 /\ out' = dir /\ corpus' = LoadCorpus /\ before' = tree
    /\ Forget
    /\ IF \/ \E k \in DOMAIN corpus' : corpus'[k].actual # corpus'[k].sha256
          \/ tree.pinned # Untouched.pinned
          \/ Occupied(dir)
       THEN End("raised") /\ UNCHANGED files
       ELSE /\ stage' = "telemetry" /\ code' = "none"
            /\ files' = [files EXCEPT ![dir] = Put(@, "metadata.json", invocation')]
    /\ UNCHANGED <<inputs, passes, tree, faults, poolVars>>

\* The result of a run, which may be one of the faults.
RunOf(item, spec, p, limit, use(_)) ==
    \/ use(Run(FileOf(item), spec, p, limit)) /\ UNCHANGED faults
    \/ /\ faults < MaxFaults /\ faults' = faults + 1
       /\ \E run \in Failed(spec) : use(run)

Telemeter ==
    /\ stage = "telemetry" /\ turn < Len(corpus)
    /\ LET item == corpus[turn + 1]
           use(run) == telemetry' = Append(telemetry, TelemetryRow(item, run))
       IN  RunOf(item, TelemetrySpec, parameters, TelemetryTimeout, use)
    /\ turn' = turn + 1 /\ Writing("benchmark_manifest.csv")
    /\ UNCHANGED <<inputs, stage, session, code, pool, tree, poolVars,
                   measured, timeout, cases, parameters, results, ablation>>

\* The end of a stage's loop; rows is what its last write_csv got, which refuses no rows.
EndTelemetry ==
    /\ stage = "telemetry" /\ turn = Len(corpus)
    /\ turn' = 0 /\ pool' = StratifiedSample(SplitRows("calibration"), CalibrationLimit)
    /\ IF telemetry = <<>> THEN End("raised") /\ UNCHANGED files
       ELSE stage' = "calibration" /\ Writing("strata_summary.csv") /\ UNCHANGED code
    /\ UNCHANGED <<inputs, session, memory, tree, faults, poolVars>>

\* The k-th of the runs that take every item through the names in turn.
ItemAt(k, names) == pool[k \div Len(names) + 1].item
NameAt(k, names) == names[(k % Len(names)) + 1]

Calibrate ==
    LET item == ItemAt(turn, <<"cadical", "kissat">>)
        solver == NameAt(turn, <<"cadical", "kissat">>)
        use(run) == measured' = Append(measured, [item |-> item, solver |-> solver, run |-> run])
    IN  /\ stage = "calibration" /\ turn < 2 * Len(pool)
        /\ RunOf(item, [kind |-> "direct", fallback |-> solver], parameters, Ceiling, use)
        /\ turn' = turn + 1
        /\ Writing("calibration_runs.csv")
        /\ UNCHANGED <<inputs, stage, session, code, pool, tree, poolVars,
                       telemetry, timeout, cases, parameters, results, ablation>>

\* The runs at the ceiling stand for those at every smaller timeout.
EndCalibration ==
    /\ stage = "calibration" /\ turn = 2 * Len(pool)
    /\ turn' = 0
    /\ IF measured = <<>> THEN End("raised") /\ UNCHANGED <<timeout, files>>
       ELSE /\ timeout' = ChooseTimeout
            /\ stage' = "selector_fit" /\ Writing("calibration_choice.json") /\ UNCHANGED code
    /\ UNCHANGED <<inputs, session, pool, tree, faults, poolVars,
                   telemetry, measured, cases, parameters, results, ablation>>

\* Both fallbacks of one instance; a case is complete with the second.
MeasureFallback ==
    LET names == <<"linked", "kissat">>
        row == pool[turn \div 2 + 1]
        solver == NameAt(turn, names)
        use(run) == IF solver = "linked"
                    THEN cases' = Append(cases, [features |-> row.features,
                                                 runs |-> solver :> run])
                    ELSE cases' = [cases EXCEPT ![Len(cases)].runs = Put(@, solver, run)]
    IN  /\ stage = "selector_fit" /\ turn < 2 * Len(pool)
        /\ RunOf(row.item, [kind |-> "native", fallback |-> solver, stopAfter |-> "flow"],
                 parameters, timeout, use)
        /\ turn' = turn + 1
        /\ Writing("selector_fit_runs.csv")
        /\ UNCHANGED <<inputs, stage, session, code, pool, tree, poolVars,
                       telemetry, measured, timeout, parameters, results, ablation>>

\* Mutation: the evaluation is sampled from the whole corpus.
WholePool == StratifiedSample(telemetry, EvaluationLimit)

EvaluationPool ==
    IF EvaluationLimit = 0 THEN SplitRows("evaluation")
    ELSE StratifiedSample(SplitRows("evaluation"), EvaluationLimit)

EndSelectorFit ==
    /\ stage = "selector_fit" /\ turn = 2 * Len(pool)
    /\ parameters' = Fit /\ turn' = 0 /\ pool' = EvaluationPool
    /\ stage' = "evaluation" /\ Writing("selector_config.json")
    /\ UNCHANGED <<inputs, session, code, tree, faults, poolVars,
                   telemetry, measured, timeout, cases, results, ablation>>

Rotation(index, seed, n) == (index + seed) % n

\* Every item, every seed, and the modes in an order that the item and the seed rotate.
Scheduled(k, names) ==
    LET n == Len(names)
        index == k \div (n * Len(Seeds))
        seed == Seeds[((k \div n) % Len(Seeds)) + 1]
    IN  [row |-> pool[index + 1], seed |-> seed, first |-> k % n = 0,
         mode |-> names[(((k % n) + Rotation(index, seed, n)) % n) + 1]]

ResultRow(job, run) ==
    [item |-> job.row.item, features |-> job.row.features, mode |-> job.mode.name,
     seed |-> job.seed, first |-> job.first, run |-> run]

Evaluate ==
    LET job == Scheduled(turn, Modes)
        use(run) == results' = Append(results, ResultRow(job, run))
    IN  /\ stage = "evaluation" /\ turn < Len(pool) * Len(Seeds) * Len(Modes)
        /\ RunOf(job.row.item, job.mode, parameters, timeout, use)
        /\ turn' = turn + 1
        /\ Writing("standard_results.csv")
        /\ UNCHANGED <<inputs, stage, session, code, pool, tree, poolVars,
                       telemetry, measured, timeout, cases, parameters, ablation>>

\* A mode has one answer: its last.
Answers(instance) ==
    LET runs == {k \in DOMAIN results : results[k].item.instance = instance}
        last(mode) == Max({k \in runs : results[k].mode = mode})
    IN  {results[last(mode)].run.status : mode \in {results[k].mode : k \in runs}}

\* Mutation: the modes are compared with the manifest only.
PassedByManifest(instance) ==
    \A k \in DOMAIN results :
        results[k].item.instance = instance /\ results[k].item.declared \in Definite
          => results[k].run.status \in {results[k].item.declared} \cup {"TIMEOUT", "UNKNOWN"}

Passed(instance) ==
    LET definite == Answers(instance) \cap Definite
        runs == {k \in DOMAIN results : results[k].item.instance = instance}
        declared == results[Min(runs)].item.declared
    IN  /\ Cardinality(definite) <= 1
        /\ ~(declared \in Definite /\ definite # {} /\ declared \notin definite)

Failures == {results[k].item.instance : k \in {k \in DOMAIN results :
                                                 ~Passed(results[k].item.instance)}}

CheckCorrectness ==
    /\ stage = "evaluation" /\ turn = Len(pool) * Len(Seeds) * Len(Modes)
    /\ turn' = 0 /\ pool' = StratifiedSample(SplitRows("evaluation"), AblationLimit)
    /\ IF results = <<>> THEN End("raised") /\ UNCHANGED files
       ELSE /\ Writing("correctness.csv")
            /\ IF Failures # {} THEN End("2") ELSE stage' = "ablation" /\ UNCHANGED code
    /\ UNCHANGED <<inputs, session, memory, tree, faults, poolVars>>

Ablate ==
    LET job == Scheduled(turn, Variants)
        use(run) == ablation' = Append(ablation, ResultRow(job, run))
    IN  /\ stage = "ablation" /\ turn < Len(pool) * Len(Seeds) * Len(Variants)
        /\ RunOf(job.row.item, job.mode, parameters, timeout, use)
        /\ turn' = turn + 1
        /\ Writing("ablation.csv")
        /\ UNCHANGED <<inputs, stage, session, code, pool, tree, poolVars,
                       telemetry, measured, timeout, cases, parameters, results>>

\* The summaries and RESULTS.md, then the predecessors once more.
Conclude ==
    /\ stage = "ablation" /\ turn = Len(pool) * Len(Seeds) * Len(Variants)
    /\ Writing("RESULTS.md") /\ End(IF tree = before THEN "0" ELSE "2")
    /\ UNCHANGED <<inputs, turn, session, pool, memory, tree, faults,
                   poolVars>>

---------------------------------------------------------------------------
(* run_telemetry: the same rows from a pool of threads.                    *)

\* It makes out/logs, or goes on with what is in out.
StartPool(dir) ==
    /\ stage = "shell" /\ invocation < MaxCampaigns
    /\ invocation' = invocation + 1 /\ passes' = passes \cup {invocation'}
    /\ out' = dir /\ corpus' = LoadCorpus
    /\ files' = [files EXCEPT ![dir] = Put(@, "logs", invocation')]
    /\ stage' = "pool" /\ code' = "none" /\ Forget /\ working' = {} /\ collected' = <<>>
    /\ UNCHANGED <<inputs, before, tree, faults>>

\* Threads take the futures in the order of their submission.
Take ==
    /\ stage \in {"pool", "draining"}
    /\ turn < Len(corpus) /\ Cardinality(working) < Workers
    /\ turn' = turn + 1 /\ working' = working \cup {turn + 1}
    /\ UNCHANGED <<inputs, stage, shell, pool, memory, tree, faults, collected>>

\* Mutation: results are kept in the order they arrive.
Arrival(index) == Cardinality(DOMAIN collected) + 1

Slot(index) == index

\* as_completed: the futures in the order they end, each put at its own index.
Collect(index) ==
    LET use(run) == collected' = Put(collected, Slot(index), TelemetryRow(corpus[index], run))
    IN  /\ stage = "pool" /\ index \in working
        /\ RunOf(corpus[index], TelemetrySpec, parameters, TelemetryTimeout, use)
        /\ working' = working \ {index}
        /\ UNCHANGED <<inputs, stage, turn, shell, pool, memory, tree>>

\* future.result() raises; leaving the with block waits for all that was submitted.
TaskRaises(index) ==
    /\ stage = "pool" /\ index \in working
    /\ faults < MaxFaults /\ faults' = faults + 1
    /\ stage' = "draining" /\ working' = working \ {index} /\ collected' = <<>>
    /\ UNCHANGED <<inputs, turn, shell, pool, memory, tree>>

Drain(index) ==
    /\ stage = "draining" /\ index \in working
    /\ working' = working \ {index}
    /\ UNCHANGED <<inputs, stage, turn, shell, pool, memory, tree, faults, collected>>

\* What is there under these names, of a campaign or of another pass, is written over.
PassFiles == {"benchmark_manifest.csv", "strata_summary.csv", "summary.json"}

EndPool ==
    /\ stage \in {"pool", "draining"} /\ turn = Len(corpus) /\ working = {}
    /\ IF stage = "draining" \/ corpus = <<>>
       THEN End("raised") /\ UNCHANGED <<telemetry, files>>
       ELSE telemetry' = InOrder(collected) /\ End("0") /\ WritingAll(PassFiles)
    /\ UNCHANGED <<inputs, turn, session, pool, measured, timeout, cases, parameters, results,
                   ablation, tree, faults, poolVars>>

---------------------------------------------------------------------------
(* What happens from outside.                                              *)

Kill ==
    /\ stage # "shell" /\ faults < MaxFaults
    /\ faults' = faults + 1 /\ End("killed") /\ working' = {} /\ Forget /\ collected' = <<>>
    /\ UNCHANGED <<inputs, session, files, tree>>

\* Someone writes into the results of an earlier phase.
Disturb ==
    /\ stage # "shell" /\ faults < MaxFaults
    /\ faults' = faults + 1
    /\ \E part \in DOMAIN tree : tree' = [tree EXCEPT ![part] = @ + 1]
    /\ UNCHANGED <<inputs, stage, turn, shell, pool, memory, poolVars>>

Main ==
    \/ Telemeter \/ EndTelemetry \/ Calibrate \/ EndCalibration
    \/ MeasureFallback \/ EndSelectorFit \/ Evaluate \/ CheckCorrectness
    \/ Ablate \/ Conclude

ThreadPool ==
    \/ Take \/ EndPool
    \/ \E index \in working : Collect(index) \/ TaskRaises(index) \/ Drain(index)

\* Nothing is left to start.
CampaignDone == stage = "shell" /\ invocation = MaxCampaigns /\ UNCHANGED campaignVars

CampaignNext ==
    \/ \E dir \in Dirs : StartCampaign(dir) \/ StartPool(dir)
    \/ Main \/ ThreadPool \/ Kill \/ Disturb \/ CampaignDone

CampaignSpec == CampaignInit /\ [][CampaignNext]_campaignVars

---------------------------------------------------------------------------
(* Properties.                                                             *)

\* Neither the timeout nor the thresholds were measured on a file that the evaluation
\* uses, under whatever name it is in the manifests.
HeldOut ==
    stage = "evaluation" =>
        {measured[k].item.actual : k \in DOMAIN measured}
            \cap {pool[k].item.actual : k \in DOMAIN pool} = {}

\* A directory with files of a campaign holds none that is older, whatever was killed and
\* started again: they are all of that campaign, but for what telemetry passes that were
\* started after it, with its directory as their output, have written.
NothingOlder ==
    \A d \in Dirs : \A x, y \in DOMAIN files[d] :
        files[d][x] \notin passes => files[d][x] <= files[d][y]

\* Measured again at the chosen timeout, the calibration would solve as many runs, but
\* for two in a hundred, as the solvers can within the ceiling; at no smaller one.
TimeoutSuffices ==
    stage = "selector_fit" /\ faults = 0 =>
        LET able(t) == {k \in DOMAIN measured :
                          LET e == FileOf(measured[k].item).engines[measured[k].solver]
                          IN  e.says \in Definite /\ e.takes <= t}
            enough(t) == 100 * Cardinality(able(t)) + 2 * Len(measured)
                           >= 100 * Cardinality(able(Ceiling))
        IN  \A t \in Range(TimeoutGrid) : enough(t) <=> t >= timeout

\* However its threads are scheduled, the parallel pass returns the row of every item
\* at the item's place, as the sequential stage does.
PoolIsSequential ==
    collected # <<>> /\ stage = "shell" /\ code = "0" =>
        /\ Len(telemetry) = Len(corpus)
        /\ \A k \in DOMAIN corpus : telemetry[k].item = corpus[k]
=============================================================================
