------------------------------- MODULE Native -------------------------------
(***************************************************************************)
(* lkk_native5 (native/phase5/lkk_native5.cpp with native/core), under     *)
(* `timeout --signal=KILL` and native_run (phase5/run_phase5.py): parsing, *)
(* the gates, recovery, the indexed registry, the flow, the witness, the   *)
(* static selector and its two fallback solvers.                           *)
(*                                                                         *)
(* With the selector the file is run twice, as the campaign does it: first *)
(* with --telemetry-only, from which phase5/parallel.py derives the choice *)
(* of the engine, then for its answer.  A witness goes to check_witness.   *)
(*                                                                         *)
(* The flow is taken in one step: the boxes and resources that are reached *)
(* in a residual network are the smallest minimum cut, whatever paths      *)
(* filled it; module Flow has the paths.                                   *)
(***************************************************************************)
EXTENDS Gates, Export, SequencesExt

CONSTANTS
    Files,             \* DIMACS files: records of declared and body
    Commands,          \* records of fallback, stopAfter, witness, oneSided
    PivotLimit, MaxDepth, MaxSize, DerivedBudget, MemoryBudget,
    Budgets, MaxCapacity,
    MinBoxes, LargeFormula, MinOpenSignal    \* SelectorConfig

VARIABLES
    file, command,   \* the arguments
    stage,           \* where solve_main is, or native_run after it
    telemetryOnly,   \* --telemetry-only
    telemetry,       \* what that run reported: at most one record of features
    gated,           \* gate.signal, 0 when the gate has not run
    structural,      \* structural_result
    engine,          \* resolved
    final,           \* final_result
    kissat,          \* the child: "none", "running", "gone"
    code,            \* its exit code
    status           \* native_run's status, "none" before it returns

\* Local variables of recover; formula is cnf.clauses.
VARIABLES formula, recoveryPc, loaded, records, agenda, cursor, left, lits, rights,
          seen, derived, bytes, verdict

\* Local variables of registry_indexed.
VARIABLES recovery, budget, registryPc, pair, checks, candidates, boxes, size, edges,
          group, families, resources, outcome, examined, rejected, exact, oneSided

\* Local variables of check_witness.
VARIABLES witness, checkPc, at, originals, clauses, ruling

arguments == <<file, command, budget>>
progress == <<telemetryOnly, telemetry, gated, structural, engine, final, kissat, code, status>>
recoveryVars == <<recoveryPc, loaded, records, agenda, cursor, left, lits, rights,
                  seen, derived, bytes, verdict>>
registryVars == <<registryPc, pair, checks, candidates, boxes, size, edges, group,
                  families, resources, outcome, examined, rejected, exact, oneSided>>
checkVars == <<checkPc, at, originals, clauses, ruling>>
\* All but stage and what native_run and solve_main report.
machines == <<formula, recoveryVars, recovery, registryVars, witness, checkVars>>
vars == <<arguments, stage, progress, machines>>

R == INSTANCE Recovery WITH pc <- recoveryPc, Formulas <- {<<>>}
I == INSTANCE RegistryIndexed WITH pc <- registryPc, untried <- edges, Databases <- {}
W == INSTANCE Witness WITH pc <- checkPc, cnf <- file.body, Claims <- {}

---------------------------------------------------------------------------
(* parse_dimacs.  A body is the clauses up to the end of the file; a lone  *)
(* terminator is the empty clause.                                         *)
AddClause(read, C, declared) ==
    IF C = {} /\ Len(read) >= declared THEN read ELSE Append(read, C)

Clauses(f) == FoldLeft(LAMBDA read, C : AddClause(read, C, f.declared), <<>>, f.body)

Init ==
    /\ file \in Files /\ command \in Commands /\ budget \in Budgets
    /\ stage = "parse"
    /\ telemetryOnly = (command.fallback = "selector") /\ telemetry = <<>>
    /\ gated = 0 /\ structural = "UNKNOWN" /\ engine = "none" /\ final = "UNKNOWN"
    /\ kissat = "none" /\ code = 0 /\ status = "none"
    /\ R!Init
    /\ recovery = <<>> /\ I!FreshIndexed /\ oneSided = command.oneSided
    /\ witness = <<>> /\ W!Fresh

Goto(s) == stage' = s /\ UNCHANGED arguments

Parse ==
    /\ stage = "parse" /\ Len(Clauses(file)) = file.declared
    /\ formula' = Clauses(file)
    /\ Goto("gate")
    /\ UNCHANGED <<progress, recoveryVars, recovery, registryVars, witness, checkVars>>

\* An exception: no result is printed.
ParseFails ==
    /\ stage = "parse" /\ Len(Clauses(file)) # file.declared
    /\ status' = "ERROR"
    /\ Goto("exited")
    /\ UNCHANGED <<telemetryOnly, telemetry, gated, structural, engine, final, kissat,
                   code, machines>>

Gate ==
    /\ stage = "gate"
    /\ gated' = IF command.stopAfter = "none" THEN 0 ELSE Signal(formula)
    /\ IF command.stopAfter \notin {"none", "gate"} /\ Structured(formula) /\ Beneficial(formula)
         THEN Goto("recovery") ELSE Goto("select")
    /\ UNCHANGED <<telemetryOnly, telemetry, structural, engine, final, kissat, code,
                   status, machines>>

Recover ==
    /\ stage = "recovery" /\ recoveryPc # "done"
    /\ R!Next
    /\ Goto("recovery")
    /\ UNCHANGED <<progress, recovery, registryVars, witness, checkVars>>

Recovered ==
    /\ stage = "recovery" /\ recoveryPc = "done"
    /\ recovery' = [status |-> verdict[1],
                    clauses |-> [i \in DOMAIN records |-> records[i].clause]]
    /\ IF command.stopAfter = "recovery" THEN Goto("select") ELSE Goto("registry")
    /\ UNCHANGED <<progress, formula, recoveryVars, registryVars, witness, checkVars>>

Register ==
    /\ stage = "registry" /\ registryPc # "done"
    /\ I!Indexed
    /\ UNCHANGED <<file, command, stage, progress, formula, recoveryVars, witness, checkVars>>

Registered ==
    /\ stage = "registry" /\ registryPc = "done"
    /\ IF outcome[1] = "COMPLETE" /\ command.stopAfter = "flow"
         THEN Goto("flow") ELSE Goto("select")
    /\ UNCHANGED <<progress, machines>>

---------------------------------------------------------------------------
(* flow_test and write_witness. *)

Capacities == I!CapacityModel

Cuts == (SUBSET BoxesOf(Capacities)) \X (SUBSET ResourcesOf(Capacities))

CapacityOf(c) == CutCapacity(Capacities, c[1], c[2])

\* The smallest of the cuts of least capacity, which is the maximum flow.
Reached ==
    LET least == {c \in Cuts : \A d \in Cuts : CapacityOf(c) <= CapacityOf(d)}
    IN  CHOOSE c \in least : \A d \in least : c[1] \subseteq d[1] /\ c[2] \subseteq d[2]

Kinds == [b \in DOMAIN boxes |-> IF b <= exact THEN "exact" ELSE "atleast"]

\* Mutation of WriteWitness: the marker of one-sided boxes is not written.
WriteUnmarked(c) ==
    CreateWitness(file.body, records, boxes, [b \in DOMAIN boxes |-> "exact"], resources,
                  FlowEntry(Capacities, c[1], c[2], CapacityOf(c)))

\* The hash is that of the file, whatever was read from it.
WriteWitness(c) ==
    CreateWitness(file.body, records, boxes, Kinds, resources,
                  FlowEntry(Capacities, c[1], c[2], CapacityOf(c)))

FlowTest ==
    /\ stage = "flow"
    /\ LET c == Reached
       IN  IF CapacityOf(c) < TotalDemand(Capacities)
             THEN /\ structural' = "UNSAT" /\ final' = "UNSATISFIABLE"
                  /\ witness' = IF command.witness /\ ~telemetryOnly THEN WriteWitness(c) ELSE witness
             ELSE /\ structural' = "FEASIBLE"
                  /\ UNCHANGED <<final, witness>>
    /\ Goto("select")
    /\ UNCHANGED <<telemetryOnly, telemetry, gated, engine, kissat, code, status, formula,
                   recoveryVars, recovery, registryVars, checkVars>>

---------------------------------------------------------------------------
(* The selector. *)

\* What is printed of the features.
Features ==
    [boxes |-> Len(boxes), open |-> outcome[1] # "COMPLETE", signal |-> gated,
     clauses |-> Len(formula), recovery |-> verdict]

\* decide (phase5/selector.py)
Decide(features) ==
    IF \/ features.boxes >= MinBoxes /\ features.open /\ features.signal >= MinOpenSignal
       \/ features.clauses >= LargeFormula
      THEN "kissat" ELSE "cadical"

\* Mutation of ChooseEngine: the registry's failure alone speaks for Kissat.
ChooseOpen ==
    IF outcome[1] # "COMPLETE" \/ Len(formula) >= LargeFormula THEN "kissat" ELSE "cadical"

ChooseEngine ==
    IF \/ /\ Len(boxes) >= MinBoxes /\ outcome[1] # "COMPLETE"
          /\ gated >= MinOpenSignal
       \/ Len(formula) >= LargeFormula
      THEN "kissat" ELSE "cadical"

FallbackUsed == structural # "UNSAT"

Select ==
    /\ stage = "select"
    /\ engine' = IF command.fallback = "selector" THEN ChooseEngine ELSE command.fallback
    /\ IF FallbackUsed /\ ~telemetryOnly THEN Goto("fallback") ELSE Goto("print")
    /\ UNCHANGED <<telemetryOnly, telemetry, gated, structural, final, kissat, code,
                   status, machines>>

---------------------------------------------------------------------------
(* The fallback solvers, which are taken to be right. *)

Declared(f) == SubSeq(f.body, 1, Min({f.declared, Len(f.body)}))

Oracle == INSTANCE Solver WITH
              Formulas <- {Declared(f) : f \in Files}, formula <- Declared(file),
              answer <- IF telemetryOnly THEN "none" ELSE status

Right == Oracle!Truth(formula)

\* run_cadical runs in the process; "none" is no engine.
RunCadical ==
    /\ stage = "fallback" /\ engine \in {"cadical", "none"}
    /\ final' = IF engine = "cadical" THEN Right ELSE "UNKNOWN"
    /\ Goto("print")
    /\ UNCHANGED <<telemetryOnly, telemetry, gated, structural, engine, kissat, code,
                   status, machines>>

\* run_kissat: fork and exec.
StartKissat ==
    /\ stage = "fallback" /\ engine = "kissat"
    /\ kissat' = "running"
    /\ Goto("waitpid")
    /\ UNCHANGED <<telemetryOnly, telemetry, gated, structural, engine, final, code,
                   status, machines>>

ExitCode == [SATISFIABLE |-> 10, UNSATISFIABLE |-> 20]

\* With a result, without one, not executed, or by a signal.
KissatExits ==
    /\ kissat = "running"
    /\ kissat' = "gone"
    /\ code' \in {ExitCode[Right], 0, 127, -1}
    /\ UNCHANGED <<arguments, stage, telemetryOnly, telemetry, gated, structural, engine,
                   final, status, machines>>

\* Mutation of WaitKissat: any exit but 10 is a refutation.
WaitCarelessly ==
    /\ stage = "waitpid" /\ kissat = "gone"
    /\ final' = IF code = 10 THEN "SATISFIABLE" ELSE "UNSATISFIABLE"
    /\ Goto("print")
    /\ UNCHANGED <<telemetryOnly, telemetry, gated, structural, engine, kissat, code,
                   status, machines>>

WaitKissat ==
    /\ stage = "waitpid" /\ kissat = "gone"
    /\ final' = CASE code = 10 -> "SATISFIABLE"
                  [] code = 20 -> "UNSATISFIABLE"
                  [] OTHER -> "UNKNOWN"
    /\ Goto("print")
    /\ UNCHANGED <<telemetryOnly, telemetry, gated, structural, engine, kissat, code,
                   status, machines>>

\* native_run reads the result from the last line of the log.
Report ==
    /\ stage = "print"
    /\ status' = final
    /\ IF witness # <<>> THEN Goto("check") ELSE Goto("exited")
    /\ UNCHANGED <<telemetryOnly, telemetry, gated, structural, engine, final, kissat, code,
                   machines>>

\* The timeout kills the whole process group; 137 may also be the kernel's.
Killed ==
    /\ stage \notin {"check", "exited"}
    /\ status' = "TIMEOUT"
    /\ kissat' = IF kissat = "running" THEN "gone" ELSE kissat
    /\ Goto("exited")
    /\ UNCHANGED <<telemetryOnly, telemetry, gated, structural, engine, final, code, machines>>

---------------------------------------------------------------------------
(* check_witness reads the file again, with parse_cnf (phase2/cnf.py).     *)

\* It takes no trailer, which is one clause too many to it (and its `%` no integer), and
\* no tautological clause.  What it takes is what parse_dimacs takes.
Readable ==
    /\ Len(file.body) = file.declared
    /\ \A C \in ClausesOf(file.body) : ~Tautology(C)

Check ==
    /\ stage = "check" /\ checkPc # "done" /\ Readable
    /\ UNCHANGED <<arguments, stage, progress, formula, recoveryVars, recovery, registryVars>>
    /\ W!Next

\* The exception is recorded as a failure; the witness has not been looked at.
CheckRaises ==
    /\ stage = "check" /\ ~Readable
    /\ Goto("exited")
    /\ UNCHANGED <<progress, machines>>

Checked ==
    /\ stage = "check" /\ checkPc = "done"
    /\ Goto("exited")
    /\ UNCHANGED <<progress, machines>>

---------------------------------------------------------------------------
(* The run that is measured, in a new process. *)

Measure ==
    /\ stage = "exited" /\ telemetryOnly
    /\ telemetry' = IF status \in {"TIMEOUT", "ERROR"} THEN <<>> ELSE <<Features>>
    /\ telemetryOnly' = FALSE
    /\ gated' = 0 /\ structural' = "UNKNOWN" /\ engine' = "none" /\ final' = "UNKNOWN"
    /\ code' = 0 /\ status' = "none"
    /\ formula' = <<>> /\ recoveryPc' = "load" /\ loaded' = 0
    /\ records' = <<>> /\ agenda' = <<>> /\ cursor' = 0
    /\ left' = 0 /\ lits' = {} /\ rights' = {} /\ seen' = {}
    /\ derived' = 0 /\ bytes' = 0 /\ verdict' = <<"RUNNING", "none">>
    /\ recovery' = <<>> /\ registryPc' = "pairs" /\ pair' = 0 /\ checks' = 0
    /\ candidates' = {} /\ boxes' = <<>> /\ size' = 1 /\ edges' = {} /\ group' = {}
    /\ families' = {} /\ resources' = <<>> /\ outcome' = <<"RUNNING", "none">>
    /\ examined' = {} /\ rejected' = {} /\ exact' = 0
    /\ witness' = <<>> /\ checkPc' = "hash" /\ at' = 0
    /\ originals' = <<>> /\ clauses' = <<>> /\ ruling' = "none"
    /\ Goto("parse")
    /\ UNCHANGED <<kissat, oneSided>>

\* native_run has returned for the last time.
Done == stage = "exited" /\ ~telemetryOnly /\ UNCHANGED vars

Step ==
    \/ Parse \/ ParseFails \/ Gate
    \/ Recover \/ Recovered \/ Register \/ Registered
    \/ FlowTest \/ Select
    \/ RunCadical \/ StartKissat \/ WaitKissat \/ Report
    \/ Check \/ CheckRaises \/ Checked \/ Measure

Next == Step \/ KissatExits \/ Killed \/ Done

\* Nothing is expected of the engine: the timeout comes if it does not end
\* before, and native_run and the checker go on.
Spec ==
    /\ Init /\ [][Next]_vars
    /\ WF_vars(Killed) /\ WF_vars(Measure) /\ WF_vars(Check \/ CheckRaises \/ Checked)

---------------------------------------------------------------------------
(* lkk_native5 under native_run is a solver of the declared clauses: it    *)
(* answers once, whatever the stage it stops after, the engine it chooses  *)
(* and the moment it is killed, and a definite answer is right.            *)
ImplementsSolver == Oracle!Spec

(* Every witness that the engine writes, and whose file the checker reads, *)
(* passes the checker, which the engine never runs itself: exact and       *)
(* one-sided boxes, in the order the engine found them, with the evidence  *)
(* of the matching kind.                                                   *)
WitnessesAccepted ==
    /\ ruling # "invalid"
    /\ stage = "exited" /\ status = "UNSATISFIABLE" /\ witness # <<>> /\ Readable
         => ruling = "valid"

(* parallel.py derives the selector's arm from a telemetry run instead of  *)
(* running it.  That gives the engine that would be run if recovery ended  *)
(* the same way both times; its clock may end it differently.              *)
DerivedChoice ==
    stage = "print" /\ ~telemetryOnly /\ telemetry # <<>> =>
        \/ verdict # telemetry[1].recovery
        \/ engine = Decide(telemetry[1])
=============================================================================
