------------------------------- MODULE Hybrid -------------------------------
(***************************************************************************)
(* solve_hybrid (phase2/hybrid.py): the gates, bounded_resolution, the     *)
(* registry, the flow and the witness, in this order, each a module of its *)
(* own whose steps are taken here on its own variables, and the CDCL       *)
(* solver that gets every formula the front end does not refute.           *)
(***************************************************************************)
EXTENDS Gates, Export

CONSTANTS
    Formulas,                                \* the inputs
    PivotLimit, MaxDepth, MaxSize,           \* config["recovery"]
    DerivedBudget, MemoryBudget,
    Budgets, MaxCapacity                     \* config["registry"]

\* Clauses as parse_cnf returns them.
ASSUME HybridAssumption ==
    /\ Formulas \subseteq Seq(Clause)
    /\ {PivotLimit, MaxDepth, MaxSize, DerivedBudget, MemoryBudget, MaxCapacity} \subseteq Nat
    /\ Budgets \subseteq Nat

VARIABLES
    stage,       \* the call solve_hybrid is in, "returned" or "raised"
    formula,     \* cnf
    structural,  \* structural_result
    final,       \* final_result, "none" before there is one
    child,       \* the fallback process: "none", "running", "exited"
    output,      \* results the fallback has printed
    code,        \* its exit code, 0 before it has one
    timedOut     \* timed_out

\* Local variables of bounded_resolution.
VARIABLES recoveryPc, loaded, records, agenda, cursor, left, lits, rights,
          seen, derived, bytes, verdict

\* Local variables of recover_exact_registry; recovery and budget are its
\* arguments.
VARIABLES recovery, budget, registryPc, pair, checks, candidates, boxes, size, edges,
          group, families, resources, outcome

\* Local variables of flow_box_test; inst is its argument.
VARIABLES inst, residual, level, cursors, path, total, flowPc, answer

\* Local variables of check_witness; witness is the file.
VARIABLES witness, checkPc, at, originals, clauses, ruling

recoveryVars == <<recoveryPc, loaded, records, agenda, cursor, left, lits, rights,
                  seen, derived, bytes, verdict>>
registryVars == <<registryPc, pair, checks, candidates, boxes, size, edges,
                  group, families, resources, outcome>>
flowVars == <<residual, level, cursors, path, total, flowPc, answer>>
checkVars == <<checkPc, at, originals, clauses, ruling>>
arguments == <<formula, recovery, budget, inst, witness>>
fallbackVars == <<child, output, code, timedOut>>
results == <<structural, final>>
vars == <<stage, arguments, results, fallbackVars,
          recoveryVars, registryVars, flowVars, checkVars>>

R == INSTANCE Recovery WITH pc <- recoveryPc
G == INSTANCE Registry WITH pc <- registryPc, untried <- edges, Databases <- {}
F == INSTANCE Flow WITH pc <- flowPc, untried <- cursors, Instances <- {}
W == INSTANCE Witness WITH pc <- checkPc, cnf <- formula, Claims <- {}

---------------------------------------------------------------------------
Init ==
    /\ stage = "gates"
    /\ structural = "UNKNOWN" /\ final = "none"
    /\ child = "none" /\ output = {} /\ code = 0 /\ timedOut = FALSE
    /\ R!Init
    /\ recovery = <<>> /\ budget \in Budgets /\ G!Fresh
    /\ inst = <<>> /\ residual = <<>> /\ level = <<>> /\ cursors = <<>>
    /\ path = <<>> /\ total = 0 /\ flowPc = "levels" /\ answer = F!Undecided
    /\ witness = <<>> /\ W!Fresh

Pass ==
    /\ stage = "gates" /\ Structured(formula) /\ Beneficial(formula)
    /\ stage' = "recovery"
    /\ UNCHANGED <<arguments, results, fallbackVars, recoveryVars, registryVars,
                   flowVars, checkVars>>

Skip ==
    /\ stage = "gates" /\ ~(Structured(formula) /\ Beneficial(formula))
    /\ stage' = "fallback"
    /\ UNCHANGED <<arguments, results, fallbackVars, recoveryVars, registryVars,
                   flowVars, checkVars>>

Recover ==
    /\ stage = "recovery" /\ recoveryPc # "done"
    /\ R!Next
    /\ UNCHANGED <<stage, recovery, budget, inst, witness, results, fallbackVars,
                   registryVars, flowVars, checkVars>>

Recovered ==
    /\ stage = "recovery" /\ recoveryPc = "done"
    /\ stage' = "registry"
    /\ recovery' = [status |-> verdict[1],
                    clauses |-> [i \in DOMAIN records |-> records[i].clause]]
    /\ UNCHANGED <<formula, budget, inst, witness, results, fallbackVars, recoveryVars,
                   registryVars, flowVars, checkVars>>

Register ==
    /\ stage = "registry" /\ registryPc # "done"
    /\ G!Next
    /\ UNCHANGED <<stage, formula, inst, witness, results, fallbackVars,
                   recoveryVars, flowVars, checkVars>>

RegistryOpen ==
    /\ stage = "registry" /\ registryPc = "done" /\ outcome[1] # "COMPLETE"
    /\ stage' = "fallback"
    /\ UNCHANGED <<arguments, results, fallbackVars, recoveryVars, registryVars,
                   flowVars, checkVars>>

\* build_structural_model; a ValueError means that the fallback is used.
BuildModel ==
    /\ stage = "registry" /\ registryPc = "done" /\ outcome[1] = "COMPLETE"
    /\ IF G!ModelRejected
         THEN stage' = "fallback" /\ UNCHANGED <<inst, residual, level, cursors>>
         ELSE /\ stage' = "flow"
              /\ inst' = G!CapacityModel
              /\ residual' = F!Network(inst')
              /\ level' = F!Unlabelled(inst')
              /\ cursors' = F!Uncursored(inst')
    /\ UNCHANGED <<formula, recovery, budget, witness, results, fallbackVars, recoveryVars,
                   registryVars, path, total, flowPc, answer, checkVars>>

Allocate ==
    /\ stage = "flow" /\ flowPc # "done"
    /\ F!Next
    /\ UNCHANGED <<stage, formula, recovery, budget, witness, results, fallbackVars,
                   recoveryVars, registryVars, checkVars>>

\* Mutation of Feasible: an allocation is taken for a model.
FeasibleIsSat ==
    /\ stage = "flow" /\ answer.result = "FEASIBLE"
    /\ stage' = "returned"
    /\ structural' = "FEASIBLE" /\ final' = "SATISFIABLE"
    /\ UNCHANGED <<arguments, fallbackVars, recoveryVars, registryVars, flowVars, checkVars>>

Feasible ==
    /\ stage = "flow" /\ answer.result = "FEASIBLE"
    /\ stage' = "fallback"
    /\ structural' = "FEASIBLE"
    /\ UNCHANGED <<arguments, final, fallbackVars, recoveryVars, registryVars,
                   flowVars, checkVars>>

---------------------------------------------------------------------------
(* The witness. *)

Kinds == [b \in DOMAIN boxes |-> "exact"]

Cut == FlowEntry(inst, answer.boxes, answer.resources, answer.cut)

\* An AssertionError of flow_box_test leaves solve_hybrid.
WriteWitness ==
    /\ stage = "flow" /\ flowPc = "done" /\ answer.result # "FEASIBLE"
    /\ IF answer.result = "UNSAT"
         THEN /\ stage' = "check"
              /\ witness' = CreateWitness(formula, records, boxes, Kinds, resources, Cut)
         ELSE stage' = "raised" /\ UNCHANGED witness
    /\ UNCHANGED <<formula, recovery, budget, inst, results, fallbackVars, recoveryVars,
                   registryVars, flowVars, checkVars>>

Check ==
    /\ stage = "check" /\ checkPc # "done"
    /\ W!Next
    /\ UNCHANGED <<stage, recovery, budget, inst, results, fallbackVars, recoveryVars,
                   registryVars, flowVars>>

\* A WitnessError is not caught either.
Conclude ==
    /\ stage = "check" /\ checkPc = "done"
    /\ IF ruling = "valid"
         THEN stage' = "returned" /\ structural' = "UNSAT" /\ final' = "UNSATISFIABLE"
         ELSE stage' = "raised" /\ UNCHANGED results
    /\ UNCHANGED <<arguments, fallbackVars, recoveryVars, registryVars, flowVars, checkVars>>

---------------------------------------------------------------------------
(* run_external_solver. *)

frontEnd == <<arguments, structural, recoveryVars, registryVars, flowVars, checkVars>>

StartFallback ==
    /\ stage = "fallback"
    /\ stage' = "wait"
    /\ child' = "running"
    /\ UNCHANGED <<frontEnd, final, output, code, timedOut>>

Oracle == INSTANCE Solver WITH answer <- final

\* The solver prints its result, which is taken to be right, or that it has
\* none.
ChildPrints ==
    /\ child = "running" /\ output = {}
    /\ output' \in {{Oracle!Truth(formula)}, {"UNKNOWN"}}
    /\ UNCHANGED <<stage, frontEnd, final, child, code, timedOut>>

ExitCode == [SATISFIABLE |-> 10, UNSATISFIABLE |-> 20]

\* It ends, with the code of its result or after a failure; it may lose
\* what it printed to a buffer, but not its code.
ChildExits ==
    /\ child = "running"
    /\ child' = "exited"
    /\ code' \in {0, 1, ExitCode[Oracle!Truth(formula)]}
    /\ UNCHANGED <<stage, frontEnd, final, output, timedOut>>

\* process.wait has raised; the child may still print, or end, before kill.
TimeoutExpires ==
    /\ stage = "wait" /\ child = "running"
    /\ timedOut' = TRUE
    /\ stage' = "kill"
    /\ UNCHANGED <<frontEnd, final, child, output, code>>

\* Mutation of Kill: the killed child is not waited for.
KillOnly ==
    /\ stage = "kill"
    /\ stage' = "log"
    /\ code' = IF child = "running" THEN -9 ELSE code
    /\ UNCHANGED <<frontEnd, final, child, output, timedOut>>

\* process.kill() and process.wait()
Kill ==
    /\ stage = "kill"
    /\ stage' = "log"
    /\ child' = "exited" /\ code' = IF child = "running" THEN -9 ELSE code
    /\ UNCHANGED <<frontEnd, final, output, timedOut>>

WaitReturns ==
    /\ stage = "wait" /\ child = "exited"
    /\ stage' = "log"
    /\ UNCHANGED <<frontEnd, final, fallbackVars>>

\* parse_status
ParseStatus(printed, exit, late) ==
    LET byCode == {s \in DOMAIN ExitCode : ExitCode[s] = exit}
        claimed == printed \cup byCode
    IN  IF late THEN "TIMEOUT"
        ELSE IF Cardinality(claimed) = 1 THEN CHOOSE s \in claimed : TRUE
        ELSE "ERROR"

ReadLog ==
    /\ stage = "log"
    /\ stage' = "returned"
    /\ final' = ParseStatus(output, code, timedOut)
    /\ UNCHANGED <<frontEnd, fallbackVars>>

\* solve_hybrid has returned.
Done == stage = "returned" /\ UNCHANGED vars

Run ==
    \/ Pass \/ Skip
    \/ Recover \/ Recovered
    \/ Register \/ RegistryOpen \/ BuildModel
    \/ Allocate \/ Feasible
    \/ WriteWitness \/ Check \/ Conclude
    \/ StartFallback \/ TimeoutExpires \/ Kill \/ WaitReturns \/ ReadLog

Next == Run \/ ChildPrints \/ ChildExits \/ Done

\* The hybrid is one thread and its clock runs; nothing is expected of the
\* solver it started.
Spec == Init /\ [][Next]_vars /\ WF_vars(Run)

---------------------------------------------------------------------------
(* The witness written from the records, boxes and cut that the recovery,  *)
(* the registry and the flow hand over always passes the checker, and the  *)
(* cut is the flow: the errors that solve_hybrid does not catch never      *)
(* happen.                                                                 *)
NeverRaises == stage # "raised"

(* A fallback solver that was started is gone when solve_hybrid returns,   *)
(* whether it ended in time, late, or had to be killed.                    *)
ChildReaped == final # "none" => child # "running"

(* solve_hybrid is a solver: whatever the front end finds, and whatever    *)
(* becomes of the fallback, it answers once, and a definite answer is      *)
(* right.                                                                  *)
ImplementsSolver == Oracle!Spec
=============================================================================
