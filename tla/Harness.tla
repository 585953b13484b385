------------------------------- MODULE Harness -------------------------------
(***************************************************************************)
(* The phase 1 harness (benchmark/harness.py): every solver on every file  *)
(* once, to see that they agree, and only then the measured runs.  A run   *)
(* is a child process in a session of its own, GNU time with the solver    *)
(* below it; the harness polls the child and reads the clock in turns      *)
(* while the child goes on.                                                *)
(***************************************************************************)
EXTENDS Integers, FiniteSets, Sequences, FiniteSetsExt, Functions

CONSTANTS
    Solvers,               \* config["solvers"]: a sequence of names
    MeasuredSeeds, Repetitions, Deadline,
    MaxMishaps             \* solver runs that go wrong, and interrupts

VARIABLES
    cnfs,       \* the files that the globs match: records of trailer and engines
    phase,      \* "main", "validation", "measurement" or "over"
    step,       \* the runs that the phase has made
    child,      \* the process of the current run
    looking,    \* run_solver: "spawn", "poll" or "clock"
    strays,     \* solvers that run on without a parent
    validated, measurements,   \* rows
    artifacts,  \* the reports in the output directory
    returned,   \* "none" before main returns
    mishaps

harnessVars == <<cnfs, phase, step, child, looking, strays, validated, measurements,
                 artifacts, returned, mishaps>>

Certain == {"SATISFIABLE", "UNSATISFIABLE"}

NoChild == [solver |-> "none", elapsed |-> 0, alive |-> {}, lines |-> {}, exit |-> -1]

HarnessInit ==
    /\ phase = "main" /\ step = 0 /\ child = NoChild /\ looking = "spawn" /\ strays = {}
    /\ validated = <<>> /\ measurements = <<>> /\ artifacts = {}
    /\ returned = "none" /\ mishaps = 0

Return(result, report) ==
    /\ phase' = "over" /\ returned' = result /\ artifacts' = artifacts \cup {report}

\* parse_dimacs takes a SATLIB trailer for a bad literal.
Malformed(file) == file.trailer

\* One file that is refused, or none that matches, ends it.
Discover ==
    /\ phase = "main"
    /\ IF cnfs = <<>> \/ \E k \in DOMAIN cnfs : Malformed(cnfs[k])
       THEN Return("2", "FAILED.txt")
       ELSE phase' = "validation" /\ UNCHANGED <<returned, artifacts>>
    /\ UNCHANGED <<cnfs, step, child, looking, strays, validated, measurements, mishaps>>

---------------------------------------------------------------------------
(* The runs of the two phases.                                             *)

Turned(cnf, repetition, seed) == (cnf + repetition + seed) % Len(Solvers)

ValidationJob(k) ==
    [file |-> (k \div Len(Solvers)) + 1, solver |-> Solvers[(k % Len(Solvers)) + 1]]

MeasurementJob(k) ==
    LET n == Len(Solvers)
        seed == (k \div n) % Len(MeasuredSeeds)
        repetition == ((k \div (n * Len(MeasuredSeeds))) % Repetitions) + 1
        cnf == k \div (n * Len(MeasuredSeeds) * Repetitions)
    IN  [file |-> cnf + 1,
         solver |-> Solvers[(((k % n) + Turned(cnf, repetition, seed)) % n) + 1]]

Jobs == Len(cnfs) * Len(Solvers)
          * (IF phase = "measurement" THEN Len(MeasuredSeeds) * Repetitions ELSE 1)

Job == IF phase = "measurement" THEN MeasurementJob(step) ELSE ValidationJob(step)

Engine == cnfs[Job.file].engines[child.solver]

ExitOf(status) == IF status = "SATISFIABLE" THEN 10 ELSE IF status = "UNSATISFIABLE" THEN 20 ELSE 0

---------------------------------------------------------------------------
(* run_solver                                                              *)

Spawn ==
    /\ phase \in {"validation", "measurement"} /\ looking = "spawn" /\ step < Jobs
    /\ child' = [NoChild EXCEPT !.solver = Job.solver, !.alive = {"time", "solver"}]
    /\ looking' = "poll"
    /\ UNCHANGED <<cnfs, phase, step, strays, validated, measurements, artifacts, returned,
                   mishaps>>

\* The clock does not stop when the child does.
Tick ==
    /\ looking # "spawn" /\ child.elapsed < Deadline
    /\ "solver" \in child.alive => child.elapsed < Engine.takes
    /\ child' = [child EXCEPT !.elapsed = @ + 1]
    /\ UNCHANGED <<cnfs, phase, step, looking, strays, validated, measurements, artifacts,
                   returned, mishaps>>

SolverEnds ==
    /\ "solver" \in child.alive /\ child.elapsed = Engine.takes
    /\ child' = [child EXCEPT !.alive = {}, !.lines = {Engine.says} \cap Certain,
                              !.exit = ExitOf(Engine.says)]
    /\ UNCHANGED <<cnfs, phase, step, looking, strays, validated, measurements, artifacts,
                   returned, mishaps>>

\* It dies before or after it has printed answers, which need not be right.
SolverFails ==
    /\ "solver" \in child.alive /\ mishaps < MaxMishaps /\ mishaps' = mishaps + 1
    /\ \E lines \in SUBSET Certain :
          child' = [child EXCEPT !.alive = {}, !.lines = lines, !.exit = 1]
    /\ UNCHANGED <<cnfs, phase, step, looking, strays, validated, measurements, artifacts,
                   returned>>

ParseStatus(lines, exit, timedOut) ==
    LET coded == {s \in Certain : ExitOf(s) = exit}
        told == lines \cup coded
    IN  IF timedOut THEN "TIMEOUT"
        ELSE IF Cardinality(told) = 1 THEN CHOOSE s \in told : TRUE ELSE "ERROR"

Verdict(file) == CHOOSE s \in Certain : \E k \in DOMAIN validated :
                     validated[k].file = file /\ validated[k].status = s

Mistaken(row) ==
    \/ row.status \notin Certain \cup {"TIMEOUT"}
    \/ row.status \in Certain /\ row.status # Verdict(row.file)

\* run_solver returns; the caller keeps the row, then looks at it.
RunReturns(timedOut) ==
    LET row == [file |-> Job.file, solver |-> Job.solver,
                status |-> ParseStatus(child.lines, child.exit, timedOut)]
    IN  /\ step' = step + 1 /\ looking' = "spawn"
        /\ IF phase = "validation"
           THEN /\ validated' = Append(validated, row)
                /\ UNCHANGED <<phase, measurements, artifacts, returned>>
           ELSE /\ measurements' = Append(measurements, row) /\ UNCHANGED validated
                /\ IF Mistaken(row) THEN Return("2", "FAILED.txt")
                   ELSE UNCHANGED <<phase, artifacts, returned>>

Poll ==
    /\ looking = "poll"
    /\ IF child.alive = {}
       THEN RunReturns(FALSE) /\ child' = NoChild
       ELSE looking' = "clock"
            /\ UNCHANGED <<phase, step, child, validated, measurements, artifacts, returned>>
    /\ UNCHANGED <<cnfs, strays, mishaps>>

\* Mutation: process.kill() instead of the process group.
KillLeader(alive) == {"time"}

\* terminate_process: the processes it ends
KillGroup(alive) == alive

\* The child may have ended since the poll; it is called TIMEOUT all the same.
ReadClock ==
    /\ looking = "clock"
    /\ IF child.elapsed >= Deadline
       THEN /\ RunReturns(TRUE) /\ child' = NoChild
            /\ strays' = strays \cup ((child.alive \ KillGroup(child.alive)) \cap {"solver"})
       ELSE /\ looking' = "poll"
            /\ UNCHANGED <<phase, step, child, strays, validated, measurements, artifacts,
                           returned>>
    /\ UNCHANGED <<cnfs, mishaps>>

---------------------------------------------------------------------------
(* validate_agreement, benchmark, main                                     *)

Unanimous(file) ==
    LET statuses == {validated[k].status : k \in {k \in DOMAIN validated :
                                                    validated[k].file = file}}
    IN  Cardinality(statuses) = 1 /\ statuses \subseteq Certain

EndValidation ==
    /\ phase = "validation" /\ looking = "spawn" /\ step = Jobs
    /\ step' = 0
    /\ IF \A file \in DOMAIN cnfs : Unanimous(file)
       THEN phase' = "measurement" /\ UNCHANGED <<returned, artifacts>>
       ELSE Return("2", "FAILED.txt")
    /\ UNCHANGED <<cnfs, child, looking, strays, validated, measurements, mishaps>>

Summarize ==
    /\ phase = "measurement" /\ looking = "spawn" /\ step = Jobs
    /\ Return("0", "summary.json")
    /\ UNCHANGED <<cnfs, step, child, looking, strays, validated, measurements, mishaps>>

\* An interrupt is none of the exceptions of main, and the child's session does not get it.
Interrupt ==
    /\ phase \in {"validation", "measurement"} /\ mishaps < MaxMishaps
    /\ mishaps' = mishaps + 1 /\ phase' = "over" /\ returned' = "interrupted"
    /\ looking' = "spawn" /\ child' = NoChild /\ strays' = child.alive \cap {"solver"}
    /\ UNCHANGED <<cnfs, step, validated, measurements, artifacts>>

HarnessNext ==
    \/ Discover \/ Spawn \/ Tick \/ SolverEnds \/ SolverFails \/ Poll \/ ReadClock
    \/ EndValidation \/ Summarize \/ Interrupt

---------------------------------------------------------------------------
(* Properties.                                                             *)

\* While a run is measured no solver of an earlier run is alive, and none outlives the
\* harness, unless it is interrupted.
RunsAlone == returned # "interrupted" => strays = {}
=============================================================================
