------------------------------- MODULE Transfer -------------------------------
(***************************************************************************)
(* Part B of the phase 4B campaign for one instance: a run of the native   *)
(* binary that writes the lemmas, their offline verification, and a run in *)
(* one of the arms of the ablation: with the fallback alone, or with the   *)
(* lemmas generated again and those that were accepted given to CaDiCaL    *)
(* (solve_main in native/phase4b/lkk_native4b.cpp; native_run,             *)
(* generate_and_verify, part_b_ablation and main in                        *)
(* phase4b/run_phase4b.py).                                                *)
(*                                                                         *)
(* Recovery has a clock, so the second run need not recover what the first *)
(* one did: it gets any database of the same formula.                      *)
(***************************************************************************)
EXTENDS LemmaBridge

VARIABLES
    stage,     \* "generate", "verify", "rerun", "solve", "report", "returned", "raised"
    document,  \* the lemma document, a record once it is written
    arm,       \* which command line the binary was started with
    injected,  \* clauses given to CaDiCaL on top of the formula
    final,     \* final_result of the second run, "none" before there is one
    status     \* native_run's status of the second run, "none" before it returns

\* Local variables of the offline verification.
VARIABLES checkPc, checked, proven, replayErrors, supported, familyErrors,
          accepted, refuted

checkVars == <<checkPc, checked, proven, replayErrors, supported, familyErrors,
               accepted, refuted>>
secondRun == <<arm, injected, final, status>>
transferVars == <<bridgeVars, stage, document, secondRun, checkVars>>

C == INSTANCE LemmaCheck
       WITH pc <- checkPc, at <- checked, cnf <- recovery.formula, doc <- document,
            Documents <- {}

Unwritten == [lemmas |-> <<>>]

TransferInit ==
    /\ BridgeInit
    /\ stage = "generate" /\ document = Unwritten
    /\ arm = "generate" /\ injected = {} /\ final = "none" /\ status = "none"
    /\ C!Fresh

\* Those of part_b_ablation that are runs of this binary.
Arms == {"lkk_cadical", "lkk_kissat", "lemma_cadical"}

LemmasOn == arm \notin {"lkk_cadical", "lkk_kissat"}

\* The steps of the harvest are also those of registry(), which runs in each arm.
FrontEndDone == task = "done" \/ (task # "harvest" /\ ~LemmasOn)

Run ==
    /\ stage \in {"generate", "rerun"} /\ ~FrontEndDone
    /\ BridgeNext
    /\ UNCHANGED <<stage, document, secondRun, checkVars>>

---------------------------------------------------------------------------
(* The run with --generate-only. *)
Records ==
    [i \in DOMAIN recovery.clauses |->
        [clause |-> recovery.clauses[i], original |-> recovery.steps[i].original,
         parentA |-> recovery.steps[i].a, parentB |-> recovery.steps[i].b,
         pivot |-> recovery.steps[i].pivot]]

\* The generator numbers the resources it selects from 0.
Numbered ==
    [r \in DOMAIN resources |->
        [id |-> r - 1, group |-> resources[r].group, capacity |-> resources[r].capacity]]

\* Mutation of Document: the families are written, the recovery is not.
DocumentWithoutSteps ==
    [database  |-> SelectSeq(Records, LAMBDA r : r.original),
     boxes     |-> boxes,
     resources |-> Numbered,
     lemmas    |-> lemmas]

Document ==
    [database  |-> Records,
     boxes     |-> boxes,
     resources |-> Numbered,
     lemmas    |-> lemmas]

\* write_lemmas
Write ==
    /\ stage = "generate" /\ task = "done" /\ ~StructurallyRefuted
    /\ document' = Document
    /\ stage' = "verify"
    /\ UNCHANGED <<bridgeVars, secondRun, checkVars>>

\* The timeout kills the run while it writes, and the document is no JSON.
TornDocument ==
    /\ stage = "generate" /\ task = "done" /\ ~StructurallyRefuted
    /\ stage' = "raised"
    /\ UNCHANGED <<bridgeVars, document, secondRun, checkVars>>

\* A new process, whose recovery may end elsewhere.
Start(d) ==
    /\ stage' = "rerun" /\ arm' \in Arms
    /\ recovery' = d
    /\ pc' = "pairs" /\ pair' = 0 /\ checks' = 0
    /\ candidates' = {} /\ boxes' = <<>>
    /\ size' = 1 /\ untried' = {} /\ group' = {}
    /\ families' = {} /\ resources' = <<>>
    /\ boxHit' = FALSE /\ resourceHit' = FALSE
    /\ task' = "harvest" /\ family' = 1 /\ tried' = 0 /\ lemmas' = <<>> /\ flowCalls' = 0 /\ note' = "none"
    /\ UNCHANGED <<outcome, budget, registryBudget, injected, final, status>>

Rerun == \E d \in {e \in Databases : e.formula = recovery.formula} : Start(d)

\* The run was killed by its timeout, or had an answer: there is no document
\* and no accepted file, and the second run is given none.
NoDocument ==
    /\ stage = "generate"
    /\ task = "done" => StructurallyRefuted
    /\ Rerun
    /\ UNCHANGED <<document, checkVars>>

---------------------------------------------------------------------------
Verifying ==
    /\ stage = "verify" /\ checkPc \notin {"done", "raised"}
    /\ UNCHANGED <<bridgeVars, stage, secondRun>>
    /\ C!Verify

Verified ==
    /\ stage = "verify" /\ checkPc = "done" /\ refuted = {}
    /\ Rerun
    /\ UNCHANGED <<document, checkVars>>

\* A refuted lemma stops the campaign, an exception ends it.
Stopped ==
    /\ stage = "verify"
    /\ \/ checkPc = "raised"
       \/ checkPc = "done" /\ refuted # {}
    /\ stage' = "raised"
    /\ UNCHANGED <<bridgeVars, document, secondRun, checkVars>>

---------------------------------------------------------------------------
(* The second run, of solve_main. *)
AnswerStructurally ==
    /\ stage = "rerun" /\ FrontEndDone /\ StructurallyRefuted
    /\ final' = "UNSATISFIABLE"
    /\ stage' = "report"
    /\ UNCHANGED <<bridgeVars, document, arm, injected, status, checkVars>>

\* read_accepted: what is generated and was accepted.
Inject ==
    /\ stage = "rerun" /\ FrontEndDone /\ ~StructurallyRefuted
    /\ injected' = IF LemmasOn THEN {lemmas[i].clause : i \in DOMAIN lemmas} \cap accepted
                   ELSE {}
    /\ stage' = "solve"
    /\ UNCHANGED <<bridgeVars, document, arm, final, status, checkVars>>

\* What a solver returns for the clauses it was given, or gives up with.
Returned == {0, IF Satisfiable(ClausesOf(recovery.formula) \cup injected) THEN 10 ELSE 20}

Reading(code) ==
    CASE code = 10 -> "SATISFIABLE" [] code = 20 -> "UNSATISFIABLE" [] OTHER -> "UNKNOWN"

RunCadical ==
    /\ stage = "solve" /\ arm # "lkk_kissat"
    /\ \E code \in Returned : final' = Reading(code)
    /\ stage' = "report"
    /\ UNCHANGED <<bridgeVars, document, arm, injected, status, checkVars>>

\* A child of its own, which may not be found (127) or be ended by a signal (-1).
RunKissat ==
    /\ stage = "solve" /\ arm = "lkk_kissat"
    /\ \E code \in Returned \cup {127, -1} : final' = Reading(code)
    /\ stage' = "report"
    /\ UNCHANGED <<bridgeVars, document, arm, injected, status, checkVars>>

ForkFails ==
    /\ stage = "solve" /\ arm = "lkk_kissat"
    /\ stage' = "returned" /\ status' = "ERROR"
    /\ UNCHANGED <<bridgeVars, document, arm, injected, final, checkVars>>

\* `timeout --signal=KILL`: whatever was printed is not looked at.
Killed ==
    /\ stage \in {"rerun", "solve", "report"}
    /\ stage' = "returned" /\ status' = "TIMEOUT"
    /\ UNCHANGED <<bridgeVars, document, arm, injected, final, checkVars>>

Report ==
    /\ stage = "report"
    /\ stage' = "returned" /\ status' = final
    /\ UNCHANGED <<bridgeVars, document, arm, injected, final, checkVars>>

\* The process has returned or the campaign has ended.
Over == stage \in {"returned", "raised"} /\ UNCHANGED transferVars

\* What happens when no timeout interferes.
Progress ==
    \/ Run \/ Write \/ (task = "done" /\ NoDocument)
    \/ Verifying \/ Verified \/ Stopped
    \/ AnswerStructurally \/ Inject \/ RunCadical \/ RunKissat \/ ForkFails
    \/ Report

TransferNext == Progress \/ NoDocument \/ TornDocument \/ Killed \/ Over

\* One process at a time.  Only the solvers may depend on the timeout to end.
TransferSpec ==
    /\ TransferInit /\ [][TransferNext]_transferVars
    /\ WF_transferVars(Progress \/ (stage = "solve" /\ Killed))

---------------------------------------------------------------------------
Formula == ClausesOf(recovery.formula)

(* Every lemma that is generated follows from the formula, whatever part   *)
(* of the structure the budgets left of the harvest and however early the  *)
(* recovery was stopped.  The list only grows, so its end is enough.       *)
(* restrict_to_covered: "dropping a variable would strengthen the          *)
(* at-least-r side into something the CNF does not imply".  When the sub-  *)
(* model is infeasible the formula is unsatisfiable, and the verifier      *)
(* agrees on whether it is.                                                *)
ConclusionsImplied ==
    /\ task = "done" => \A i \in DOMAIN lemmas : Entails(Formula, lemmas[i].clause)
    /\ note = "structural_unsat" => ~Satisfiable(Formula)
    /\ stage = "verify" => (note = "structural_unsat" <=> C!StructuralResult = "UNSAT")

(* Generator and verifier, written apart, agree: verification of a document *)
(* the generator wrote raises nothing, complains about nothing, confirms   *)
(* each lemma on its own account and has nothing refuted.  Only a formula  *)
(* with a tautological clause, which the native parser takes and parse_cnf *)
(* does not, ends it with an exception.                                    *)
VerifierConfirms ==
    stage = "verify" /\ ~(\E D \in Formula : Tautology(D)) =>
        /\ replayErrors = {} /\ familyErrors = {} /\ refuted = {}
        /\ checkPc # "raised"
        /\ checkPc = "lemmas" =>
             \A i \in DOMAIN document.lemmas : C!StructurallyOk(document.lemmas[i])

(* LemmaBridge "never changes the answer": in every arm the second run     *)
(* answers what the formula is, or nothing, wherever it is killed and      *)
(* whatever becomes of its child.                                          *)
AnswerUnchanged ==
    /\ status = "SATISFIABLE" => Satisfiable(Formula)
    /\ status = "UNSATISFIABLE" => ~Satisfiable(Formula)

(* The campaign gets past the instance, and of what it starts only the     *)
(* solvers need their timeout for that: the budgets end the front end and  *)
(* the generation of lemmas.                                               *)
TransferTerminates == <>(stage \in {"returned", "raised"})
=============================================================================
