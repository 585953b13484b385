----------------------------- MODULE Registries -----------------------------
(***************************************************************************)
(* The registry engines side by side on one clause database and one        *)
(* budget, as phase4c/run_phase4c.py compares them: the accepted scan, the *)
(* indexed search, and the indexed search with one-sided boxes, one after  *)
(* the other in the same variables.                                        *)
(***************************************************************************)
EXTENDS RegistryIndexed

VARIABLES
    engine,   \* the one that runs
    found     \* what the ones before it returned

vars == <<indexedVars, engine, found>>

Engines == <<"scan", "indexed", "one_sided">>

Result == [boxes |-> boxes, resources |-> resources, outcome |-> outcome,
           refuted |-> Refuted]

Init ==
    /\ recovery \in Databases /\ budget \in Budgets
    /\ FreshIndexed /\ oneSided = FALSE
    /\ engine = 1 /\ found = <<>>

Search ==
    /\ pc # "done"
    /\ IF Engines[engine] = "scan"
         THEN Next /\ UNCHANGED <<indexVars, oneSided>>
         ELSE Indexed
    /\ UNCHANGED <<engine, found>>

Restart ==
    /\ pc = "done" /\ engine < Len(Engines)
    /\ engine' = engine + 1
    /\ found' = Append(found, Result)
    /\ pc' = "pairs" /\ pair' = 0 /\ checks' = 0
    /\ candidates' = {} /\ boxes' = <<>>
    /\ size' = 1 /\ untried' = {} /\ group' = {}
    /\ families' = {} /\ resources' = <<>>
    /\ outcome' = <<"RUNNING", "none">>
    /\ examined' = {} /\ rejected' = {} /\ exact' = 0
    /\ oneSided' = (Engines[engine'] = "one_sided")
    /\ UNCHANGED search

Finished == pc = "done" /\ engine = Len(Engines) /\ UNCHANGED vars

Compare == Search \/ Restart \/ Finished

Spec == Init /\ [][Compare]_vars

---------------------------------------------------------------------------
Models == {A \in SUBSET UNION {VariablesOf(C) : C \in Clauses} :
             SatisfiesAll(A, Clauses)}

OneSidedBox(b) == Engines[engine] # "scan" /\ b > exact

(* A selected box is what its name says, in every engine and also when the *)
(* budget ends the search: each model of the clauses makes exactly demand  *)
(* variables of the group true, at least one of a one-sided group, and no  *)
(* resource lets more than its capacity through.                           *)
FamiliesHold ==
    pc = "done" =>
        \A A \in Models :
            /\ \A b \in DOMAIN boxes :
                 IF OneSidedBox(b) THEN Cardinality(A \cap boxes[b].group) >= boxes[b].demand
                 ELSE Cardinality(A \cap boxes[b].group) = boxes[b].demand
            /\ \A r \in DOMAIN resources :
                 Cardinality(A \cap resources[r].group) <= resources[r].capacity

(* What the pipeline stakes its answer on: greedy selection, of boxes and  *)
(* again of resources, leaves a COMPLETE registry with one resource for    *)
(* each boxed variable, so build_structural_model never raises, and when   *)
(* its capacity instance is infeasible the clauses have no model.          *)
RefutationIsSound ==
    outcome[1] = "COMPLETE" =>
        /\ ~ModelRejected
        /\ ExhaustiveBoxTest(CapacityModel) = "UNSAT" => Models = {}

OutOfBudget(result) == result.outcome[2] = "family_check_budget"

(* When the budget ends neither search, the index has changed nothing:     *)
(* same status, boxes and resources as the scan of all pairs (test_phase4c *)
(* checks it with an unbounded budget).                                    *)
SameWhenUnbounded ==
    pc = "done" /\ Engines[engine] = "indexed" =>
        \/ OutOfBudget(found[1]) \/ OutOfBudget(Result)
        \/ Result = found[1]

(* Charging lookups instead of whole families never costs a box: on the    *)
(* same budget the indexed search keeps every box of the scan, although it *)
(* also pays for what the scan got free and may be the one to run out.     *)
NeverFewerBoxes ==
    pc = "done" /\ Engines[engine] = "indexed" =>
        found[1].boxes = <<>> \/ boxes = found[1].boxes
=============================================================================
