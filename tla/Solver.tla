------------------------------- MODULE Solver -------------------------------
(***************************************************************************)
(* What a caller expects of a solver run, and all it may rely on: one      *)
(* answer, which is right if it is definite.                               *)
(***************************************************************************)
EXTENDS CNF, Sequences

CONSTANT Formulas

VARIABLES formula, answer

solverVars == <<formula, answer>>

Definite == {"SATISFIABLE", "UNSATISFIABLE"}

Truth(f) == IF Satisfiable(ClausesOf(f)) THEN "SATISFIABLE" ELSE "UNSATISFIABLE"

Init == formula \in Formulas /\ answer = "none"

Answer ==
    /\ answer = "none"
    /\ answer' \in {Truth(formula), "UNKNOWN", "TIMEOUT", "ERROR"}
    /\ UNCHANGED formula

Next == Answer

Spec == Init /\ [][Next]_solverVars /\ WF_solverVars(Next)
=============================================================================
