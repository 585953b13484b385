----------------------------- MODULE Resolution -----------------------------
(***************************************************************************)
(* What bounded_resolution (phase2/cnf.py) promises, without its agenda:   *)
(* a set of clauses, each with the depth of one derivation, that grows by  *)
(* one single-pivot resolvent at a time; it may be abandoned at any time,  *)
(* and is called COMPLETE only when no admissible resolvent is missing.    *)
(***************************************************************************)
EXTENDS CNF, Sequences

CONSTANTS Formulas, PivotLimit, MaxDepth, MaxSize

VARIABLES
    formula,  \* the input clauses
    depth,    \* the known clauses, each with its depth
    answer    \* "RUNNING", "COMPLETE" or "ABORT"

resVars == <<formula, depth, answer>>

\* C and D, which clash on the literal p of C alone, resolve to a clause
\* within the bounds.
Admissible(C, D, p) ==
    /\ OriginalOccurrences(formula, Variable(p)) <= PivotLimit
    /\ Pivots(C, D) = {p}
    /\ ~Tautology(Resolvent(C, D, p))
    /\ Cardinality(Resolvent(C, D, p)) <= MaxSize
    /\ depth[C] < MaxDepth /\ depth[D] < MaxDepth

Missing(C, D, p) ==
    Admissible(C, D, p) /\ Resolvent(C, D, p) \notin DOMAIN depth

Init ==
    /\ formula \in Formulas
    /\ depth = [C \in ClausesOf(formula) |-> 0]
    /\ answer = "RUNNING"

Infer ==
    /\ answer = "RUNNING"
    /\ \E C, D \in DOMAIN depth : \E p \in C :
         /\ Missing(C, D, p)
         /\ depth' = [E \in DOMAIN depth \cup {Resolvent(C, D, p)} |->
                        IF E \in DOMAIN depth THEN depth[E]
                        ELSE 1 + IF depth[C] > depth[D] THEN depth[C] ELSE depth[D]]
    /\ UNCHANGED <<formula, answer>>

Complete ==
    /\ answer = "RUNNING"
    /\ \A C, D \in DOMAIN depth : \A p \in C : ~Missing(C, D, p)
    /\ answer' = "COMPLETE"
    /\ UNCHANGED <<formula, depth>>

Abort ==
    /\ answer = "RUNNING"
    /\ answer' = "ABORT"
    /\ UNCHANGED <<formula, depth>>

Next == Infer \/ Complete \/ Abort

Spec == Init /\ [][Next]_resVars
=============================================================================
