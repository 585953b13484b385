-------------------------------- MODULE CNF --------------------------------
(***************************************************************************)
(* Clauses, resolution and satisfaction, as phase2/cnf.py uses them.       *)
(*                                                                         *)
(* A literal is a non-zero integer, a clause the set of its literals:      *)
(* canonical_clause sorts and de-duplicates, so a set keeps all that the   *)
(* code can tell apart.  An assignment is the set of the variables it      *)
(* makes true.                                                             *)
(***************************************************************************)
EXTENDS Integers, FiniteSets, FiniteSetsExt

Variable(l) == IF l < 0 THEN -l ELSE l

VariablesOf(C) == {Variable(l) : l \in C}

Tautology(C) == \E l \in C : -l \in C

\* Literals and clauses as canonical_clause leaves them.
Literal == Int \ {0}
Clause == {C \in SUBSET Literal : IsFiniteSet(C) /\ ~Tautology(C)}

\* As canon in native/core leaves them: complementary literals stay.
LiteralSet == {C \in SUBSET Literal : IsFiniteSet(C)}

\* The literals of C that clash with D.  The code collects their variables;
\* in non-tautological clauses no two of them have the same variable.
Pivots(C, D) == {l \in C : -l \in D}

\* Mutation of Resolvent: the right clause's other literals are lost.
LeftRemainder(C, D, p) == C \ {p}

Resolvent(C, D, p) == (C \ {p}) \cup (D \ {-p})

\* The clauses of a formula, which is a sequence of clauses.
ClausesOf(f) == {f[k] : k \in DOMAIN f}

\* original_occurrences: duplicate clauses of the input count each time.
OriginalOccurrences(f, v) ==
    Cardinality({k \in DOMAIN f : v \in VariablesOf(f[k])})

\* combinations_as_clauses: the clauses over k variables of g, all of one sign.
Combinations(g, k, sign) == {{sign * v : v \in S} : S \in kSubset(k, g)}

---------------------------------------------------------------------------
(* Satisfaction: what the clause database is about. *)

LiteralTrue(A, l) == IF l > 0 THEN l \in A ELSE -l \notin A

Satisfies(A, C) == \E l \in C : LiteralTrue(A, l)

\* How many literals of g are true.
Count(A, g) == Cardinality({l \in g : LiteralTrue(A, l)})

SatisfiesAll(A, F) == \A C \in F : Satisfies(A, C)

Entails(F, C) ==
    \A A \in SUBSET UNION {VariablesOf(D) : D \in F \cup {C}} :
        SatisfiesAll(A, F) => Satisfies(A, C)

Satisfiable(F) ==
    \E A \in SUBSET UNION {VariablesOf(D) : D \in F} : SatisfiesAll(A, F)
=============================================================================
