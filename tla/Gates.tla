-------------------------------- MODULE Gates --------------------------------
(***************************************************************************)
(* fast_cheap_gate and benefit_gate (phase2/structure.py), which decide    *)
(* whether the structural front end is worth running on a formula, and the *)
(* fast_gate and benefit_gate of the native engine, which are the same.    *)
(***************************************************************************)
EXTENDS CNF, Sequences

CONSTANTS MinSignal, MaxClauses, MaxPairs  \* config["benefit_gate"]

ASSUME GatesAssumption == MinSignal \in Nat /\ MaxClauses \in Nat /\ MaxPairs \in Nat

\* monotone_positive_clauses, monotone_negative_clauses
Monotones(f, sign) ==
    Cardinality({k \in DOMAIN f : Cardinality(f[k]) >= 2 /\ \A l \in f[k] : sign * l > 0})

Mirrored(C, l) == (C \ {l}) \cup {-l}

\* mirror_pairs
MirrorPairs(f) ==
    Cardinality({p \in UNION {{k} \X f[k] : k \in DOMAIN f} :
        p[2] > 0 /\ Mirrored(f[p[1]], p[2]) \in ClausesOf(f)})

LiteralOccurrences(f, l) == Cardinality({k \in DOMAIN f : l \in f[k]})

\* estimated_resolution_pairs
EstimatedPairs(f) ==
    MapThenSumSet(LAMBDA v : LiteralOccurrences(f, v) * LiteralOccurrences(f, -v),
                  UNION {VariablesOf(C) : C \in ClausesOf(f)})

\* signal_count
Signal(f) == Monotones(f, 1) + Monotones(f, -1) + 2 * MirrorPairs(f)

Structured(f) == (Monotones(f, 1) > 0 /\ Monotones(f, -1) > 0) \/ MirrorPairs(f) > 0

Beneficial(f) ==
    /\ Signal(f) >= MinSignal
    /\ Len(f) <= MaxClauses
    /\ EstimatedPairs(f) <= MaxPairs
=============================================================================
