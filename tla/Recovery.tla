------------------------------ MODULE Recovery ------------------------------
(***************************************************************************)
(* bounded_resolution (phase2/cnf.py): closes the clauses of a CNF under   *)
(* single-pivot resolution, within bounds on depth, clause size, number of *)
(* derived clauses, memory and time.  The registry reads its records only  *)
(* when the verdict is COMPLETE; the witness checker replays them.         *)
(*                                                                         *)
(* A clause id is a position in records, counted from 1.  The index from a *)
(* literal to the ids of the clauses that contain it grows exactly when    *)
(* records does, so it is read off records (Occurrences).                  *)
(***************************************************************************)
EXTENDS CNF, Sequences

CONSTANTS
    Formulas,       \* the inputs: a set of sequences of clauses
    PivotLimit,     \* pivot_occurrence_limit
    MaxDepth,       \* max_resolution_depth
    MaxSize,        \* max_clause_size
    DerivedBudget,  \* derived_clause_budget
    MemoryBudget    \* memory_budget_bytes

ASSUME BoundsAssumption ==
    /\ PivotLimit \in Nat
    /\ MaxDepth \in Nat
    /\ MaxSize \in Nat
    /\ DerivedBudget \in Nat
    /\ MemoryBudget \in Nat

\* What parse_cnf returns: clauses are finite and never tautological.
ASSUME FormulasAssumption == Formulas \subseteq Seq(Clause)

VARIABLES
    formula,  \* cnf.clauses
    pc,       \* "load", "agenda", "scan" or "done"
    loaded,   \* clauses of the formula read so far
    records,  \* the clause database
    agenda,   \* ids to be resolved as the left clause
    cursor,   \* agenda_index
    left,     \* id of the current left clause, 0 when there is none
    lits,     \* its literals still to be tried
    rights,   \* right_id's left of the snapshot for the current literal
    seen,     \* seen_pairs, as two-element sets
    derived,  \* derived_count
    bytes,    \* estimated_bytes
    verdict   \* <<status, reason>>

input == <<formula, loaded>>
database == <<records, agenda, derived, bytes>>
scan == <<left, lits, rights, seen>>
vars == <<formula, pc, loaded, records, agenda, cursor, left, lits, rights,
          seen, derived, bytes, verdict>>

Record == [clause : Clause, depth : Nat, original : BOOLEAN,
           parentA : Nat, parentB : Nat, pivot : Int]

Verdicts == {<<"RUNNING", "none">>, <<"COMPLETE", "fixed_point">>,
             <<"ABORT", "time_budget">>,
             <<"ABORT", "derived_clause_budget">>,
             <<"ABORT", "memory_budget">>}

Ids == DOMAIN records
Known == {records[i].clause : i \in Ids}

MayPivot(l) == OriginalOccurrences(formula, Variable(l)) <= PivotLimit

Occurrences(l) == {i \in Ids : l \in records[i].clause}

ClauseBytes(C) == 64 + 8 * Cardinality(C)

\* Mutation of Deeper: the depth of the left clause alone counts.
LeftDepthOnly(i, j) == 1 + records[i].depth

Deeper(i, j) ==
    1 + IF records[i].depth > records[j].depth
          THEN records[i].depth ELSE records[j].depth

---------------------------------------------------------------------------
Init ==
    /\ formula \in Formulas
    /\ pc = "load" /\ loaded = 0
    /\ records = <<>> /\ agenda = <<>> /\ cursor = 0
    /\ left = 0 /\ lits = {} /\ rights = {} /\ seen = {}
    /\ derived = 0 /\ bytes = 0
    /\ verdict = <<"RUNNING", "none">>

\* finish(status, reason)
Finish(status, reason) ==
    /\ pc' = "done"
    /\ verdict' = <<status, reason>>

AddRecord(r) ==
    /\ records' = Append(records, r)
    /\ agenda' = Append(agenda, Len(records) + 1)
    /\ bytes' = bytes + ClauseBytes(r.clause)

OriginalRecord(C) ==
    [clause |-> C, depth |-> 0, original |-> TRUE,
     parentA |-> 0, parentB |-> 0, pivot |-> 0]

(* The loop over cnf.clauses. *)
LoadClause ==
    /\ pc = "load" /\ loaded < Len(formula)
    /\ formula[loaded + 1] \notin Known
    /\ AddRecord(OriginalRecord(formula[loaded + 1]))
    /\ loaded' = loaded + 1
    /\ UNCHANGED <<formula, pc, cursor, scan, derived, verdict>>

LoadDuplicate ==
    /\ pc = "load" /\ loaded < Len(formula)
    /\ formula[loaded + 1] \in Known
    /\ loaded' = loaded + 1
    /\ UNCHANGED <<formula, pc, cursor, scan, database, verdict>>

LoadDone ==
    /\ pc = "load" /\ loaded = Len(formula)
    /\ pc' = "agenda"
    /\ UNCHANGED <<input, cursor, scan, database, verdict>>

(* The outer loop: the clock is read only here, before an id is taken. *)
TimeAbort ==
    /\ pc = "agenda" /\ cursor < Len(agenda)
    /\ Finish("ABORT", "time_budget")
    /\ UNCHANGED <<input, cursor, scan, database>>

\* Mutation of PopAgenda: agenda_index is not advanced.
PeekAgenda ==
    /\ pc = "agenda" /\ cursor < Len(agenda)
    /\ pc' = "scan"
    /\ left' = agenda[cursor + 1]
    /\ lits' = records[agenda[cursor + 1]].clause
    /\ UNCHANGED <<input, cursor, rights, seen, database, verdict>>

PopAgenda ==
    /\ pc = "agenda" /\ cursor < Len(agenda)
    /\ pc' = "scan"
    /\ cursor' = cursor + 1
    /\ left' = agenda[cursor + 1]
    /\ lits' = records[agenda[cursor + 1]].clause
    /\ UNCHANGED <<input, rights, seen, database, verdict>>

FixedPoint ==
    /\ pc = "agenda" /\ cursor = Len(agenda)
    /\ Finish("COMPLETE", "fixed_point")
    /\ UNCHANGED <<input, cursor, scan, database>>

(* The loop over the literals of the left clause, in their sorted order. *)
NextLiteral(l) ==
    /\ pc = "scan" /\ rights = {}
    /\ l \in lits
    /\ \A m \in lits : Variable(l) <= Variable(m)

SkipLiteral ==
    \E l \in lits :
        /\ NextLiteral(l) /\ ~MayPivot(l)
        /\ lits' = lits \ {l}
        /\ UNCHANGED <<input, pc, cursor, left, rights, seen, database, verdict>>

\* tuple(literal_index.get(-literal)): clauses derived while these ids are
\* visited are not among them.
OpenLiteral ==
    \E l \in lits :
        /\ NextLiteral(l) /\ MayPivot(l)
        /\ lits' = lits \ {l}
        /\ rights' = Occurrences(-l)
        /\ UNCHANGED <<input, pc, cursor, left, seen, database, verdict>>

EndLeft ==
    /\ pc = "scan" /\ lits = {} /\ rights = {}
    /\ pc' = "agenda"
    /\ left' = 0
    /\ UNCHANGED <<input, cursor, lits, rights, seen, database, verdict>>

(* The loop over the right ids, ascending. *)
NextRight(r) ==
    /\ pc = "scan"
    /\ r \in rights
    /\ \A s \in rights : r <= s
    /\ rights' = rights \ {r}

\* Mutation of Fresh: an id that was in any pair is not tried again.
UnseenId(r) == r # left /\ \A s \in seen : r \notin s

Fresh(r) == r # left /\ {left, r} \notin seen

SkipPair ==
    \E r \in rights :
        /\ NextRight(r) /\ ~Fresh(r)
        /\ UNCHANGED <<input, pc, cursor, left, lits, seen, database, verdict>>

Visit(r) ==
    /\ NextRight(r) /\ Fresh(r)
    /\ seen' = seen \cup {{left, r}}
    /\ UNCHANGED <<input, cursor, left, lits>>

\* Mutation of Resolves: neither two pivots nor a tautology stop it.
ResolvesCarelessly(i, j, p) ==
    /\ Deeper(i, j) <= MaxDepth
    /\ p \in Pivots(records[i].clause, records[j].clause)
    /\ LET R == Resolvent(records[i].clause, records[j].clause, p)
       IN  Cardinality(R) <= MaxSize /\ R \notin Known

\* Mutation of Resolves: the depth of the deeper parent is limited, not that of
\* the resolvent.
ResolvesTooDeep(i, j, p) ==
    /\ Deeper(i, j) <= MaxDepth + 1
    /\ Pivots(records[i].clause, records[j].clause) = {p}
    /\ LET R == Resolvent(records[i].clause, records[j].clause, p)
       IN  ~Tautology(R) /\ Cardinality(R) <= MaxSize /\ R \notin Known

\* Ids i and j resolve on the literal p of i to a clause worth recording.
Resolves(i, j, p) ==
    /\ Deeper(i, j) <= MaxDepth
    /\ Pivots(records[i].clause, records[j].clause) = {p}
    /\ LET R == Resolvent(records[i].clause, records[j].clause, p)
       IN  /\ ~Tautology(R)
           /\ Cardinality(R) <= MaxSize
           /\ R \notin Known

ResolventOf(r, p) == Resolvent(records[left].clause, records[r].clause, p)

\* Mutation of DerivedRecord: the parents are swapped, the pivot is not.
SwappedParents(r, p) ==
    [clause |-> ResolventOf(r, p), depth |-> Deeper(left, r), original |-> FALSE,
     parentA |-> r, parentB |-> left, pivot |-> p]

DerivedRecord(r, p) ==
    [clause |-> ResolventOf(r, p), depth |-> Deeper(left, r), original |-> FALSE,
     parentA |-> left, parentB |-> r, pivot |-> p]

Fits(r, p) == bytes + ClauseBytes(ResolventOf(r, p)) <= MemoryBudget

RejectPair ==
    \E r \in rights :
        /\ Visit(r)
        /\ \A p \in records[left].clause : ~Resolves(left, r, p)
        /\ UNCHANGED <<pc, database, verdict>>

DerivedAbort ==
    \E r \in rights : \E p \in records[left].clause :
        /\ Visit(r) /\ Resolves(left, r, p)
        /\ derived >= DerivedBudget
        /\ Finish("ABORT", "derived_clause_budget")
        /\ UNCHANGED database

MemoryAbort ==
    \E r \in rights : \E p \in records[left].clause :
        /\ Visit(r) /\ Resolves(left, r, p)
        /\ derived < DerivedBudget
        /\ ~Fits(r, p)
        /\ Finish("ABORT", "memory_budget")
        /\ UNCHANGED database

Derive ==
    \E r \in rights : \E p \in records[left].clause :
        /\ Visit(r) /\ Resolves(left, r, p)
        /\ derived < DerivedBudget
        /\ Fits(r, p)
        /\ AddRecord(DerivedRecord(r, p))
        /\ derived' = derived + 1
        /\ UNCHANGED <<pc, verdict>>

\* bounded_resolution has returned.
Done == pc = "done" /\ UNCHANGED vars

Next ==
    \/ LoadClause \/ LoadDuplicate \/ LoadDone
    \/ TimeAbort \/ PopAgenda \/ FixedPoint
    \/ SkipLiteral \/ OpenLiteral \/ EndLeft
    \/ SkipPair \/ RejectPair \/ DerivedAbort \/ MemoryAbort \/ Derive
    \/ Done

Spec == Init /\ [][Next]_vars

\* The loop is one thread that nothing blocks.
FairSpec == Spec /\ WF_vars(Next)

---------------------------------------------------------------------------
TypeOK ==
    /\ formula \in Formulas
    /\ pc \in {"load", "agenda", "scan", "done"}
    /\ loaded \in 0 .. Len(formula)
    /\ records \in Seq(Record)
    /\ agenda \in Seq(Nat)
    /\ cursor \in 0 .. Len(agenda)
    /\ left \in 0 .. Len(records)
    /\ lits \in SUBSET Literal
    /\ rights \in SUBSET Ids
    /\ seen \in SUBSET SUBSET Ids
    /\ derived \in Nat
    /\ bytes \in Nat
    /\ verdict \in Verdicts

(* Every clause in the database, derived or not, holds under every         *)
(* assignment that satisfies the input: the registry builds boxes out of   *)
(* any of them.                                                            *)
Sound ==
    \A i \in Ids : Entails(ClausesOf(formula), records[i].clause)

(* What replay_database and the witness checker rely on: ids are numbered  *)
(* so that the parents of a derived clause come first, they clash on the   *)
(* recorded pivot alone, and the clause and its depth follow from them;    *)
(* originals come before all derived clauses.                              *)
Justified(i) ==
    LET r == records[i]
    IN  IF r.original
          THEN /\ r.depth = 0
               /\ r.clause \in ClausesOf(formula)
               /\ \A j \in 1 .. i : records[j].original
          ELSE /\ r.parentA \in 1 .. i - 1 /\ r.parentB \in 1 .. i - 1
               /\ Pivots(records[r.parentA].clause, records[r.parentB].clause)
                    = {r.pivot}
               /\ r.clause = Resolvent(records[r.parentA].clause,
                                       records[r.parentB].clause, r.pivot)
               /\ r.depth = Deeper(r.parentA, r.parentB)

Replayable == \A i \in Ids : Justified(i)

(* No clause is recorded twice, so clause_to_id names one id per clause.   *)
Distinct ==
    \A i, j \in Ids : records[i].clause = records[j].clause => i = j

(* COMPLETE, "fixed_point": no pair of recorded clauses that may pivot     *)
(* still has a recordable resolvent.  The snapshot of right ids misses     *)
(* clauses derived later; those are resolved when they are the left one.   *)
Closed ==
    \A i, j \in Ids : \A p \in records[i].clause :
        MayPivot(p) => ~Resolves(i, j, p)

ClosedWhenComplete == verdict[1] = "COMPLETE" => Closed

(* Some pair still resolves to a clause that memory has no room for. *)
MemoryShort ==
    \E i, j \in Ids : \E p \in records[i].clause :
        /\ Resolves(i, j, p)
        /\ bytes + ClauseBytes(Resolvent(records[i].clause, records[j].clause, p))
              > MemoryBudget

(* The database never grows past its budgets, and an abort names the       *)
(* budget that is exhausted: all derived clauses are used up, or memory    *)
(* has no room for a clause that is still to be recorded.                  *)
WithinBudgets ==
    /\ derived <= DerivedBudget
    /\ derived > 0 => bytes <= MemoryBudget
    /\ \A i \in Ids : /\ records[i].depth <= MaxDepth
                      /\ ~records[i].original =>
                            Cardinality(records[i].clause) <= MaxSize
    /\ verdict[2] = "derived_clause_budget" => derived = DerivedBudget
    /\ verdict[2] = "memory_budget" => MemoryShort

(* Records are never changed or dropped, a pair once visited stays so, and *)
(* a verdict is final: ids handed to the registry stay valid.              *)
AppendOnly ==
    [][/\ Len(records') >= Len(records)
       /\ SubSeq(records', 1, Len(records)) = records
       /\ seen \subseteq seen'
       /\ verdict[1] # "RUNNING" => UNCHANGED <<records, verdict>>]_vars

(* bounded_resolution returns: the agenda grows only with new clauses.     *)
Terminates == <>(pc = "done")

(* The loop over ids, literals and right ids implements the closure        *)
(* operation of module Resolution, in which any pair may resolve at any    *)
(* time: loading and bookkeeping steps change nothing there.               *)
DepthOf(C) ==
    IF C \in ClausesOf(formula) THEN 0
    ELSE records[CHOOSE i \in Ids : records[i].clause = C].depth

Closure == INSTANCE Resolution WITH
               depth <- [C \in ClausesOf(formula) \cup Known |-> DepthOf(C)],
               answer <- verdict[1]

ImplementsResolution == Closure!Spec
=============================================================================
