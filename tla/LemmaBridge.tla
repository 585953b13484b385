----------------------------- MODULE LemmaBridge -----------------------------
(***************************************************************************)
(* generate_lemmas (native/phase4b/lkk_native4b.cpp), after harvest: the   *)
(* clauses of the harvested families, the recovered resolvents, and the    *)
(* negations of one or two variables that leave the harvested capacity     *)
(* model infeasible when they are assumed.                                 *)
(*                                                                         *)
(* flow_test is taken at its result: Flow shows that this is the one of    *)
(* the exhaustive test.  The clauses of a family come in the order of      *)
(* combinations, which matters where the number of lemmas is capped.       *)
(***************************************************************************)
EXTENDS Harvest

CONSTANTS
    RegistryBudgets,  \* values of the budget of registry()
    MaxLemmas,        \* max_lemmas
    MaxLength,        \* max_len
    FlowBudget        \* flow_budget

(* A database is a recovery of some formula: each clause is an original or *)
(* a resolvent of two earlier ones, as Recovery's Replayable states.       *)
Derives(d, i) ==
    LET s == d.steps[i]
    IN  IF s.original THEN d.clauses[i] \in ClausesOf(d.formula)
        ELSE /\ s.a \in 1 .. i - 1 /\ s.b \in 1 .. i - 1
             /\ Pivots(d.clauses[s.a], d.clauses[s.b]) = {s.pivot}
             /\ d.clauses[i] = Resolvent(d.clauses[s.a], d.clauses[s.b], s.pivot)

ASSUME RecoveriesAssumption ==
    \A d \in Databases : /\ d.formula \in Seq(LiteralSet)
                         /\ DOMAIN d.steps = DOMAIN d.clauses
                         /\ \A i \in DOMAIN d.clauses : Derives(d, i)

ASSUME LimitsAssumption ==
    /\ RegistryBudgets \subseteq Nat
    /\ MaxLemmas \in Nat /\ MaxLength \in Nat /\ FlowBudget \in Nat

VARIABLES
    registryBudget,  \* budget of registry(), at most that of harvest()
    task,            \* "harvest", "known", "conditional", "done"
    family,          \* box, resource or, after these, recovery whose clauses are pushed
    tried,           \* clauses of it, or conditionings, that are done
    lemmas,          \* records of clause, origin and support
    flowCalls,       \* flow_calls
    note             \* note, "none" before there is one

generatorVars == <<task, family, tried, lemmas, flowCalls, note>>
bridgeVars == <<harvestVars, registryBudget, generatorVars>>

BridgeFresh ==
    /\ HarvestFresh
    /\ task = "harvest" /\ family = 1 /\ tried = 0 /\ lemmas = <<>> /\ flowCalls = 0 /\ note = "none"

BridgeInit ==
    /\ recovery \in Databases
    /\ budget \in Budgets /\ registryBudget \in {b \in RegistryBudgets : b <= budget}
    /\ BridgeFresh

\* flow_test answers UNSAT.
Infeasible(model) == \E inst \in {model} : ExhaustiveBoxTest(inst) = "UNSAT"

---------------------------------------------------------------------------
(* registry() ran before, on the same database with its own budget.  As    *)
(* long as that lasts it takes the steps of harvest(), so its result can   *)
(* be read off the harvest.                                                *)
RegistryComplete ==
    /\ checks <= registryBudget /\ ~boxHit /\ ~resourceHit
    /\ boxes # <<>> /\ Boxed = Resourced

StructurallyRefuted == RegistryComplete /\ Infeasible(CapacityModel)

Harvesting ==
    /\ task = "harvest" /\ pc # "done"
    /\ HarvestNext
    /\ UNCHANGED <<registryBudget, generatorVars>>

\* There is no fallback, and so there are no lemmas.
Answered ==
    /\ task = "harvest" /\ pc = "done" /\ StructurallyRefuted
    /\ task' = "done"
    /\ UNCHANGED <<harvestVars, registryBudget, family, tried, lemmas, flowCalls, note>>

Harvested ==
    /\ task = "harvest" /\ pc = "done" /\ ~StructurallyRefuted
    /\ task' = "known"
    /\ UNCHANGED <<harvestVars, registryBudget, family, tried, lemmas, flowCalls, note>>

---------------------------------------------------------------------------
(* OriginalIndex::redundant *)
Occurrences(l) == {k \in DOMAIN recovery.formula : l \in recovery.formula[k]}

\* The literal of c in the fewest clauses, the first one among equals.
Rarest(c) ==
    CHOOSE l \in c : \A m \in c \ {l} :
        \/ Cardinality(Occurrences(l)) < Cardinality(Occurrences(m))
        \/ Cardinality(Occurrences(l)) = Cardinality(Occurrences(m))
             /\ Variable(l) < Variable(m)

Redundant(c) ==
    \/ c \in ClausesOf(recovery.formula)
    \/ /\ \A l \in c : Occurrences(l) # {}
       /\ \E k \in Occurrences(Rarest(c)) : recovery.formula[k] \subseteq c

\* push
Admissible(c) ==
    /\ c # {} /\ Cardinality(c) <= MaxLength
    /\ Len(lemmas) < MaxLemmas
    /\ \A i \in DOMAIN lemmas : lemmas[i].clause # c
    /\ ~Redundant(c)

Push(l) ==
    \/ Admissible(l.clause) /\ lemmas' = Append(lemmas, l)
    \/ ~Admissible(l.clause) /\ UNCHANGED lemmas

---------------------------------------------------------------------------
(* Families first, then all resolvents. *)
Lemmas(cs, origin, support) ==
    [i \in DOMAIN cs |-> [clause |-> cs[i], origin |-> origin, support |-> support]]

\* The members of S by the order Before, which is total on S.
Sorted(S, Before(_, _)) ==
    [i \in 1 .. Cardinality(S) |->
        CHOOSE x \in S : Cardinality({y \in S : Before(y, x)}) = i - 1]

InOrder(g, k, sign) ==
    LET groups == Sorted(kSubset(k, g), Earlier)
    IN  [i \in DOMAIN groups |-> {sign * v : v \in groups[i]}]

BoxLemmas(b) ==
    LET d == b.demand
        n == Cardinality(b.group)
    IN  Lemmas(InOrder(b.group, d + 1, -1) \o InOrder(b.group, n - d + 1, 1),
               "exact_r_family", b.group)

ResourceLemmas(r) ==
    Lemmas(InOrder(r.group, r.capacity + 1, -1), "capacity_family", r.group)

Derived == Sorted({i \in DOMAIN recovery.clauses : ~recovery.steps[i].original}, <)

RecoveredLemmas ==
    Lemmas([i \in DOMAIN Derived |-> recovery.clauses[Derived[i]]],
           "bounded_resolution_resolvent", {})

Families == Len(boxes) + Len(resources) + 1

Known ==
    CASE family \in DOMAIN boxes -> BoxLemmas(boxes[family])
      [] family - Len(boxes) \in DOMAIN resources ->
           ResourceLemmas(resources[family - Len(boxes)])
      [] OTHER -> RecoveredLemmas

PushKnown ==
    /\ task = "known" /\ tried < Len(Known)
    /\ Push(Known[tried + 1])
    /\ tried' = tried + 1
    /\ UNCHANGED <<harvestVars, registryBudget, task, family, flowCalls, note>>

NextFamily ==
    /\ task = "known" /\ tried = Len(Known) /\ family < Families
    /\ family' = family + 1 /\ tried' = 0
    /\ UNCHANGED <<harvestVars, registryBudget, task, lemmas, flowCalls, note>>

---------------------------------------------------------------------------
(* restrict_to_covered: a box asserts that demand of its variables are     *)
(* true, so it can only be kept with all of them.                          *)
CoveredBoxes ==
    {b \in DOMAIN boxes :
        /\ boxes[b].group \subseteq Resourced
        /\ \A v, w \in boxes[b].group : ResourceOf(v) = ResourceOf(w) => v = w}

CoveredVariables == UNION {boxes[b].group : b \in CoveredBoxes}

KeptResources == {ResourceOf(v) : v \in CoveredVariables}

(* residual: each variable of T, assumed true, takes one from the demand   *)
(* of its box and one from the capacity of its resource.                   *)
DemandLeft(b, T) == boxes[b].demand - Cardinality(T \cap boxes[b].group)

CapacityLeft(r, T) == resources[r].capacity - Cardinality(T \cap resources[r].group)

Overcommitted(T) ==
    \/ \E b \in CoveredBoxes : DemandLeft(b, T) < 0
    \/ \E r \in KeptResources : CapacityLeft(r, T) < 0

\* Mutation of Residual: the demand of the box is not reduced.
ResidualUnpaid(T) ==
    [demands    |-> [b \in CoveredBoxes |-> boxes[b].demand],
     capacities |-> [r \in KeptResources |-> CapacityLeft(r, T)],
     reachable  |-> [b \in CoveredBoxes |->
                       {ResourceOf(v) : v \in boxes[b].group \ T}]]

Residual(T) ==
    LET needy == {b \in CoveredBoxes : DemandLeft(b, T) > 0}
    IN  [demands    |-> [b \in needy |-> DemandLeft(b, T)],
         capacities |-> [r \in KeptResources |-> CapacityLeft(r, T)],
         reachable  |-> [b \in needy |->
                           {ResourceOf(v) : v \in boxes[b].group \ T}]]

Conflicts(T) == Overcommitted(T) \/ Infeasible(Residual(T))

KnownDone == task = "known" /\ tried = Len(Known) /\ family = Families

NoSubModel ==
    /\ KnownDone /\ CoveredBoxes = {}
    /\ task' = "done" /\ note' = "no_covered_sub_model"
    /\ UNCHANGED <<harvestVars, registryBudget, family, tried, lemmas, flowCalls>>

BaseRefuted ==
    /\ KnownDone /\ CoveredBoxes # {} /\ Infeasible(Residual({}))
    /\ flowCalls' = flowCalls + 1
    /\ task' = "done" /\ note' = "structural_unsat"
    /\ UNCHANGED <<harvestVars, registryBudget, family, tried, lemmas>>

BaseFeasible ==
    /\ KnownDone /\ CoveredBoxes # {} /\ ~Infeasible(Residual({}))
    /\ flowCalls' = flowCalls + 1
    /\ task' = "conditional" /\ tried' = 0
    /\ UNCHANGED <<harvestVars, registryBudget, family, lemmas, note>>

---------------------------------------------------------------------------
(* Every covered variable, then every pair with a common resource or box.  *)
Ascending == Sorted(CoveredVariables, <)

Local(v, w) == ResourceOf(v) = ResourceOf(w) \/ BoxOf(v) = BoxOf(w)

\* The order of the two loops over pairs.
LocalPairs ==
    Sorted({p \in kSubset(2, CoveredVariables) : \A v, w \in p : Local(v, w)}, Earlier)

Conditionings ==
    [i \in DOMAIN Ascending |-> {Ascending[i]}] \o LocalPairs

PushConflict(T) ==
    Push([clause |-> {-v : v \in T}, origin |-> "conditional_capacity_conflict",
          support |-> T])

\* Mutation of Condition: a conditioning without conflict is tried again.
ConditionAgain ==
    /\ task = "conditional"
    /\ tried < Len(Conditionings)
    /\ \E T \in {Conditionings[tried + 1]} :
         \/ Conflicts(T) /\ PushConflict(T) /\ tried' = tried + 1
         \/ ~Conflicts(T) /\ UNCHANGED <<lemmas, tried>>
    /\ UNCHANGED <<harvestVars, registryBudget, task, family, flowCalls, note>>

Condition ==
    /\ task = "conditional"
    /\ tried < Len(Conditionings) /\ flowCalls < FlowBudget
    /\ \E T \in {Conditionings[tried + 1]} :
         /\ flowCalls' = flowCalls + IF Overcommitted(T) THEN 0 ELSE 1
         /\ \/ Conflicts(T) /\ PushConflict(T)
            \/ ~Conflicts(T) /\ UNCHANGED lemmas
    /\ tried' = tried + 1
    /\ UNCHANGED <<harvestVars, registryBudget, task, family, note>>

ConditionalDone ==
    /\ task = "conditional"
    /\ tried = Len(Conditionings) \/ flowCalls >= FlowBudget
    /\ task' = "done" /\ note' = "conditional_pass_complete"
    /\ UNCHANGED <<harvestVars, registryBudget, family, tried, lemmas, flowCalls>>

BridgeNext ==
    \/ Harvesting \/ Answered \/ Harvested
    \/ PushKnown \/ NextFamily \/ NoSubModel \/ BaseRefuted \/ BaseFeasible
    \/ Condition \/ ConditionalDone
=============================================================================
