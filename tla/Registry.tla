------------------------------ MODULE Registry ------------------------------
(***************************************************************************)
(* recover_exact_registry (phase2/structure.py): finds exact-r boxes and   *)
(* at-most-c resources in the clause database of a completed recovery,     *)
(* within a budget of family checks, and build_structural_model, which     *)
(* turns them into a capacity instance.                                    *)
(*                                                                         *)
(* A group is a set of variables; the sorted tuples of the code order      *)
(* groups of one size by the smallest variable they do not share.  The     *)
(* evidence of a family is the set of its clauses, so what the code keeps  *)
(* as ids is read off the group.                                           *)
(***************************************************************************)
EXTENDS CNF, Capacity, Sequences

CONSTANTS
    Databases,    \* recovery results: records of status and clauses
    Budgets,      \* values of family_check_budget
    MaxCapacity   \* maximum_resource_capacity

ASSUME DatabasesAssumption == \A d \in Databases : d.clauses \in Seq(LiteralSet)

ASSUME RegistryAssumption ==
    /\ Budgets \subseteq Nat
    /\ MaxCapacity \in Nat

VARIABLES
    recovery,    \* the recovery result; its clauses are in the order of ids
    budget,      \* family_check_budget
    pc,          \* the loop the search is in, "done" when it has returned
    pair,        \* positive-negative pairs scanned so far
    checks,      \* family_checks
    candidates,  \* exact families found, as records of group and demand
    boxes,       \* selected_boxes
    size,        \* clause_size
    untried,     \* edges of this clause size not yet grown
    group,       \* the group being grown
    families,    \* resource_candidates, as records of group and capacity
    resources,   \* selected_resources
    outcome      \* <<status, reason>>

regVars == <<recovery, budget, pc, pair, checks, candidates, boxes, size,
             untried, group, families, resources, outcome>>

search == <<recovery, budget>>
growth == <<size, untried, group, families>>

Clauses == ClausesOf(recovery.clauses)

Monotone(sign, C) == Cardinality(C) >= 2 /\ \A l \in C : sign * l > 0

\* The ids of the clauses in the lists of this name.
Positives == {k \in DOMAIN recovery.clauses : Monotone(1, recovery.clauses[k])}
Negatives == {k \in DOMAIN recovery.clauses : Monotone(-1, recovery.clauses[k])}

\* The n-th of a set of ids; the lists are in the order of ids.
Nth(ids, n) == CHOOSE k \in ids : Cardinality({j \in ids : j <= k}) = n

\* Order of two groups of one size, as sorted tuples.
Earlier(g, h) ==
    g # h /\ Min((g \ h) \cup (h \ g)) \in g

\* The clauses that make exactly d variables of g true.
ExactFamily(g, d) ==
    Combinations(g, d + 1, -1) \cup Combinations(g, Cardinality(g) - d + 1, 1)

---------------------------------------------------------------------------
\* The local variables before the first loop.
Fresh ==
    /\ pc = "pairs"
    /\ pair = 0 /\ checks = 0
    /\ candidates = {} /\ boxes = <<>>
    /\ size = 1 /\ untried = {} /\ group = {}
    /\ families = {} /\ resources = <<>>
    /\ outcome = <<"RUNNING", "none">>

Return(status, reason) ==
    /\ pc' = "done"
    /\ outcome' = <<status, reason>>

Refuse ==
    /\ pc = "pairs" /\ recovery.status # "COMPLETE"
    /\ Return("UNKNOWN", "recovery")
    /\ UNCHANGED <<search, pair, checks, candidates, boxes, growth, resources>>

---------------------------------------------------------------------------
(* Every positive clause against every negative clause. *)
Scanning ==
    /\ pc = "pairs" /\ recovery.status = "COMPLETE"
    /\ pair < Cardinality(Positives) * Cardinality(Negatives)

Positive == recovery.clauses[Nth(Positives, 1 + (pair \div Cardinality(Negatives)))]
Negative == recovery.clauses[Nth(Negatives, 1 + (pair % Cardinality(Negatives)))]

GroupOf(P, N) == VariablesOf(P) \cup VariablesOf(N)
DemandOf(N) == Cardinality(N) - 1

\* The acceptance test of a positive clause P and a negative clause N.
FitTogether(P, N) ==
    /\ Cardinality(VariablesOf(P) \cap VariablesOf(N)) = 2
    /\ Cardinality(GroupOf(P, N)) = Cardinality(P) + Cardinality(N) - 2
    /\ DemandOf(N) \in 1 .. Cardinality(GroupOf(P, N)) - 1

PairGroup == GroupOf(Positive, Negative)
PairDemand == DemandOf(Negative)
PairFits == FitTogether(Positive, Negative)

Charged == checks + 1 + Cardinality(ExactFamily(PairGroup, PairDemand))

SkipPair ==
    /\ Scanning /\ checks < budget /\ ~PairFits
    /\ pair' = pair + 1
    /\ checks' = checks + 1
    /\ UNCHANGED <<search, pc, candidates, boxes, growth, resources, outcome>>

\* Mutation of TestPair: half of the family is taken for all of it.
TestHalf ==
    /\ Scanning /\ PairFits /\ Charged <= budget
    /\ pair' = pair + 1
    /\ checks' = Charged
    /\ candidates' = candidates \cup
         {f \in {[group |-> PairGroup, demand |-> PairDemand]} :
            Combinations(f.group, f.demand + 1, -1) \subseteq Clauses}
    /\ UNCHANGED <<search, pc, boxes, growth, resources, outcome>>

TestPair ==
    /\ Scanning /\ PairFits /\ Charged <= budget
    /\ pair' = pair + 1
    /\ checks' = Charged
    /\ candidates' = candidates \cup
         {f \in {[group |-> PairGroup, demand |-> PairDemand]} :
            ExactFamily(f.group, f.demand) \subseteq Clauses}
    /\ UNCHANGED <<search, pc, boxes, growth, resources, outcome>>

PairBudget ==
    /\ Scanning
    /\ \/ checks >= budget /\ checks' = checks + 1
       \/ checks < budget /\ PairFits /\ Charged > budget /\ checks' = Charged
    /\ Return("UNKNOWN", "family_check_budget")
    /\ UNCHANGED <<search, pair, candidates, boxes, growth, resources>>

PairsDone ==
    /\ pc = "pairs" /\ recovery.status = "COMPLETE"
    /\ pair = Cardinality(Positives) * Cardinality(Negatives)
    /\ pc' = "boxes"
    /\ UNCHANGED <<search, pair, checks, candidates, boxes, growth, resources, outcome>>

---------------------------------------------------------------------------
(* Largest groups first, each variable in one box: a family that overlaps  *)
(* a selected one is never selected.                                       *)
BoxPrecedes(f, g) ==
    \/ Cardinality(f.group) > Cardinality(g.group)
    \/ Cardinality(f.group) = Cardinality(g.group) /\ Earlier(f.group, g.group)
    \/ f.group = g.group /\ f.demand < g.demand

SelectBox ==
    /\ pc = "boxes"
    /\ \E f \in candidates :
         /\ \A g \in candidates \ {f} : BoxPrecedes(f, g)
         /\ boxes' = Append(boxes, f)
         /\ candidates' = {g \in candidates : g.group \cap f.group = {}}
    /\ UNCHANGED <<search, pc, pair, checks, growth, resources, outcome>>

NoBoxes ==
    /\ pc = "boxes" /\ candidates = {} /\ boxes = <<>>
    /\ Return("UNKNOWN", "no_sound_exact_r_boxes")
    /\ UNCHANGED <<search, pair, checks, candidates, boxes, growth, resources>>

BoxesDone ==
    /\ pc = "boxes" /\ candidates = {} /\ boxes # <<>>
    /\ pc' = "sizes"
    /\ UNCHANGED <<search, pair, checks, candidates, boxes, growth, resources, outcome>>

---------------------------------------------------------------------------
Boxed == UNION {boxes[b].group : b \in DOMAIN boxes}

\* variable_to_box
BoxOf(v) == CHOOSE b \in DOMAIN boxes : v \in boxes[b].group

\* The negative clauses of size k over variables of distinct boxes.
Edges(k) ==
    {e \in {VariablesOf(C) : C \in {D \in Clauses :
                Monotone(-1, D) /\ Cardinality(D) = k}} :
        /\ e \subseteq Boxed
        /\ Cardinality({BoxOf(v) : v \in e}) = k}

NextSize ==
    /\ pc = "sizes" /\ size <= MaxCapacity
    /\ size' = size + 1
    /\ untried' = Edges(size + 1)
    /\ pc' = "edges"
    /\ UNCHANGED <<search, pair, checks, candidates, boxes, group, families,
                   resources, outcome>>

SizeDone ==
    /\ pc = "edges" /\ untried = {}
    /\ pc' = "sizes"
    /\ UNCHANGED <<search, pair, checks, candidates, boxes, growth, resources, outcome>>

TakeEdge ==
    /\ pc = "edges"
    /\ \E e \in untried :
         /\ \A f \in untried \ {e} : Earlier(e, f)
         /\ untried' = untried \ {e}
         /\ group' = e
    /\ pc' = "grow"
    /\ UNCHANGED <<search, pair, checks, candidates, boxes, size, families,
                   resources, outcome>>

(* One pass over the variables in ascending order, which ends at the first *)
(* one that keeps the group a family; each one looked at is charged.       *)
Eligible ==
    {v \in UNION Edges(size) \ group : \A w \in group : BoxOf(v) # BoxOf(w)}

Extensions ==
    LET edges == Edges(size)
    IN  {v \in Eligible : kSubset(size, group \cup {v}) \subseteq edges}

PassCost ==
    LET extensions == Extensions
    IN  Cardinality({v \in Eligible : extensions # {} => v <= Min(extensions)})

Grow ==
    /\ pc = "grow" /\ Extensions # {}
    /\ checks + PassCost <= budget
    /\ checks' = checks + PassCost
    /\ group' = group \cup {Min(Extensions)}
    /\ UNCHANGED <<search, pc, pair, candidates, boxes, size, untried, families,
                   resources, outcome>>

GrowthDone ==
    /\ pc = "grow" /\ Extensions = {}
    /\ checks + PassCost <= budget
    /\ checks' = checks + PassCost
    /\ families' = families \cup
         {f \in {[group |-> group, capacity |-> size - 1]} :
            /\ Cardinality(f.group) > f.capacity
            /\ Combinations(f.group, size, -1) \subseteq Clauses}
    /\ pc' = "edges"
    /\ UNCHANGED <<search, pair, candidates, boxes, size, untried, group,
                   resources, outcome>>

GrowthBudget ==
    /\ pc = "grow" /\ checks + PassCost > budget
    /\ checks' = budget + 1
    /\ Return("UNKNOWN", "family_check_budget")
    /\ UNCHANGED <<search, pair, candidates, boxes, growth, resources>>

SizesDone ==
    /\ pc = "sizes" /\ size > MaxCapacity
    /\ pc' = "resources"
    /\ UNCHANGED <<search, pair, checks, candidates, boxes, growth, resources, outcome>>

---------------------------------------------------------------------------
(* Largest groups first, then the smallest capacity. *)
ResourcePrecedes(f, g) ==
    \/ Cardinality(f.group) > Cardinality(g.group)
    \/ /\ Cardinality(f.group) = Cardinality(g.group)
       /\ \/ f.capacity < g.capacity
          \/ f.capacity = g.capacity /\ Earlier(f.group, g.group)

SelectResource ==
    /\ pc = "resources"
    /\ \E f \in families :
         /\ \A g \in families \ {f} : ResourcePrecedes(f, g)
         /\ resources' = Append(resources, f)
         /\ families' = {g \in families : g.group \cap f.group = {}}
    /\ UNCHANGED <<search, pc, pair, checks, candidates, boxes, size, untried,
                   group, outcome>>

Resourced == UNION {resources[r].group : r \in DOMAIN resources}

Decide ==
    /\ pc = "resources" /\ families = {}
    /\ IF Boxed # Resourced
         THEN Return("UNKNOWN", "incomplete_or_ambiguous_resource_mapping")
         ELSE Return("COMPLETE", "sound_exact_r_and_capacity_families")
    /\ UNCHANGED <<search, pair, checks, candidates, boxes, growth, resources>>

Next ==
    \/ Refuse
    \/ SkipPair \/ TestPair \/ PairBudget \/ PairsDone
    \/ SelectBox \/ NoBoxes \/ BoxesDone
    \/ NextSize \/ SizeDone \/ TakeEdge
    \/ Grow \/ GrowthDone \/ GrowthBudget \/ SizesDone
    \/ SelectResource \/ Decide

---------------------------------------------------------------------------
(* build_structural_model, on a registry that is COMPLETE. *)
ResourceOf(v) == CHOOSE r \in DOMAIN resources : v \in resources[r].group

ModelRejected ==
    \/ \E v \in Resourced :
         Cardinality({r \in DOMAIN resources : v \in resources[r].group}) > 1
    \/ \E b \in DOMAIN boxes : \E v, w \in boxes[b].group :
         v # w /\ ResourceOf(v) = ResourceOf(w)

CapacityModel ==
    [demands    |-> [b \in DOMAIN boxes |-> boxes[b].demand],
     capacities |-> [r \in DOMAIN resources |-> resources[r].capacity],
     reachable  |-> [b \in DOMAIN boxes |-> {ResourceOf(v) : v \in boxes[b].group}]]

---------------------------------------------------------------------------
\* build_structural_model takes the registry and finds the model infeasible.
Refuted ==
    /\ outcome[1] = "COMPLETE" /\ ~ModelRejected
    /\ ExhaustiveBoxTest(CapacityModel) = "UNSAT"
=============================================================================
