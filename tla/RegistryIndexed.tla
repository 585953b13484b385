-------------------------- MODULE RegistryIndexed --------------------------
(***************************************************************************)
(* recover_exact_registry_indexed (phase4c/registry_indexed.py) and its    *)
(* C++ twin registry_indexed (native/core/lkk_registry_indexed.hpp), the   *)
(* search the native engine runs.                                          *)
(*                                                                         *)
(* The state is Registry's, and so are the acceptance test, the selection  *)
(* and the edges; the search differs in where its pairs come from, in what *)
(* it charges to the budget, and, in C++ only, in the boxes of demand one  *)
(* that it may add when the exact ones are placed.  Here pair is the       *)
(* number of positive clauses done.                                        *)
(***************************************************************************)
EXTENDS Registry

VARIABLES
    examined,   \* ids of the negative clauses examined for this positive
    rejected,   \* families decided against
    exact,      \* how many of the boxes are exact
    oneSided    \* atleast_boxes

indexVars == <<examined, rejected, exact>>
indexedVars == <<regVars, indexVars, oneSided>>

Current == recovery.clauses[Nth(Positives, pair + 1)]

ClauseAt(n) == recovery.clauses[n]

---------------------------------------------------------------------------
(* The inverted index: a negative clause is in the bucket of each pair of  *)
(* its variables, and is examined in the first bucket it is found in.      *)
Common(P, n) == VariablesOf(P) \cap VariablesOf(ClauseAt(n))

Bucket(P, n) == LET first == Min(Common(P, n))
                IN  {first, Min(Common(P, n) \ {first})}

PartnersOf(P) ==
    {n \in DOMAIN recovery.clauses :
        Monotone(-1, ClauseAt(n)) /\ Cardinality(Common(P, n)) >= 2}

Partners == LET current == Current IN PartnersOf(current)

MetBefore(P, n, m) ==
    \/ Earlier(Bucket(P, n), Bucket(P, m))
    \/ Bucket(P, n) = Bucket(P, m) /\ n < m

Partner ==
    LET current == Current
        left == PartnersOf(current) \ examined
    IN  CHOOSE n \in left : \A m \in left \ {n} : MetBefore(current, n, m)

Candidate ==
    LET negative == ClauseAt(Partner)
    IN  [group |-> GroupOf(Current, negative), demand |-> DemandOf(negative)]

Undecided ==
    /\ FitTogether(Current, ClauseAt(Partner))
    /\ Candidate \notin candidates \cup rejected

(* Clauses are looked up one at a time, negative ones first, up to the     *)
(* first that is missing.                                                  *)
LookedUpBefore(C, D) ==
    \/ (\A l \in C : l < 0) /\ (\A l \in D : l > 0)
    \/ (\A l \in C, m \in D : l * m > 0) /\ Earlier(VariablesOf(C), VariablesOf(D))

Lookups(family) ==
    LET missing == family \ Clauses
    IN  Cardinality({C \in family : \A D \in missing : ~LookedUpBefore(D, C)})

\* verify_family
Family == ExactFamily(Candidate.group, Candidate.demand)

PartnerCost == IF Undecided THEN 1 + Lookups(Family) ELSE 1

Searching == pc = "pairs" /\ recovery.status = "COMPLETE" /\ pair < Cardinality(Positives)

PassOver ==
    /\ Searching /\ examined # Partners /\ ~Undecided
    /\ checks + PartnerCost <= budget
    /\ checks' = checks + PartnerCost
    /\ examined' = examined \cup {Partner}
    /\ UNCHANGED <<search, pc, pair, candidates, boxes, growth, resources, outcome,
                   rejected, exact, oneSided>>

\* Mutation of Verify: a family is decided by its first lookup.
VerifyFirst ==
    /\ Searching /\ examined # Partners /\ Undecided
    /\ checks + PartnerCost <= budget
    /\ checks' = checks + PartnerCost
    /\ examined' = examined \cup {Partner}
    /\ candidates' = candidates \cup {Candidate}
    /\ UNCHANGED <<search, pc, pair, boxes, growth, resources, outcome, rejected,
                   exact, oneSided>>

Verify ==
    /\ Searching /\ examined # Partners /\ Undecided
    /\ checks + PartnerCost <= budget
    /\ checks' = checks + PartnerCost
    /\ examined' = examined \cup {Partner}
    /\ IF Family \subseteq Clauses
         THEN candidates' = candidates \cup {Candidate} /\ UNCHANGED rejected
         ELSE rejected' = rejected \cup {Candidate} /\ UNCHANGED candidates
    /\ UNCHANGED <<search, pc, pair, boxes, growth, resources, outcome, exact, oneSided>>

SearchBudget ==
    /\ Searching /\ examined # Partners
    /\ checks + PartnerCost > budget
    /\ checks' = budget + 1
    /\ Return("UNKNOWN", "family_check_budget")
    /\ UNCHANGED <<search, pair, candidates, boxes, growth, resources, indexVars, oneSided>>

NextPositive ==
    /\ Searching /\ examined = Partners
    /\ pair' = pair + 1
    /\ examined' = {}
    /\ UNCHANGED <<search, pc, checks, candidates, boxes, growth, resources, outcome,
                   rejected, exact, oneSided>>

Searched ==
    /\ pc = "pairs" /\ recovery.status = "COMPLETE" /\ pair = Cardinality(Positives)
    /\ pc' = "boxes"
    /\ UNCHANGED <<search, pair, checks, candidates, boxes, growth, resources, outcome,
                   indexVars, oneSided>>

---------------------------------------------------------------------------
(* The exact boxes are placed.  Each positive clause, in the order of ids, *)
(* over variables that no box has taken yet, is then a box of demand one.  *)
ExactPlaced ==
    /\ pc = "boxes" /\ candidates = {}
    /\ pc' = "placing" /\ pair' = 0
    /\ exact' = Len(boxes)
    /\ UNCHANGED <<search, checks, candidates, boxes, growth, resources, outcome,
                   examined, rejected, oneSided>>

Placing == pc = "placing" /\ oneSided /\ pair < Cardinality(Positives)

\* Mutation of PlaceOneSided: overlaps with placed boxes are not looked for.
PlaceOverlapping ==
    /\ Placing
    /\ boxes' = Append(boxes, [group |-> VariablesOf(Current), demand |-> 1])
    /\ pair' = pair + 1
    /\ UNCHANGED <<search, pc, checks, candidates, growth, resources, outcome,
                   indexVars, oneSided>>

PlaceOneSided ==
    /\ Placing /\ VariablesOf(Current) \cap Boxed = {}
    /\ boxes' = Append(boxes, [group |-> VariablesOf(Current), demand |-> 1])
    /\ pair' = pair + 1
    /\ UNCHANGED <<search, pc, checks, candidates, growth, resources, outcome,
                   indexVars, oneSided>>

PassTaken ==
    /\ Placing /\ VariablesOf(Current) \cap Boxed # {}
    /\ pair' = pair + 1
    /\ UNCHANGED <<search, pc, checks, candidates, boxes, growth, resources, outcome,
                   indexVars, oneSided>>

NonePlaced ==
    /\ pc = "placing" /\ ~Placing /\ boxes = <<>>
    /\ Return("UNKNOWN", "no_sound_exact_r_boxes")
    /\ UNCHANGED <<search, pair, checks, candidates, boxes, growth, resources,
                   indexVars, oneSided>>

Placed ==
    /\ pc = "placing" /\ ~Placing /\ boxes # <<>>
    /\ pc' = "sizes"
    /\ UNCHANGED <<search, pair, checks, candidates, boxes, growth, resources, outcome,
                   indexVars, oneSided>>

---------------------------------------------------------------------------
(* For pair edges the sweep is over the common neighbours of the group.    *)
Sweep(edges) ==
    IF size = 2 THEN {v \in Eligible : \A w \in group : {v, w} \in edges} ELSE Eligible

\* Subsets of the group that make edges with each vertex that joins it.
Rests == kSubset(size - 1, group)

\* Those looked up for v, to the first that makes no edge.
Probes(v, edges) ==
    LET missing == {r \in Rests : r \cup {v} \notin edges}
    IN  Cardinality({r \in Rests : \A s \in missing : ~Earlier(s, r)})

Joining ==
    LET edges == Edges(size)
    IN  {v \in Sweep(edges) : \A r \in Rests : r \cup {v} \in edges}

SweepCost ==
    LET edges == Edges(size)
        joining == Joining
    IN  MapThenSumSet(LAMBDA v : Probes(v, edges),
                      {v \in Sweep(edges) : joining # {} => v <= Min(joining)})

GrowIndexed ==
    /\ pc = "grow" /\ Joining # {}
    /\ checks + SweepCost <= budget
    /\ checks' = checks + SweepCost
    /\ group' = group \cup {Min(Joining)}
    /\ UNCHANGED <<search, pc, pair, candidates, boxes, size, untried, families,
                   resources, outcome, indexVars, oneSided>>

\* The clauses of the resource, one lookup each.
Capped == Combinations(group, size, -1)

GrownCost == SweepCost + Lookups(Capped)

Grown ==
    /\ pc = "grow" /\ Joining = {}
    /\ checks + GrownCost <= budget
    /\ checks' = checks + GrownCost
    /\ families' = families \cup
         {f \in {[group |-> group, capacity |-> size - 1]} : Capped \subseteq Clauses}
    /\ pc' = "edges"
    /\ UNCHANGED <<search, pair, candidates, boxes, size, untried, group, resources,
                   outcome, indexVars, oneSided>>

\* Mutation of GrownBudget: the boxes are given up with the search.
DropBoxes ==
    /\ pc = "grow"
    /\ \/ checks + SweepCost > budget
       \/ Joining = {} /\ checks + GrownCost > budget
    /\ checks' = budget + 1
    /\ Return("UNKNOWN", "family_check_budget")
    /\ boxes' = <<>>
    /\ UNCHANGED <<search, pair, candidates, growth, resources, indexVars, oneSided>>

GrownBudget ==
    /\ pc = "grow"
    /\ \/ checks + SweepCost > budget
       \/ Joining = {} /\ checks + GrownCost > budget
    /\ checks' = budget + 1
    /\ Return("UNKNOWN", "family_check_budget")
    /\ UNCHANGED <<search, pair, candidates, boxes, growth, resources, indexVars, oneSided>>

---------------------------------------------------------------------------
FreshIndexed == Fresh /\ examined = {} /\ rejected = {} /\ exact = 0

\* The steps that are the accepted search's own.
Accepted ==
    /\ \/ Refuse \/ SelectBox
       \/ NextSize \/ SizeDone \/ TakeEdge \/ SizesDone
       \/ SelectResource \/ Decide
    /\ UNCHANGED <<indexVars, oneSided>>

Indexed ==
    \/ PassOver \/ Verify \/ SearchBudget \/ NextPositive \/ Searched
    \/ ExactPlaced \/ PlaceOneSided \/ PassTaken \/ NonePlaced \/ Placed
    \/ GrowIndexed \/ Grown \/ GrownBudget
    \/ Accepted
=============================================================================
