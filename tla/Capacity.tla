------------------------------ MODULE Capacity ------------------------------
(***************************************************************************)
(* Capacity instances (CapacityInstance, phase2/flow.py) and what it means *)
(* for one to be infeasible: the exhaustive Hall test the repository uses  *)
(* as an oracle, and the allocation it stands for.                         *)
(*                                                                         *)
(* An instance is a record of demands and reachable, indexed by box, and   *)
(* capacities, indexed by resource; reachable[b] is the set of resources a *)
(* box can draw one unit from.                                             *)
(***************************************************************************)
EXTENDS Integers, FiniteSets, FiniteSetsExt, Functions

BoxesOf(inst) == DOMAIN inst.demands

ResourcesOf(inst) == DOMAIN inst.capacities

\* What flow_box_test checks before it builds the network: no demand or
\* capacity is negative and a box reaches only resources.
ProperInstance(inst) ==
    /\ IsFiniteSet(BoxesOf(inst)) /\ \A b \in BoxesOf(inst) : inst.demands[b] \in Nat
    /\ IsFiniteSet(ResourcesOf(inst)) /\ \A r \in ResourcesOf(inst) : inst.capacities[r] \in Nat
    /\ \A b \in BoxesOf(inst) : inst.reachable[b] \subseteq ResourcesOf(inst)

TotalDemand(inst) == SumFunction(inst.demands)

\* The most that resource r can give to the boxes in S.
Supply(inst, S, r) ==
    LET incident == Cardinality({b \in S : r \in inst.reachable[b]})
    IN  IF incident < inst.capacities[r] THEN incident ELSE inst.capacities[r]

\* The boxes in S demand more than all resources can give them.
HallViolator(inst, S) ==
    SumFunctionOnSet(inst.demands, S)
      > SumFunction([r \in ResourcesOf(inst) |-> Supply(inst, S, r)])

\* exhaustive_box_test
ExhaustiveBoxTest(inst) ==
    IF \E S \in (SUBSET BoxesOf(inst)) \ {{}} : HallViolator(inst, S)
      THEN "UNSAT" ELSE "FEASIBLE"

(* The cut that separates the source, these boxes and these resources from *)
(* the rest: boxes left behind, edges out of it, and resources in it.      *)
SourceCut(inst, bs) == SumFunctionOnSet(inst.demands, BoxesOf(inst) \ bs)

EdgeCut(inst, bs, rs) == SumFunction([b \in bs |-> Cardinality(inst.reachable[b] \ rs)])

ResourceCut(inst, rs) == SumFunctionOnSet(inst.capacities, rs)

CutCapacity(inst, bs, rs) ==
    SourceCut(inst, bs) + EdgeCut(inst, bs, rs) + ResourceCut(inst, rs)

\* An allocation gives every box the resources it draws a unit from.
Allocation(inst, alloc) ==
    /\ \A b \in BoxesOf(inst) : /\ alloc[b] \subseteq inst.reachable[b]
                                /\ Cardinality(alloc[b]) = inst.demands[b]
    /\ \A r \in ResourcesOf(inst) :
         Cardinality({b \in BoxesOf(inst) : r \in alloc[b]}) <= inst.capacities[r]
=============================================================================
