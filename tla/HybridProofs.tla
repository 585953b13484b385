---------------------------- MODULE HybridProofs ----------------------------
(***************************************************************************)
(* Theorems about solve_hybrid, for every set of formulas, every bound and *)
(* every budget: what the recovery, the registry and the flow hand over is *)
(* a witness that the checker accepts, so no error leaves the call, a      *)
(* definite answer is right, and no fallback solver outlives the call.     *)
(***************************************************************************)
EXTENDS Hybrid, BasicLemmas

---------------------------------------------------------------------------
(* The theorems about the parts, on the variables they have here.          *)

\* Recovery results and capacity instances of any size.
AllDatabases == [status : {"RUNNING", "COMPLETE", "ABORT"}, clauses : Seq(LiteralSet)]

AllInstances ==
    {i \in [demands : Seq(Nat), capacities : Seq(Nat), reachable : Seq(SUBSET Nat)] :
        ProperInstance(i)}

RP == INSTANCE RecoveryProofs WITH pc <- recoveryPc
GP == INSTANCE RegistryProofs WITH
        pc <- registryPc, untried <- edges, Databases <- AllDatabases,
        examined <- {}, rejected <- {}, exact <- 0, oneSided <- FALSE,
        engine <- 1, found <- <<>>
FP == INSTANCE FlowProofs WITH pc <- flowPc, untried <- cursors, Instances <- AllInstances
WP == INSTANCE WitnessProofs WITH pc <- checkPc, cnf <- formula, Claims <- {}

(* What these modules assume of their constants holds of the ones they get *)
(* here.                                                                   *)
LEMMA PartsAssume ==
    /\ RP!BoundsAssumption /\ RP!FormulasAssumption
    /\ GP!DatabasesAssumption /\ GP!RegistryAssumption
    /\ FP!InstancesAssumption /\ WP!ClaimsAssumption
  <1>1. RP!BoundsAssumption /\ RP!FormulasAssumption
    <2>1. RP!Clause = Clause
      BY DEF RP!Clause, RP!Literal, RP!Tautology, RP!IsFiniteSet, Clause, Literal, Tautology,
             IsFiniteSet
    <2>2. QED
      BY <2>1, HybridAssumption DEF RP!BoundsAssumption, RP!FormulasAssumption
  <1>2. GP!DatabasesAssumption /\ GP!RegistryAssumption
    <2>1. GP!LiteralSet = LiteralSet
      BY DEF GP!LiteralSet, GP!Literal, GP!IsFiniteSet, LiteralSet, Literal, IsFiniteSet
    <2>2. QED
      BY <2>1, HybridAssumption DEF GP!DatabasesAssumption, GP!RegistryAssumption, AllDatabases
  <1>3. FP!InstancesAssumption
    <2>1. \A i \in AllInstances : FP!ProperInstance(i)
      BY DEF AllInstances, ProperInstance, FP!ProperInstance, BoxesOf, FP!BoxesOf, ResourcesOf,
             FP!ResourcesOf, IsFiniteSet, FP!IsFiniteSet
    <2>2. QED
      BY <2>1 DEF FP!InstancesAssumption
  <1>4. WP!ClaimsAssumption
    BY DEF WP!ClaimsAssumption
  <1>5. QED
    BY <1>1, <1>2, <1>3, <1>4

(* A step of a part is a step of the module that its theorems are about.   *)
LEMMA SameRecovery == R!Next <=> RP!Next
  BY DEF R!Next, RP!Next, R!LoadClause, RP!LoadClause, R!LoadDuplicate, RP!LoadDuplicate,
     R!LoadDone, RP!LoadDone, R!TimeAbort, RP!TimeAbort, R!PopAgenda, RP!PopAgenda, R!FixedPoint,
     RP!FixedPoint, R!SkipLiteral, RP!SkipLiteral, R!OpenLiteral, RP!OpenLiteral, R!EndLeft,
     RP!EndLeft, R!SkipPair, RP!SkipPair, R!RejectPair, RP!RejectPair, R!DerivedAbort,
     RP!DerivedAbort, R!MemoryAbort, RP!MemoryAbort, R!Derive, RP!Derive, R!Done, RP!Done,
     R!Known, RP!Known, R!AddRecord, RP!AddRecord, R!OriginalRecord, RP!OriginalRecord, R!scan,
     RP!scan, R!database, RP!database, R!input, RP!input, R!Finish, RP!Finish, R!NextLiteral,
     RP!NextLiteral, R!MayPivot, RP!MayPivot, R!Occurrences, RP!Occurrences, R!NextRight,
     RP!NextRight, R!Fresh, RP!Fresh, R!Visit, RP!Visit, R!Resolves, RP!Resolves, R!Fits, RP!Fits,
     R!DerivedRecord, RP!DerivedRecord, R!vars, RP!vars, R!Ids, RP!Ids, R!ClauseBytes,
     RP!ClauseBytes, R!Variable, RP!Variable, R!OriginalOccurrences, RP!OriginalOccurrences,
     R!Deeper, RP!Deeper, R!Pivots, RP!Pivots, R!Resolvent, RP!Resolvent, R!Tautology,
     RP!Tautology, R!Cardinality, RP!Cardinality, R!ResolventOf, RP!ResolventOf, R!VariablesOf,
     RP!VariablesOf

LEMMA SameRegistry == G!Next <=> GP!Next
  BY DEF G!Next, GP!Next, G!Refuse, GP!Refuse, G!SkipPair, GP!SkipPair, G!TestPair, GP!TestPair,
     G!PairBudget, GP!PairBudget, G!PairsDone, GP!PairsDone, G!SelectBox, GP!SelectBox, G!NoBoxes,
     GP!NoBoxes, G!BoxesDone, GP!BoxesDone, G!NextSize, GP!NextSize, G!SizeDone, GP!SizeDone,
     G!TakeEdge, GP!TakeEdge, G!Grow, GP!Grow, G!GrowthDone, GP!GrowthDone, G!GrowthBudget,
     GP!GrowthBudget, G!SizesDone, GP!SizesDone, G!SelectResource, GP!SelectResource, G!Decide,
     GP!Decide, G!Return, GP!Return, G!search, GP!search, G!growth, GP!growth, G!Scanning,
     GP!Scanning, G!PairFits, GP!PairFits, G!Charged, GP!Charged, G!PairGroup, GP!PairGroup,
     G!PairDemand, GP!PairDemand, G!ExactFamily, GP!ExactFamily, G!Clauses, GP!Clauses,
     G!Cardinality, GP!Cardinality, G!Positives, GP!Positives, G!Negatives, GP!Negatives,
     G!BoxPrecedes, GP!BoxPrecedes, G!Edges, GP!Edges, G!Earlier, GP!Earlier, G!Extensions,
     GP!Extensions, G!PassCost, GP!PassCost, G!Min, GP!Min, G!Combinations, GP!Combinations,
     G!ResourcePrecedes, GP!ResourcePrecedes, G!Boxed, GP!Boxed, G!Resourced, GP!Resourced,
     G!FitTogether, GP!FitTogether, G!Positive, GP!Positive, G!Negative, GP!Negative, G!GroupOf,
     GP!GroupOf, G!DemandOf, GP!DemandOf, G!ClausesOf, GP!ClausesOf, G!Monotone, GP!Monotone,
     G!VariablesOf, GP!VariablesOf, G!BoxOf, GP!BoxOf, G!Eligible, GP!Eligible, G!kSubset,
     GP!kSubset, G!Nth, GP!Nth, G!Variable, GP!Variable

LEMMA SameFlow == F!Next <=> FP!Next
  BY DEF F!Next, FP!Next, F!Widen, FP!Widen, F!StartPhase, FP!StartPhase, F!MaximumReached,
     FP!MaximumReached, F!Descend, FP!Descend, F!Retreat, FP!Retreat, F!EndPhase, FP!EndPhase,
     F!Augment, FP!Augment, F!DecideFeasible, FP!DecideFeasible, F!DecideUnsat, FP!DecideUnsat,
     F!Done, FP!Done, F!NextWave, FP!NextWave, F!Nodes, FP!Nodes, F!Max, FP!Max, F!Range,
     FP!Range, F!Sink, FP!Sink, F!Neighbours, FP!Neighbours, F!Source, FP!Source, F!Last, FP!Last,
     F!Usable, FP!Usable, F!Front, FP!Front, F!Unlabelled, FP!Unlabelled, F!PathEdges,
     FP!PathEdges, F!Bottleneck, FP!Bottleneck, F!TotalDemand, FP!TotalDemand, F!Undecided,
     FP!Undecided, F!ResidualReachable, FP!ResidualReachable, F!BoxesOf, FP!BoxesOf, F!Box,
     FP!Box, F!ResourcesOf, FP!ResourcesOf, F!Resource, FP!Resource, F!CutCapacity,
     FP!CutCapacity, F!flowVars, FP!flowVars, F!NodesOf, FP!NodesOf, F!Linked, FP!Linked, F!Min,
     FP!Min, F!SumFunction, FP!SumFunction, F!SourceCut, FP!SourceCut, F!EdgeCut, FP!EdgeCut,
     F!ResourceCut, FP!ResourceCut, F!SumFunctionOnSet, FP!SumFunctionOnSet, F!Cardinality,
     FP!Cardinality, F!FoldFunctionOnSet, FP!FoldFunctionOnSet, F!MapThenFoldSet,
     FP!MapThenFoldSet, F!NetworkCapacity, FP!NetworkCapacity

LEMMA SameCheck == W!Next <=> WP!Next
  BY DEF W!Next, WP!Next, W!HashMatches, WP!HashMatches, W!HashMismatch, WP!HashMismatch,
     W!CollectOriginal, WP!CollectOriginal, W!OriginalsDone, WP!OriginalsDone, W!ReplayRecord,
     WP!ReplayRecord, W!RecordFails, WP!RecordFails, W!ReplayDone, WP!ReplayDone,
     W!OriginalsMissing, WP!OriginalsMissing, W!AcceptBox, WP!AcceptBox, W!BoxFails, WP!BoxFails,
     W!BoxesDone, WP!BoxesDone, W!AcceptResource, WP!AcceptResource, W!ResourceFails,
     WP!ResourceFails, W!ResourcesDone, WP!ResourcesDone, W!Accept, WP!Accept, W!MappingFails,
     WP!MappingFails, W!CutFails, WP!CutFails, W!Done, WP!Done, W!Proceed, WP!Proceed, W!Reject,
     WP!Reject, W!ClausesOf, WP!ClausesOf, W!subject, WP!subject, W!Replaying, WP!Replaying,
     W!RecordHolds, WP!RecordHolds, W!OriginalsPresent, WP!OriginalsPresent, W!Boxing, WP!Boxing,
     W!BoxHolds, WP!BoxHolds, W!Resourcing, WP!Resourcing, W!ResourceHolds, WP!ResourceHolds,
     W!MappingHolds, WP!MappingHolds, W!CutHolds, WP!CutHolds, W!Rule, WP!Rule, W!checkVars,
     WP!checkVars, W!Tautology, WP!Tautology, W!OriginalMatches, WP!OriginalMatches,
     W!StepMatches, WP!StepMatches, W!GroupsBefore, WP!GroupsBefore, W!BoxSizes, WP!BoxSizes,
     W!Evidenced, WP!Evidenced, W!BoxFamily, WP!BoxFamily, W!UpperFamily, WP!UpperFamily,
     W!Grouped, WP!Grouped, W!ResourceOf, WP!ResourceOf, W!BoxIds, WP!BoxIds, W!SourceCut,
     WP!SourceCut, W!Claimed, WP!Claimed, W!EdgeCut, WP!EdgeCut, W!ReachedResources,
     WP!ReachedResources, W!ResourceCut, WP!ResourceCut, W!CutCapacity, WP!CutCapacity,
     W!TotalDemand, WP!TotalDemand, W!Pivots, WP!Pivots, W!Resolvent, WP!Resolvent, W!Cardinality,
     WP!Cardinality, W!FirstId, WP!FirstId, W!LowerFamily, WP!LowerFamily, W!Combinations,
     WP!Combinations, W!SumFunctionOnSet, WP!SumFunctionOnSet, W!BoxesOf, WP!BoxesOf, W!BoxWith,
     WP!BoxWith, W!SumFunction, WP!SumFunction, W!kSubset, WP!kSubset, W!FoldFunctionOnSet,
     WP!FoldFunctionOnSet, W!MapThenFoldSet, WP!MapThenFoldSet


---------------------------------------------------------------------------
(* The invariants of the parts, which their steps keep.                    *)

RecoveryInv ==
    /\ RP!Typed /\ RP!ReplayInv /\ RP!Distinct
    /\ RP!LoadedInv /\ RP!OriginalInv /\ RP!FirstsInv

RegistryInv == GP!RegistryInv /\ GP!IndexInv /\ GP!SidedInv

CheckInv == WP!Typed /\ WP!ReplayInv /\ WP!EvidenceInv /\ WP!CutInv /\ WP!Passing

LEMMA RecoveryStep ==
    ASSUME RecoveryInv, R!Next \/ UNCHANGED <<formula, recoveryVars>>
    PROVE  RecoveryInv'
  <1>1. [RP!Next]_RP!vars
    BY SameRecovery DEF recoveryVars, RP!vars
  <1>2. RP!Typed' /\ RP!ReplayInv' /\ RP!Distinct'
    BY <1>1, RP!TypedNext, RP!ReplayNext, RP!DistinctNext, PartsAssume DEF RecoveryInv
  <1>3. RP!LoadedInv' /\ RP!OriginalInv' /\ RP!FirstsInv'
    BY <1>1, RP!LoadedNext, RP!FirstsNext, PartsAssume DEF RecoveryInv
  <1>4. QED
    BY <1>2, <1>3 DEF RecoveryInv

\* The registry scans: it is the first of the engines.
LEMMA RegistryStep ==
    ASSUME RegistryInv,
           \/ registryPc # "done" /\ G!Next
           \/ UNCHANGED <<recovery, budget, registryVars>>
    PROVE  RegistryInv'
  <1>1. ASSUME registryPc # "done", G!Next
        PROVE  GP!Compare
    BY <1>1, SameRegistry DEF GP!Compare, GP!Search, GP!Engines, GP!indexVars
  <1>2. ASSUME UNCHANGED <<recovery, budget, registryVars>>
        PROVE  UNCHANGED GP!vars
    BY <1>2 DEF registryVars, GP!vars, GP!indexedVars, GP!regVars, GP!indexVars
  <1>3. [GP!Compare]_GP!vars
    BY <1>1, <1>2
  <1>4. QED
    BY <1>3, GP!RegistryNext, GP!IndexStep, GP!SidedNext, PartsAssume
       DEF RegistryInv, GP!RegistryInv

LEMMA FlowStep ==
    ASSUME FP!FlowInv, F!Next \/ UNCHANGED <<inst, flowVars>>
    PROVE  FP!FlowInv'
  <1>1. [FP!Next]_FP!flowVars
    BY SameFlow DEF flowVars, FP!flowVars
  <1>2. QED
    BY <1>1, FP!FlowNext, PartsAssume

LEMMA CheckStep ==
    ASSUME CheckInv, W!Next \/ UNCHANGED <<formula, witness, checkVars>>
    PROVE  CheckInv'
  <1>1. [WP!Next]_WP!checkVars
    BY SameCheck DEF checkVars, WP!checkVars
  <1>2. WP!Typed' /\ WP!ReplayInv'
    BY <1>1, WP!TypedNext, WP!ReplayNext DEF CheckInv
  <1>3. WP!EvidenceInv' /\ WP!CutInv' /\ WP!Passing'
    BY <1>1, WP!EvidenceNext, WP!CutInvNext, WP!PassingNext DEF CheckInv
  <1>4. QED
    BY <1>2, <1>3 DEF CheckInv

---------------------------------------------------------------------------
(* What is handed from part to part.                                       *)

\* The registry reads the records of the recovery.
HandedOver ==
    /\ recoveryPc = "done"
    /\ recovery = [status |-> verdict[1],
                   clauses |-> [i \in DOMAIN records |-> records[i].clause]]

\* The flow is the one of the capacity model of a complete registry.
FlowInv ==
    /\ outcome[1] = "COMPLETE" /\ inst = G!CapacityModel
    /\ FP!FlowInv

\* The witness is made from the three.
Written ==
    /\ answer.result = "UNSAT"
    /\ witness = CreateWitness(formula, records, boxes, Kinds, resources, Cut)

HandedToCheck == RecoveryInv /\ HandedOver /\ RegistryInv /\ FlowInv /\ Written

(* The parts count, and build the clauses of families, alike.              *)
LEMMA SameFamilies ==
    /\ \A S : /\ WP!IsFiniteSet(S) = IsFiniteSet(S) /\ GP!IsFiniteSet(S) = IsFiniteSet(S)
              /\ RP!IsFiniteSet(S) = IsFiniteSet(S)
              /\ WP!Cardinality(S) = Cardinality(S) /\ GP!Cardinality(S) = Cardinality(S)
    /\ \A g, k, sign : /\ WP!Combinations(g, k, sign) = Combinations(g, k, sign)
                       /\ GP!Combinations(g, k, sign) = Combinations(g, k, sign)
    /\ Clause = RP!Clause /\ Clause = WP!Clause /\ Literal = WP!Literal
  <1>1. ASSUME NEW S
        PROVE  /\ WP!IsFiniteSet(S) = IsFiniteSet(S) /\ GP!IsFiniteSet(S) = IsFiniteSet(S)
               /\ RP!IsFiniteSet(S) = IsFiniteSet(S)
    BY DEF IsFiniteSet, WP!IsFiniteSet, GP!IsFiniteSet, RP!IsFiniteSet
  <1>2. ASSUME NEW S
        PROVE  WP!Cardinality(S) = Cardinality(S) /\ GP!Cardinality(S) = Cardinality(S)
    BY DEF Cardinality, WP!Cardinality, GP!Cardinality
  <1>3. ASSUME NEW g, NEW k, NEW sign
        PROVE  /\ WP!Combinations(g, k, sign) = Combinations(g, k, sign)
               /\ GP!Combinations(g, k, sign) = Combinations(g, k, sign)
    BY DEF Combinations, WP!Combinations, GP!Combinations, Cardinality, WP!Cardinality,
           GP!Cardinality, kSubset, WP!kSubset, GP!kSubset
  <1>4. Clause = RP!Clause /\ Clause = WP!Clause /\ Literal = WP!Literal
    BY DEF Clause, RP!Clause, WP!Clause, Literal, RP!Literal, WP!Literal, Tautology,
           RP!Tautology, WP!Tautology, IsFiniteSet, RP!IsFiniteSet, WP!IsFiniteSet
  <1>5. QED
    BY <1>1, <1>2, <1>3, <1>4

(* The parts measure a cut alike.                                          *)
LEMMA SameCuts ==
    /\ \A i, bs, rs : /\ WP!CutCapacity(i, bs, rs) = CutCapacity(i, bs, rs)
                      /\ FP!CutCapacity(i, bs, rs) = CutCapacity(i, bs, rs)
                      /\ WP!SourceCut(i, bs) = SourceCut(i, bs)
                      /\ WP!EdgeCut(i, bs, rs) = EdgeCut(i, bs, rs)
                      /\ WP!ResourceCut(i, rs) = ResourceCut(i, rs)
    /\ \A i : WP!TotalDemand(i) = TotalDemand(i) /\ FP!TotalDemand(i) = TotalDemand(i)
  <1> USE DEF SumFunction, WP!SumFunction, FP!SumFunction, SumFunctionOnSet,
              WP!SumFunctionOnSet, FP!SumFunctionOnSet, BoxesOf, WP!BoxesOf, FP!BoxesOf,
              Cardinality, WP!Cardinality, FP!Cardinality, FoldFunctionOnSet,
              WP!FoldFunctionOnSet, FP!FoldFunctionOnSet, MapThenFoldSet, WP!MapThenFoldSet,
              FP!MapThenFoldSet
  <1>1. ASSUME NEW i, NEW bs, NEW rs
        PROVE  /\ WP!CutCapacity(i, bs, rs) = CutCapacity(i, bs, rs)
               /\ FP!CutCapacity(i, bs, rs) = CutCapacity(i, bs, rs)
               /\ WP!SourceCut(i, bs) = SourceCut(i, bs)
               /\ WP!EdgeCut(i, bs, rs) = EdgeCut(i, bs, rs)
               /\ WP!ResourceCut(i, rs) = ResourceCut(i, rs)
    BY DEF CutCapacity, WP!CutCapacity, FP!CutCapacity, SourceCut, WP!SourceCut, FP!SourceCut,
           EdgeCut, WP!EdgeCut, FP!EdgeCut, ResourceCut, WP!ResourceCut, FP!ResourceCut
  <1>2. ASSUME NEW i
        PROVE  WP!TotalDemand(i) = TotalDemand(i) /\ FP!TotalDemand(i) = TotalDemand(i)
    BY DEF TotalDemand, WP!TotalDemand, FP!TotalDemand
  <1>3. QED
    BY <1>1, <1>2

(* The records are what the checker replays.                               *)
LEMMA DatabaseExported ==
    ASSUME RecoveryInv, recoveryPc = "done"
    PROVE  /\ records \in Seq(RP!Record)
           /\ \A i \in DOMAIN records : records[i].clause \in Clause
           /\ WP!CleanDatabase(records)
           /\ WP!OriginalsFirst(formula, records)
           /\ WP!Derivations(records)
  <1>1. records \in Seq(RP!Record) /\ RP!Ids = DOMAIN records
    BY DEF RecoveryInv, RP!Typed, RP!TypeOK, RP!Ids
  <1>2. \A i \in DOMAIN records : records[i].clause \in Clause
    <2>1. \A i \in DOMAIN records : records[i] \in RP!Record
      BY <1>1
    <2>2. \A i \in DOMAIN records : records[i].clause \in RP!Clause
      BY <2>1 DEF RP!Record
    <2>3. QED
      BY <2>2, SameFamilies
  <1>3. WP!CleanDatabase(records)
    <2>1. \A i \in DOMAIN records : ~WP!Tautology(records[i].clause)
      BY <1>2 DEF Clause, Tautology, WP!Tautology
    <2>2. QED
      BY <1>1, <2>1 DEF WP!CleanDatabase, RecoveryInv, RP!Distinct
  <1>4. \A i \in DOMAIN records : RP!Justified(i)
    BY <1>1 DEF RecoveryInv, RP!ReplayInv, RP!Replayable
  <1>5. WP!Derivations(records)
    BY <1>4 DEF WP!Derivations, RP!Justified, WP!Pivots, RP!Pivots, WP!Resolvent, RP!Resolvent
  <1>6. ASSUME NEW k \in DOMAIN formula
        PROVE  \E i \in DOMAIN records : records[i].original /\ records[i].clause = formula[k]
    <2>1. formula[k] \in RP!ClausesOf(formula) /\ RP!ClausesOf(formula) \subseteq RP!Known
      BY RP!FormulaKnown, PartsAssume DEF RP!ClausesOf, RecoveryInv
    <2>2. PICK i \in DOMAIN records : records[i].clause = formula[k]
      BY <1>1, <2>1 DEF RP!Known
    <2>3. records[i].original
      BY <1>1, <2>1, <2>2 DEF RecoveryInv, RP!OriginalInv
    <2>4. QED
      BY <2>2, <2>3
  <1>7. ASSUME NEW i \in DOMAIN records, records[i].original
        PROVE  /\ records[i].depth = 0 /\ records[i].clause \in WP!ClausesOf(formula)
               /\ \A j \in 1 .. i : records[j].original
    BY <1>4, <1>7 DEF RP!Justified, RP!ClausesOf, WP!ClausesOf
  <1>8. \A i, j \in DOMAIN records : i < j /\ records[j].original =>
          \A k \in DOMAIN formula : formula[k] = records[j].clause =>
              \E m \in DOMAIN formula : m < k /\ formula[m] = records[i].clause
    BY <1>1 DEF RecoveryInv, RP!FirstsInv
  <1>9. WP!OriginalsFirst(formula, records)
    BY <1>6, <1>7, <1>8 DEF WP!OriginalsFirst
  <1>10. QED
    BY <1>1, <1>2, <1>3, <1>5, <1>9

(* A family that the registry found is evidence.                           *)
LEMMA FamilyExported ==
    ASSUME HandedOver, NEW family, family \subseteq GP!Clauses
    PROVE  WP!Supports(records, family, IdsOf(records, family))
  <1>1. GP!Clauses = {records[i].clause : i \in DOMAIN records}
    BY DEF HandedOver, GP!Clauses, GP!ClausesOf
  <1>2. QED
    BY <1>1 DEF WP!Supports, IdsOf

(* The selection, on the operators of this module.                         *)
LEMMA Selected ==
    ASSUME RegistryInv
    PROVE  /\ DOMAIN boxes = 1 .. Len(boxes) /\ Len(boxes) \in Nat
           /\ DOMAIN resources = 1 .. Len(resources) /\ Len(resources) \in Nat
           /\ \A b \in DOMAIN boxes :
                LET g == boxes[b].group
                    d == boxes[b].demand
                IN  /\ IsFiniteSet(g) /\ g \subseteq Nat \ {0} /\ g \subseteq Literal
                    /\ d \in 1 .. Cardinality(g) - 1 /\ Cardinality(g) \in Nat
                    /\ BoxEvidence(boxes[b], "exact") \subseteq GP!Clauses
           /\ \A r \in DOMAIN resources :
                /\ IsFiniteSet(resources[r].group) /\ resources[r].group \subseteq Nat \ {0}
                /\ resources[r].group \subseteq Literal
                /\ resources[r].capacity \in Nat
                /\ ResourceEvidence(resources[r]) \subseteq GP!Clauses
           /\ \A b, c \in DOMAIN boxes : b # c => boxes[b].group \cap boxes[c].group = {}
           /\ \A r, s \in DOMAIN resources :
                r # s => resources[r].group \cap resources[s].group = {}
  <1>0. GP!RegTyped /\ GP!BoxesInv /\ GP!ResourcesInv /\ GP!Apart /\ GP!SidedInv
    BY DEF RegistryInv, GP!RegistryInv
  <1>1. /\ DOMAIN boxes = 1 .. Len(boxes) /\ Len(boxes) \in Nat
        /\ DOMAIN resources = 1 .. Len(resources) /\ Len(resources) \in Nat
    BY <1>0 DEF GP!RegTyped
  <1>2. ASSUME NEW b \in DOMAIN boxes
        PROVE  LET g == boxes[b].group
                   d == boxes[b].demand
               IN  /\ IsFiniteSet(g) /\ g \subseteq Nat \ {0} /\ g \subseteq Literal
                   /\ d \in 1 .. Cardinality(g) - 1 /\ Cardinality(g) \in Nat
                   /\ BoxEvidence(boxes[b], "exact") \subseteq GP!Clauses
    <2>1. GP!IsExactBox(GP!Clauses, boxes[b])
      BY <1>0 DEF GP!SidedInv, GP!OneSidedBox, GP!Engines
    <2>2. IsFiniteSet(boxes[b].group) /\ boxes[b].group \subseteq Nat \ {0}
      BY <2>1, SameFamilies DEF GP!IsExactBox, GP!VariableSet
    <2>3. boxes[b].demand \in 1 .. Cardinality(boxes[b].group) - 1
      BY <2>1, SameFamilies DEF GP!IsExactBox
    <2>4. BoxEvidence(boxes[b], "exact") = GP!ExactFamily(boxes[b].group, boxes[b].demand)
      BY SameFamilies DEF BoxEvidence, GP!ExactFamily
    <2>5. boxes[b].group \subseteq Literal
      BY <2>2 DEF Literal
    <2>6. QED
      BY <2>1, <2>2, <2>3, <2>4, <2>5, FS_CardinalityType DEF GP!IsExactBox
  <1>3. ASSUME NEW r \in DOMAIN resources
        PROVE  /\ IsFiniteSet(resources[r].group) /\ resources[r].group \subseteq Nat \ {0}
               /\ resources[r].group \subseteq Literal
               /\ resources[r].capacity \in Nat
               /\ ResourceEvidence(resources[r]) \subseteq GP!Clauses
    <2>1. GP!IsResource(GP!Clauses, boxes, resources[r])
      BY <1>0 DEF GP!ResourcesInv
    <2>2. IsFiniteSet(resources[r].group) /\ resources[r].group \subseteq Nat \ {0}
      BY <2>1, SameFamilies DEF GP!IsResource, GP!AcrossBoxes, GP!VariableSet
    <2>3. resources[r].capacity \in Nat /\ ResourceEvidence(resources[r]) \subseteq GP!Clauses
      BY <2>1, SameFamilies DEF GP!IsResource, ResourceEvidence
    <2>4. QED
      BY <2>2, <2>3 DEF Literal
  <1>4. /\ \A b, c \in DOMAIN boxes : b # c => boxes[b].group \cap boxes[c].group = {}
        /\ \A r, s \in DOMAIN resources :
             r # s => resources[r].group \cap resources[s].group = {}
    BY <1>0 DEF GP!Apart, GP!Disjoint
  <1>5. QED
    BY <1>1, <1>2, <1>3, <1>4

(* The variables of a complete registry have one resource each, and those  *)
(* of one box different ones.                                              *)
LEMMA Mapped ==
    ASSUME RegistryInv, outcome[1] = "COMPLETE"
    PROVE  /\ UNION {boxes[b].group : b \in DOMAIN boxes}
                = UNION {resources[r].group : r \in DOMAIN resources}
           /\ \A b \in DOMAIN boxes : \A v \in boxes[b].group :
                /\ G!ResourceOf(v) \in DOMAIN resources
                /\ \A r \in DOMAIN resources : v \in resources[r].group <=> r = G!ResourceOf(v)
           /\ \A b \in DOMAIN boxes : \A v, w \in boxes[b].group :
                G!ResourceOf(v) = G!ResourceOf(w) => v = w
           /\ ~G!ModelRejected
  <1>1. GP!RegistryInv /\ GP!Boxed = GP!Resourced
    BY DEF RegistryInv, GP!RegistryInv, GP!Covered
  <1>2. /\ \A v \in GP!Boxed : /\ GP!ResourceOf(v) \in DOMAIN resources
                               /\ v \in resources[GP!ResourceOf(v)].group
        /\ \A b \in DOMAIN boxes : \A v, w \in boxes[b].group :
             GP!ResourceOf(v) = GP!ResourceOf(w) => v = w
        /\ ~GP!ModelRejected
    BY <1>1, GP!ModelIsBuilt, PartsAssume
  <1>3. \A v : G!ResourceOf(v) = GP!ResourceOf(v)
    BY DEF G!ResourceOf, GP!ResourceOf
  <1>4. G!ModelRejected <=> GP!ModelRejected
    BY DEF G!ModelRejected, GP!ModelRejected, G!Resourced, GP!Resourced, G!Cardinality,
           GP!Cardinality, G!ResourceOf, GP!ResourceOf
  <1>5. ASSUME NEW b \in DOMAIN boxes, NEW v \in boxes[b].group
        PROVE  /\ G!ResourceOf(v) \in DOMAIN resources
               /\ \A r \in DOMAIN resources : v \in resources[r].group <=> r = G!ResourceOf(v)
    <2>1. v \in GP!Boxed
      BY DEF GP!Boxed
    <2>2. G!ResourceOf(v) \in DOMAIN resources /\ v \in resources[G!ResourceOf(v)].group
      BY <1>2, <1>3, <2>1
    <2>3. \A r, s \in DOMAIN resources :
            r # s => resources[r].group \cap resources[s].group = {}
      BY Selected
    <2>4. QED
      BY <2>2, <2>3
  <1>6. QED
    BY <1>1, <1>2, <1>3, <1>4, <1>5 DEF GP!Boxed, GP!Resourced

---------------------------------------------------------------------------
(* The witness that is written passes.                                     *)

LEMMA Fields ==
    ASSUME Written
    PROVE  /\ witness.of = formula /\ witness.database = records
           /\ DOMAIN witness.boxes = DOMAIN boxes
           /\ \A b \in DOMAIN boxes :
                /\ witness.boxes[b].group = boxes[b].group
                /\ witness.boxes[b].demand = boxes[b].demand
                /\ witness.boxes[b].kind = "exact"
                /\ witness.boxes[b].evidence = IdsOf(records, BoxEvidence(boxes[b], "exact"))
           /\ DOMAIN witness.resources = DOMAIN resources
           /\ \A r \in DOMAIN resources :
                /\ witness.resources[r].group = resources[r].group
                /\ witness.resources[r].capacity = resources[r].capacity
                /\ witness.resources[r].evidence = IdsOf(records, ResourceEvidence(resources[r]))
           /\ witness.mapping = [v \in UNION {resources[r].group : r \in DOMAIN resources} |->
                                   CHOOSE r \in DOMAIN resources : v \in resources[r].group]
           /\ witness.flow = Cut
  BY DEF Written, CreateWitness, Kinds

LEMMA FlowFields ==
    ASSUME Written
    PROVE  /\ witness.flow.boxes = answer.boxes /\ witness.flow.resources = answer.resources
           /\ witness.flow.sourceCut = SourceCut(inst, answer.boxes)
           /\ witness.flow.edgeCut = EdgeCut(inst, answer.boxes, answer.resources)
           /\ witness.flow.resourceCut = ResourceCut(inst, answer.resources)
           /\ witness.flow.cut = answer.cut /\ witness.flow.demand = TotalDemand(inst)
  BY Fields DEF Cut, FlowEntry

\* The variables of the boxes, and of the resources, of the witness.
LEMMA SameGroups ==
    ASSUME Written
    PROVE  /\ WP!Grouped(witness.boxes) = UNION {boxes[b].group : b \in DOMAIN boxes}
           /\ WP!Grouped(witness.resources)
                = UNION {resources[r].group : r \in DOMAIN resources}
  <1>1. /\ {witness.boxes[b].group : b \in DOMAIN witness.boxes}
             = {boxes[b].group : b \in DOMAIN boxes}
        /\ {witness.resources[r].group : r \in DOMAIN witness.resources}
             = {resources[r].group : r \in DOMAIN resources}
    BY Fields
  <1>2. QED
    BY <1>1 DEF WP!Grouped

(* The checker maps variables to resources as the capacity model does.     *)
LEMMA MappingExported ==
    ASSUME HandedToCheck
    PROVE  /\ WP!MappingHolds
           /\ \A b \in DOMAIN boxes : \A v \in boxes[b].group :
                WP!ResourceOf(v) = G!ResourceOf(v)
  <1>0. RegistryInv /\ outcome[1] = "COMPLETE" /\ Written
    BY DEF HandedToCheck, FlowInv
  <1> DEFINE mapped == UNION {resources[r].group : r \in DOMAIN resources}
             first(v) == CHOOSE r \in DOMAIN resources : v \in resources[r].group
  <1>1. ASSUME NEW v \in mapped
        PROVE  WP!ResourceOf(v) = G!ResourceOf(v) /\ first(v) = G!ResourceOf(v)
    <2>1. PICK b \in DOMAIN boxes : v \in boxes[b].group
      BY <1>0, Mapped
    <2>2. /\ G!ResourceOf(v) \in DOMAIN resources
          /\ \A r \in DOMAIN resources : v \in resources[r].group <=> r = G!ResourceOf(v)
      BY <1>0, <2>1, Mapped
    <2>3. \A r \in DOMAIN witness.resources :
            v \in witness.resources[r].group <=> r = G!ResourceOf(v)
      BY <1>0, <2>2, Fields
    <2>4. G!ResourceOf(v) \in DOMAIN witness.resources
      BY <1>0, <2>2, Fields
    <2>5. WP!ResourceOf(v) = G!ResourceOf(v)
      <3> DEFINE q == G!ResourceOf(v)
                 p == CHOOSE r \in DOMAIN witness.resources : v \in witness.resources[r].group
      <3>1. \E r \in DOMAIN witness.resources : v \in witness.resources[r].group
        BY <2>3, <2>4
      <3>2. p \in DOMAIN witness.resources /\ v \in witness.resources[p].group
        BY <3>1
      <3>3. p = q
        BY <2>3, <3>2
      <3>4. QED
        BY <3>3 DEF WP!ResourceOf
    <2>6. first(v) = G!ResourceOf(v)
      <3>1. first(v) \in DOMAIN resources /\ v \in resources[first(v)].group
        BY <2>2
      <3> HIDE DEF first
      <3>2. QED
        BY <2>2, <3>1
    <2>7. QED
      BY <2>5, <2>6
  <1>2. \A b \in DOMAIN boxes : \A v \in boxes[b].group : v \in mapped
    BY <1>0, Mapped
  <1>3. WP!Grouped(witness.boxes) = mapped /\ WP!Grouped(witness.resources) = mapped
    BY <1>0, SameGroups, Mapped
  <1>4. witness.mapping = [v \in mapped |-> first(v)]
    BY <1>0, Fields
  <1> HIDE DEF mapped, first
  <1>5. witness.mapping = [v \in mapped |-> WP!ResourceOf(v)]
    BY <1>1, <1>4
  <1>6. \A b \in DOMAIN witness.boxes : \A v, w \in witness.boxes[b].group :
          WP!ResourceOf(v) = WP!ResourceOf(w) => v = w
    <2> SUFFICES ASSUME NEW b \in DOMAIN boxes, NEW v \in boxes[b].group,
                        NEW w \in boxes[b].group, WP!ResourceOf(v) = WP!ResourceOf(w)
                 PROVE  v = w
      BY <1>0, Fields
    <2>1. G!ResourceOf(v) = G!ResourceOf(w)
      BY <1>1, <1>2
    <2>2. QED
      BY <1>0, <2>1, Mapped
  <1>7. QED
    BY <1>1, <1>2, <1>3, <1>5, <1>6 DEF WP!MappingHolds

(* The checker measures the cut of the capacity model.                     *)
LEMMA CutExported ==
    ASSUME HandedToCheck
    PROVE  WP!CutHolds
  <1>0. RegistryInv /\ Written /\ FP!FlowInv /\ inst = G!CapacityModel
    BY DEF HandedToCheck, FlowInv
  <1> DEFINE bs == answer.boxes
             rs == answer.resources
             claimed == WP!Claimed
  <1>1. /\ answer.result = "UNSAT" /\ bs \subseteq FP!BoxesOf(inst)
        /\ rs \subseteq FP!ResourcesOf(inst) /\ answer.cut = FP!CutCapacity(inst, bs, rs)
        /\ answer.cut < FP!TotalDemand(inst)
    BY <1>0 DEF Written, FP!FlowInv, FP!Answered, FP!CutNamed, FP!AnswerIsExplained
  <1>2. /\ inst.demands = [b \in DOMAIN boxes |-> boxes[b].demand]
        /\ inst.capacities = [r \in DOMAIN resources |-> resources[r].capacity]
        /\ inst.reachable = [b \in DOMAIN boxes |-> {G!ResourceOf(v) : v \in boxes[b].group}]
    BY <1>0 DEF G!CapacityModel
  <1>3. bs \subseteq DOMAIN boxes /\ rs \subseteq DOMAIN resources
    BY <1>1, <1>2 DEF FP!BoxesOf, FP!ResourcesOf
  <1>4. claimed.demands = inst.demands /\ claimed.capacities = inst.capacities
    BY <1>0, <1>2, Fields DEF WP!Claimed
  <1>5. bs \subseteq WP!BoxIds /\ \A b \in DOMAIN boxes : WP!BoxWith(b) = witness.boxes[b]
    BY <1>0, <1>3, Fields, Selected DEF WP!BoxIds, WP!BoxWith
  <1>6. ASSUME NEW b \in bs
        PROVE  claimed.reachable[b] = inst.reachable[b]
    <2>1. b \in DOMAIN boxes /\ b \in WP!BoxIds /\ WP!BoxWith(b).group = boxes[b].group
      BY <1>0, <1>3, <1>5, Fields
    <2>2. claimed.reachable[b] = {WP!ResourceOf(v) : v \in boxes[b].group}
      BY <2>1 DEF WP!Claimed
    <2>3. {WP!ResourceOf(v) : v \in boxes[b].group} = {G!ResourceOf(v) : v \in boxes[b].group}
      BY <2>1, MappingExported
    <2>4. QED
      BY <1>2, <2>1, <2>2, <2>3
  <1>7. WP!ReachedResources = rs
    BY <1>0, <1>3, Fields, FlowFields DEF WP!ReachedResources
  <1> HIDE DEF bs, rs, claimed
  <1>8. SourceCut(claimed, bs) = SourceCut(inst, bs)
    BY <1>4 DEF SourceCut, BoxesOf
  <1>9. EdgeCut(claimed, bs, rs) = EdgeCut(inst, bs, rs)
    <2>1. [b \in bs |-> Cardinality(claimed.reachable[b] \ rs)]
            = [b \in bs |-> Cardinality(inst.reachable[b] \ rs)]
      BY <1>6
    <2>2. QED
      BY <2>1 DEF EdgeCut
  <1>10. ResourceCut(claimed, rs) = ResourceCut(inst, rs)
    BY <1>4 DEF ResourceCut
  <1>11. TotalDemand(claimed) = TotalDemand(inst)
    BY <1>4 DEF TotalDemand
  <1>12. CutCapacity(claimed, bs, rs) = CutCapacity(inst, bs, rs)
    BY <1>8, <1>9, <1>10 DEF CutCapacity
  <1>13. /\ witness.flow.boxes = bs
         /\ witness.flow.sourceCut = WP!SourceCut(claimed, bs)
         /\ witness.flow.edgeCut = WP!EdgeCut(claimed, bs, rs)
         /\ witness.flow.resourceCut = WP!ResourceCut(claimed, rs)
         /\ witness.flow.cut = WP!CutCapacity(claimed, bs, rs)
         /\ witness.flow.demand = WP!TotalDemand(claimed)
         /\ witness.flow.cut < witness.flow.demand
    BY <1>0, <1>1, <1>8, <1>9, <1>10, <1>11, <1>12, FlowFields, SameCuts DEF bs, rs
  <1>14. QED
    BY <1>5, <1>7, <1>13 DEF WP!CutHolds, claimed

LEMMA WitnessExported == HandedToCheck => WP!Exported
  <1> SUFFICES ASSUME HandedToCheck
               PROVE  WP!Exported
    OBVIOUS
  <1>0. RecoveryInv /\ recoveryPc = "done" /\ HandedOver /\ RegistryInv /\ Written
    BY DEF HandedToCheck, HandedOver
  <1>1. WP!CleanDatabase(records) /\ WP!OriginalsFirst(formula, records)
        /\ WP!Derivations(records)
    BY <1>0, DatabaseExported
  <1>2. WP!GroupsApart(witness.boxes) /\ WP!GroupsApart(witness.resources)
    BY <1>0, Fields, Selected DEF WP!GroupsApart, WP!Apart
  <1>3. ASSUME NEW b \in DOMAIN witness.boxes
        PROVE  /\ witness.boxes[b].kind \in {"exact", "atleast"}
               /\ WP!BoxSizes(witness.boxes[b])
               /\ WP!Supports(records, WP!BoxFamily(witness.boxes[b]), witness.boxes[b].evidence)
    <2>1. /\ b \in DOMAIN boxes /\ witness.boxes[b].kind = "exact"
          /\ witness.boxes[b].group = boxes[b].group
          /\ witness.boxes[b].demand = boxes[b].demand
          /\ witness.boxes[b].evidence = IdsOf(records, BoxEvidence(boxes[b], "exact"))
      BY <1>0, Fields
    <2>2. /\ boxes[b].demand \in 1 .. Cardinality(boxes[b].group) - 1
          /\ Cardinality(boxes[b].group) \in Nat
          /\ BoxEvidence(boxes[b], "exact") \subseteq GP!Clauses
      BY <1>0, <2>1, Selected
    <2>3. WP!BoxSizes(witness.boxes[b])
      BY <2>1, <2>2, SameFamilies DEF WP!BoxSizes
    <2>4. WP!BoxFamily(witness.boxes[b]) = BoxEvidence(boxes[b], "exact")
      BY <2>1, SameFamilies DEF WP!BoxFamily, WP!LowerFamily, WP!UpperFamily, BoxEvidence
    <2>5. QED
      BY <1>0, <2>1, <2>2, <2>3, <2>4, FamilyExported
  <1>4. ASSUME NEW r \in DOMAIN witness.resources
        PROVE  /\ witness.resources[r].capacity >= -1
               /\ WP!Supports(records,
                     WP!UpperFamily(witness.resources[r].group, witness.resources[r].capacity),
                     witness.resources[r].evidence)
    <2>1. /\ r \in DOMAIN resources
          /\ witness.resources[r].group = resources[r].group
          /\ witness.resources[r].capacity = resources[r].capacity
          /\ witness.resources[r].evidence = IdsOf(records, ResourceEvidence(resources[r]))
      BY <1>0, Fields
    <2>2. resources[r].capacity \in Nat /\ ResourceEvidence(resources[r]) \subseteq GP!Clauses
      BY <1>0, <2>1, Selected
    <2>3. WP!UpperFamily(witness.resources[r].group, witness.resources[r].capacity)
            = ResourceEvidence(resources[r])
      BY <2>1, SameFamilies DEF WP!UpperFamily, ResourceEvidence
    <2>4. QED
      BY <1>0, <2>1, <2>2, <2>3, FamilyExported
  <1>5. witness.of = formula /\ witness.database = records
    BY <1>0, Fields
  <1>6. WP!MappingHolds /\ WP!CutHolds
    BY MappingExported, CutExported
  <1>7. QED
    BY <1>1, <1>2, <1>3, <1>4, <1>5, <1>6 DEF WP!Exported

\* The file has the lists and clauses that the checker expects of one.
LEMMA WitnessTyped == HandedToCheck => WP!WellFormed(witness) /\ formula \in Seq(WP!Clause)
  <1> SUFFICES ASSUME HandedToCheck
               PROVE  WP!WellFormed(witness) /\ formula \in Seq(WP!Clause)
    OBVIOUS
  <1>0. RecoveryInv /\ recoveryPc = "done" /\ RegistryInv /\ Written
    BY DEF HandedToCheck, HandedOver
  <1>1. /\ \A i \in DOMAIN records : records[i].clause \in Clause
        /\ DOMAIN records = 1 .. Len(records) /\ Len(records) \in Nat
    BY <1>0, DatabaseExported
  <1>2. \A i \in DOMAIN records :
          records[i].clause \in SUBSET WP!Literal /\ WP!IsFiniteSet(records[i].clause)
    BY <1>1, SameFamilies DEF Clause
  <1>3. WP!IsList(records) /\ witness.database = records
    BY <1>0, <1>1, Fields DEF WP!IsList
  <1>4. /\ \A b \in DOMAIN boxes : /\ boxes[b].group \in SUBSET WP!Literal
                                   /\ WP!IsFiniteSet(boxes[b].group)
                                   /\ boxes[b].demand \in Int
        /\ \A r \in DOMAIN resources : /\ resources[r].group \in SUBSET WP!Literal
                                       /\ WP!IsFiniteSet(resources[r].group)
                                       /\ resources[r].capacity \in Int
    BY <1>0, Selected, SameFamilies
  <1>5. WP!IsList(witness.boxes) /\ WP!IsList(witness.resources)
    <2>1. /\ witness.boxes = [b \in DOMAIN boxes |->
               [group |-> boxes[b].group, demand |-> boxes[b].demand, kind |-> Kinds[b],
                evidence |-> IdsOf(records, BoxEvidence(boxes[b], Kinds[b]))]]
          /\ witness.resources = [r \in DOMAIN resources |->
               [group |-> resources[r].group, capacity |-> resources[r].capacity,
                evidence |-> IdsOf(records, ResourceEvidence(resources[r]))]]
      BY <1>0 DEF Written, CreateWitness
    <2>2. /\ DOMAIN boxes = 1 .. Len(boxes) /\ Len(boxes) \in Nat
          /\ DOMAIN resources = 1 .. Len(resources) /\ Len(resources) \in Nat
      BY <1>0, Selected
    <2>3. Len(witness.boxes) = Len(boxes) /\ Len(witness.resources) = Len(resources)
      BY <2>1, <2>2
    <2>4. QED
      BY <2>2, <2>3, <1>0, Fields DEF WP!IsList
  <1>6. formula \in Seq(WP!Clause)
    BY <1>0, HybridAssumption, SameFamilies DEF RecoveryInv, RP!Typed, RP!TypeOK
  <1>7. QED
    BY <1>0, <1>2, <1>3, <1>4, <1>5, <1>6, Fields DEF WP!WellFormed

(* The checker starts on a witness that it will accept.                    *)
LEMMA CheckStarts == HandedToCheck /\ W!Fresh => CheckInv
  <1> SUFFICES ASSUME HandedToCheck, W!Fresh
               PROVE  CheckInv
    OBVIOUS
  <1>1. checkPc = "hash" /\ at = 0 /\ originals = <<>> /\ clauses = <<>> /\ ruling = "none"
    BY DEF W!Fresh
  <1>2. WP!WellFormed(witness) /\ formula \in Seq(WP!Clause) /\ WP!Exported
    BY WitnessExported, WitnessTyped
  <1>3. WP!Typed
    BY <1>1, <1>2 DEF WP!Typed, WP!TypeOK
  <1>4. WP!ReplayInv
    BY <1>1 DEF WP!ReplayInv, WP!OriginalsInv, WP!RebuiltInv
  <1>5. WP!EvidenceInv /\ WP!CutInv
    BY <1>1 DEF WP!EvidenceInv, WP!CutInv, WP!AcceptedBoxes, WP!AcceptedResources, WP!Apart
  <1>6. Len(witness.database) \in Nat
    BY <1>2 DEF WP!WellFormed, WP!IsList
  <1>7. WP!Passing
    BY <1>1, <1>2, <1>6 DEF WP!Passing, WP!Collecting, WP!Rebuilding, WP!Accepting
  <1>8. QED
    BY <1>3, <1>4, <1>5, <1>7 DEF CheckInv

---------------------------------------------------------------------------
(* The parts start from what is handed to them.                            *)

LEMMA RegistryStarts == RecoveryInv /\ HandedOver /\ G!Fresh => RegistryInv
  <1> SUFFICES ASSUME RecoveryInv, HandedOver, G!Fresh
               PROVE  RegistryInv
    OBVIOUS
  <1>1. /\ registryPc = "pairs" /\ pair = 0 /\ candidates = {} /\ boxes = <<>> /\ size = 1
        /\ families = {} /\ resources = <<>> /\ outcome = <<"RUNNING", "none">>
    BY DEF G!Fresh
  <1>2. recovery \in AllDatabases
    <2>1. records \in Seq(RP!Record) /\ \A i \in DOMAIN records : records[i].clause \in Clause
      BY DatabaseExported DEF HandedOver
    <2>2. DOMAIN records = 1 .. Len(records) /\ Len(records) \in Nat
      BY <2>1
    <2>3. \A i \in DOMAIN records : records[i].clause \in LiteralSet
      BY <2>1 DEF Clause, LiteralSet
    <2>4. [i \in DOMAIN records |-> records[i].clause] \in Seq(LiteralSet)
      BY <2>2, <2>3
    <2>5. verdict[1] \in {"RUNNING", "COMPLETE", "ABORT"}
      <3>1. verdict \in RP!Verdicts
        BY DEF RecoveryInv, RP!Typed, RP!TypeOK
      <3>2. \/ verdict = <<"RUNNING", "none">> \/ verdict = <<"COMPLETE", "fixed_point">>
            \/ verdict = <<"ABORT", "time_budget">>
            \/ verdict = <<"ABORT", "derived_clause_budget">>
            \/ verdict = <<"ABORT", "memory_budget">>
        BY <3>1 DEF RP!Verdicts
      <3>3. verdict[1] = "RUNNING" \/ verdict[1] = "COMPLETE" \/ verdict[1] = "ABORT"
        BY <3>2, SMT
      <3>4. QED
        BY <3>3
    <2>6. QED
      BY <2>4, <2>5 DEF HandedOver, AllDatabases
  <1>3. GP!RegTyped /\ GP!Ordered
    BY <1>1, <1>2 DEF GP!RegTyped, GP!Ordered
  <1>4. GP!BoxesInv /\ GP!ResourcesInv /\ GP!Apart /\ GP!Covered
    BY <1>1 DEF GP!BoxesInv, GP!ResourcesInv, GP!Apart, GP!Disjoint, GP!Covered
  <1>5. GP!IndexInv /\ GP!SidedInv
    BY <1>1 DEF GP!IndexInv, GP!SidedInv
  <1>6. QED
    BY <1>3, <1>4, <1>5 DEF RegistryInv, GP!RegistryInv

\* The search for a flow has not begun.
FlowFresh == path = <<>> /\ total = 0 /\ flowPc = "levels" /\ answer = F!Undecided

FlowBuilt ==
    /\ inst = G!CapacityModel
    /\ residual = F!Network(inst) /\ level = F!Unlabelled(inst) /\ cursors = F!Uncursored(inst)
    /\ FlowFresh

LEMMA FlowStarts == RegistryInv /\ outcome[1] = "COMPLETE" /\ FlowBuilt => FP!FlowInv
  <1> SUFFICES ASSUME RegistryInv, outcome[1] = "COMPLETE", FlowBuilt
               PROVE  FP!FlowInv
    OBVIOUS
  <1> DEFINE d == [b \in DOMAIN boxes |-> boxes[b].demand]
             c == [r \in DOMAIN resources |-> resources[r].capacity]
             reach == [b \in DOMAIN boxes |-> {G!ResourceOf(v) : v \in boxes[b].group}]
  <1>1. inst = [demands |-> d, capacities |-> c, reachable |-> reach]
    BY DEF FlowBuilt, G!CapacityModel
  <1>2. /\ DOMAIN boxes = 1 .. Len(boxes) /\ Len(boxes) \in Nat
        /\ DOMAIN resources = 1 .. Len(resources) /\ Len(resources) \in Nat
        /\ \A b \in DOMAIN boxes : boxes[b].demand \in Nat
        /\ \A r \in DOMAIN resources : resources[r].capacity \in Nat
    BY Selected
  <1>3. \A b \in DOMAIN boxes : reach[b] \subseteq DOMAIN resources
    BY Mapped
  <1>4. d \in Seq(Nat) /\ c \in Seq(Nat) /\ reach \in Seq(SUBSET Nat)
    <2>1. \A b \in DOMAIN boxes : reach[b] \in SUBSET Nat
      BY <1>2, <1>3
    <2>2. QED
      BY <1>2, <2>1
  <1>5. IsFiniteSet(DOMAIN boxes) /\ IsFiniteSet(DOMAIN resources)
    BY <1>2, FS_Interval
  <1>6. ProperInstance(inst)
    BY <1>1, <1>2, <1>3, <1>5 DEF ProperInstance, BoxesOf, ResourcesOf
  <1>7. inst \in AllInstances
    BY <1>1, <1>4, <1>6 DEF AllInstances
  <1>8. FP!Init
    BY <1>7 DEF FlowBuilt, FlowFresh, FP!Init, F!Network, FP!Network, F!Unlabelled,
       FP!Unlabelled, F!Uncursored, FP!Uncursored, F!Undecided, FP!Undecided, F!NodesOf,
       FP!NodesOf, F!NetworkCapacity, FP!NetworkCapacity, F!Source, FP!Source, F!Sink, FP!Sink,
       F!Box, FP!Box, F!Resource, FP!Resource, F!BoxesOf, FP!BoxesOf, F!ResourcesOf,
       FP!ResourcesOf
  <1>9. QED
    BY <1>8, FP!FlowInit, PartsAssume

---------------------------------------------------------------------------
(* The invariant of solve_hybrid.                                          *)

\* What holds of the front end in each of its stages.
FrontInv ==
    /\ RecoveryInv
    /\ stage \in {"gates", "recovery"} => G!Fresh
    /\ stage \in {"gates", "recovery", "registry"} => FlowFresh
    /\ stage \in {"gates", "recovery", "registry", "flow"} => W!Fresh
    /\ stage \in {"registry", "flow", "check"} => HandedOver /\ RegistryInv
    /\ stage \in {"flow", "check"} => FlowInv
    /\ stage = "check" => Written /\ CheckInv

\* The front end is done with, or was never started.
Behind == {"fallback", "wait", "kill", "log", "returned"}

Stages == {"gates", "recovery", "registry", "flow", "check"} \cup Behind

\* The fallback solver runs while it is waited for, and says what is true.
FallbackInv ==
    /\ stage \in Stages
    /\ child = "running" => stage \in {"wait", "kill"}
    /\ output \subseteq {Oracle!Truth(formula), "UNKNOWN"}
    /\ code \in {0, 1, -9, ExitCode[Oracle!Truth(formula)]}
    /\ stage # "returned" => final = "none"

HybridInv == FrontInv /\ FallbackInv

(* The first state. *)
LEMMA HybridInit == Init => HybridInv
  <1> SUFFICES ASSUME Init
               PROVE  HybridInv
    OBVIOUS
  <1>1. R!Init /\ stage = "gates"
    BY DEF Init
  <1>2. RP!Init
    BY <1>1 DEF R!Init, RP!Init
  <1>3. RP!Typed
    BY <1>2, RP!TypedInit, PartsAssume
  <1>4. /\ RP!ReplayInv /\ RP!Distinct /\ RP!LoadedInv /\ RP!OriginalInv /\ RP!FirstsInv
    BY <1>2 DEF RP!Init, RP!ReplayInv, RP!Replayable, RP!LoadInv, RP!Distinct, RP!LoadedInv,
       RP!OriginalInv, RP!FirstsInv, RP!Ids
  <1>5. FrontInv
    BY <1>1, <1>3, <1>4 DEF FrontInv, RecoveryInv, Init, FlowFresh
  <1>6. FallbackInv
    BY DEF Init, FallbackInv, Stages
  <1>7. QED
    BY <1>5, <1>6 DEF HybridInv

---------------------------------------------------------------------------
(* The steps of solve_hybrid.                                              *)

\* A step that leaves the front end alone.
LEMMA FrontKept ==
    ASSUME FrontInv, UNCHANGED <<arguments, recoveryVars, registryVars, flowVars, checkVars>>
    PROVE  /\ stage' \in Behind \/ stage' = "raised" => FrontInv'
           /\ stage' = stage => FrontInv'
           /\ stage = "gates" /\ stage' = "recovery" => FrontInv'
  <1>1. RecoveryInv'
    BY RecoveryStep DEF FrontInv, arguments
  <1>2. (G!Fresh => G!Fresh') /\ (FlowFresh => FlowFresh') /\ (W!Fresh => W!Fresh')
    BY DEF G!Fresh, FlowFresh, F!Undecided, W!Fresh, registryVars, flowVars, checkVars
  <1>3. /\ HandedOver => HandedOver'
        /\ RegistryInv => RegistryInv'
    BY RegistryStep DEF HandedOver, arguments, recoveryVars
  <1>4. FlowInv => FlowInv'
    <2>1. FP!FlowInv => FP!FlowInv'
      BY FlowStep DEF arguments
    <2>2. G!CapacityModel' = G!CapacityModel
      BY DEF G!CapacityModel, G!ResourceOf, registryVars
    <2>3. outcome' = outcome /\ inst' = inst
      BY DEF registryVars, arguments
    <2>4. QED
      BY <2>1, <2>2, <2>3 DEF FlowInv
  <1>5. Written => Written'
    <2>1. Kinds' = Kinds /\ Cut' = Cut
      BY DEF Kinds, Cut, arguments, registryVars, flowVars
    <2>2. /\ witness' = witness /\ formula' = formula /\ records' = records
          /\ boxes' = boxes /\ resources' = resources /\ answer' = answer
      BY DEF arguments, recoveryVars, registryVars, flowVars
    <2>3. QED
      BY <2>1, <2>2 DEF Written
  <1>6. CheckInv => CheckInv'
    BY CheckStep DEF arguments
  <1>7. stage' \in Behind \/ stage' = "raised" => FrontInv'
    BY <1>1 DEF FrontInv, Behind
  <1>8. stage' = stage => FrontInv'
    BY <1>1, <1>2, <1>3, <1>4, <1>5, <1>6 DEF FrontInv
  <1>9. stage = "gates" /\ stage' = "recovery" => FrontInv'
    BY <1>1, <1>2 DEF FrontInv
  <1>10. QED
    BY <1>7, <1>8, <1>9

(* The parts that a step leaves alone keep what was handed to them.        *)
LEMMA RecordsKept ==
    ASSUME UNCHANGED <<recovery, recoveryVars>>, HandedOver
    PROVE  HandedOver'
  BY DEF HandedOver, recoveryVars

LEMMA RecoverNext ==
    ASSUME FrontInv, Recover
    PROVE  FrontInv'
  <1>1. RecoveryInv'
    BY RecoveryStep DEF FrontInv, Recover
  <1>2. stage = "recovery" /\ stage' = "recovery" /\ G!Fresh /\ FlowFresh /\ W!Fresh
    BY DEF FrontInv, Recover
  <1>3. G!Fresh' /\ FlowFresh' /\ W!Fresh'
    BY <1>2 DEF Recover, registryVars, flowVars, checkVars, G!Fresh, FlowFresh, F!Undecided,
       W!Fresh
  <1>4. QED
    BY <1>1, <1>2, <1>3 DEF FrontInv

LEMMA RecoveredNext ==
    ASSUME FrontInv, Recovered
    PROVE  FrontInv'
  <1>1. RecoveryInv'
    BY RecoveryStep DEF FrontInv, Recovered
  <1>2. stage = "recovery" /\ stage' = "registry" /\ G!Fresh /\ FlowFresh /\ W!Fresh
    BY DEF FrontInv, Recovered
  <1>3. G!Fresh' /\ FlowFresh' /\ W!Fresh'
    BY <1>2 DEF Recovered, registryVars, flowVars, checkVars, G!Fresh, FlowFresh, F!Undecided,
       W!Fresh
  <1>4. HandedOver'
    BY DEF Recovered, HandedOver, recoveryVars
  <1>5. RecoveryInv /\ HandedOver /\ G!Fresh => RegistryInv
    BY RegistryStarts
  <1>6. RegistryInv'
    BY <1>1, <1>3, <1>4, <1>5, RegistryStarts, PTL
  <1>7. QED
    BY <1>1, <1>2, <1>3, <1>4, <1>6 DEF FrontInv

LEMMA RegisterNext ==
    ASSUME FrontInv, Register
    PROVE  FrontInv'
  <1>1. RecoveryInv'
    BY RecoveryStep DEF FrontInv, Register
  <1>2. /\ stage = "registry" /\ stage' = "registry"
        /\ HandedOver /\ RegistryInv /\ FlowFresh /\ W!Fresh
    BY DEF FrontInv, Register
  <1>3. FlowFresh' /\ W!Fresh'
    BY <1>2 DEF Register, flowVars, checkVars, FlowFresh, F!Undecided, W!Fresh
  <1>4. RegistryInv'
    BY <1>2, RegistryStep DEF Register
  <1>5. recovery' = recovery
    BY DEF Register, G!Next, G!Refuse, G!SkipPair, G!TestPair, G!PairBudget, G!PairsDone,
       G!SelectBox, G!NoBoxes, G!BoxesDone, G!NextSize, G!SizeDone, G!TakeEdge, G!Grow,
       G!GrowthDone, G!GrowthBudget, G!SizesDone, G!SelectResource, G!Decide, G!Return, G!search
  <1>6. HandedOver'
    BY <1>2, <1>5, RecordsKept DEF Register
  <1>7. QED
    BY <1>1, <1>2, <1>3, <1>4, <1>6 DEF FrontInv

LEMMA BuildModelNext ==
    ASSUME FrontInv, BuildModel
    PROVE  FrontInv'
  <1>1. CASE G!ModelRejected
    <2>1. /\ stage' = "fallback"
          /\ UNCHANGED <<arguments, recoveryVars, registryVars, flowVars, checkVars>>
      BY <1>1 DEF BuildModel, arguments, flowVars
    <2>2. QED
      BY <2>1, FrontKept DEF Behind
  <1>2. CASE ~G!ModelRejected
    <2>1. /\ stage = "registry" /\ stage' = "flow" /\ outcome[1] = "COMPLETE"
          /\ inst' = G!CapacityModel /\ residual' = F!Network(inst')
          /\ level' = F!Unlabelled(inst') /\ cursors' = F!Uncursored(inst')
          /\ UNCHANGED <<formula, recovery, budget, witness, recoveryVars, registryVars, path,
                         total, flowPc, answer, checkVars>>
      BY <1>2 DEF BuildModel
    <2>2. HandedOver /\ RegistryInv /\ FlowFresh /\ W!Fresh
      BY <2>1 DEF FrontInv
    <2>3. RecoveryInv'
      BY <2>1, RecoveryStep DEF FrontInv
    <2>4. HandedOver'
      BY <2>1, <2>2, RecordsKept
    <2>5. RegistryInv'
      BY <2>1, <2>2, RegistryStep
    <2>6. W!Fresh' /\ FlowFresh'
      BY <2>1, <2>2 DEF W!Fresh, FlowFresh, F!Undecided, checkVars
    <2>7. outcome'[1] = "COMPLETE" /\ inst' = G!CapacityModel'
      BY <2>1 DEF registryVars, G!CapacityModel, G!ResourceOf
    <2>8. FlowBuilt'
      BY <2>1, <2>6, <2>7 DEF FlowBuilt
    <2>9. (outcome[1] = "COMPLETE")'
      BY <2>7
    <2>10. FP!FlowInv'
      BY <2>5, <2>8, <2>9, FlowStarts, PTL
    <2>11. QED
      BY <2>1, <2>3, <2>4, <2>5, <2>6, <2>7, <2>10 DEF FrontInv, FlowInv
  <1>3. QED
    BY <1>1, <1>2

LEMMA AllocateNext ==
    ASSUME FrontInv, Allocate
    PROVE  FrontInv'
  <1>1. RecoveryInv'
    BY RecoveryStep DEF FrontInv, Allocate
  <1>2. /\ stage = "flow" /\ stage' = "flow" /\ W!Fresh
        /\ HandedOver /\ RegistryInv /\ FlowInv
    BY DEF FrontInv, Allocate
  <1>3. W!Fresh'
    BY <1>2 DEF Allocate, checkVars, W!Fresh
  <1>4. HandedOver'
    BY <1>2, RecordsKept DEF Allocate
  <1>5. RegistryInv'
    BY <1>2, RegistryStep DEF Allocate
  <1>6. FP!FlowInv'
    BY <1>2, FlowStep DEF Allocate, FlowInv
  <1>7. inst' = inst
    BY DEF Allocate, F!Next, F!Widen, F!StartPhase, F!MaximumReached, F!Descend, F!Retreat,
       F!EndPhase, F!Augment, F!DecideFeasible, F!DecideUnsat, F!Done, F!flowVars
  <1>8. outcome' = outcome /\ G!CapacityModel' = G!CapacityModel
    BY DEF Allocate, registryVars, G!CapacityModel, G!ResourceOf
  <1>9. FlowInv'
    BY <1>2, <1>6, <1>7, <1>8 DEF FlowInv
  <1>10. QED
    BY <1>1, <1>2, <1>3, <1>4, <1>5, <1>9 DEF FrontInv

(* The flow has answered: with a cut it is unsatisfiable, and the witness  *)
(* of it is written.                                                       *)
LEMMA WriteWitnessNext ==
    ASSUME FrontInv, WriteWitness
    PROVE  FrontInv' /\ stage' = "check"
  <1>1. /\ stage = "flow" /\ flowPc = "done" /\ answer.result # "FEASIBLE"
        /\ HandedOver /\ RegistryInv /\ FlowInv /\ W!Fresh
        /\ UNCHANGED <<formula, recovery, budget, inst, recoveryVars, registryVars, flowVars,
                       checkVars>>
    BY DEF WriteWitness, FrontInv
  <1>2. answer.result = "UNSAT"
    BY <1>1 DEF FlowInv, FP!FlowInv, FP!Answered
  <1>3. /\ stage' = "check"
        /\ witness' = CreateWitness(formula, records, boxes, Kinds, resources, Cut)
    BY <1>2 DEF WriteWitness
  <1>4. RecoveryInv'
    BY <1>1, RecoveryStep DEF FrontInv
  <1>5. HandedOver' /\ RegistryInv'
    BY <1>1, RecordsKept, RegistryStep
  <1>6. FlowInv'
    <2>1. FP!FlowInv'
      BY <1>1, FlowStep DEF FlowInv
    <2>2. outcome' = outcome /\ G!CapacityModel' = G!CapacityModel
      BY <1>1 DEF registryVars, G!CapacityModel, G!ResourceOf
    <2>3. QED
      BY <1>1, <2>1, <2>2 DEF FlowInv
  <1>7. W!Fresh'
    BY <1>1 DEF checkVars, W!Fresh
  <1>8. Written'
    <2>1. Kinds' = Kinds /\ Cut' = Cut
      BY <1>1 DEF Kinds, Cut, registryVars, flowVars
    <2>2. /\ formula' = formula /\ records' = records
          /\ boxes' = boxes /\ resources' = resources /\ answer' = answer
      BY <1>1 DEF recoveryVars, registryVars, flowVars
    <2>3. QED
      BY <1>2, <1>3, <2>1, <2>2 DEF Written
  <1>9. HandedToCheck'
    BY <1>4, <1>5, <1>6, <1>8 DEF HandedToCheck
  <1>10. CheckInv'
    BY <1>7, <1>9, CheckStarts, PTL
  <1>11. QED
    BY <1>3, <1>4, <1>5, <1>6, <1>7, <1>8, <1>10 DEF FrontInv

LEMMA CheckNext ==
    ASSUME FrontInv, Check
    PROVE  FrontInv'
  <1>1. /\ stage = "check" /\ stage' = "check"
        /\ HandedOver /\ RegistryInv /\ FlowInv /\ Written /\ CheckInv
    BY DEF Check, FrontInv
  <1>2. formula' = formula /\ witness' = witness
    BY DEF Check, W!Next, W!HashMatches, W!HashMismatch, W!CollectOriginal, W!OriginalsDone,
       W!ReplayRecord, W!RecordFails, W!ReplayDone, W!OriginalsMissing, W!AcceptBox,
       W!BoxFails, W!BoxesDone, W!AcceptResource, W!ResourceFails, W!ResourcesDone, W!Accept,
       W!MappingFails, W!CutFails, W!Done, W!Proceed, W!Reject, W!Rule, W!subject, W!checkVars
  <1>3. UNCHANGED <<recovery, budget, inst, recoveryVars, registryVars, flowVars>>
    BY DEF Check
  <1>4. RecoveryInv'
    BY <1>2, <1>3, RecoveryStep DEF FrontInv
  <1>5. HandedOver' /\ RegistryInv'
    BY <1>1, <1>3, RecordsKept, RegistryStep
  <1>6. FlowInv'
    <2>1. FP!FlowInv'
      BY <1>1, <1>3, FlowStep DEF FlowInv
    <2>2. outcome' = outcome /\ G!CapacityModel' = G!CapacityModel
      BY <1>3 DEF registryVars, G!CapacityModel, G!ResourceOf
    <2>3. QED
      BY <1>1, <1>3, <2>1, <2>2 DEF FlowInv
  <1>7. Written'
    <2>1. Kinds' = Kinds /\ Cut' = Cut
      BY <1>3 DEF Kinds, Cut, registryVars, flowVars
    <2>2. /\ records' = records /\ boxes' = boxes /\ resources' = resources
          /\ answer' = answer
      BY <1>3 DEF recoveryVars, registryVars, flowVars
    <2>3. QED
      BY <1>1, <1>2, <2>1, <2>2 DEF Written
  <1>8. CheckInv'
    BY <1>1, CheckStep DEF Check
  <1>9. QED
    BY <1>1, <1>4, <1>5, <1>6, <1>7, <1>8 DEF FrontInv

(* Every step keeps the invariant of the front end. *)
LEMMA FrontNext ==
    ASSUME FrontInv, [Next]_vars
    PROVE  FrontInv'
  <1> DEFINE Kept == UNCHANGED <<arguments, recoveryVars, registryVars, flowVars, checkVars>>
  <1>1. CASE Recover
    BY <1>1, RecoverNext
  <1>2. CASE Recovered
    BY <1>2, RecoveredNext
  <1>3. CASE Register
    BY <1>3, RegisterNext
  <1>4. CASE BuildModel
    BY <1>4, BuildModelNext
  <1>5. CASE Allocate
    BY <1>5, AllocateNext
  <1>6. CASE WriteWitness
    BY <1>6, WriteWitnessNext
  <1>7. CASE Check
    BY <1>7, CheckNext
  <1>8. CASE Pass
    <2>1. Kept /\ stage = "gates" /\ stage' = "recovery"
      BY <1>8 DEF Pass
    <2>2. QED
      BY <2>1, FrontKept
  <1>9. CASE Skip \/ RegistryOpen \/ Feasible \/ Conclude
    <2>1. Kept /\ (stage' \in Behind \/ stage' = "raised")
      BY <1>9 DEF Skip, RegistryOpen, Feasible, Conclude, Behind
    <2>2. QED
      BY <2>1, FrontKept
  <1>10. CASE StartFallback \/ TimeoutExpires \/ Kill \/ WaitReturns \/ ReadLog
    <2>1. Kept /\ stage' \in Behind
      BY <1>10 DEF StartFallback, TimeoutExpires, Kill, WaitReturns, ReadLog, frontEnd, Behind
    <2>2. QED
      BY <2>1, FrontKept
  <1>11. CASE ChildPrints \/ ChildExits \/ Done \/ UNCHANGED vars
    <2>1. Kept /\ stage' = stage
      BY <1>11 DEF ChildPrints, ChildExits, Done, vars, frontEnd
    <2>2. QED
      BY <2>1, FrontKept
  <1>12. QED
    BY <1>1, <1>2, <1>3, <1>4, <1>5, <1>6, <1>7, <1>8, <1>9, <1>10, <1>11 DEF Next, Run

---------------------------------------------------------------------------
(* What the call answers.                                                  *)

\* The formula is read only.
LEMMA FormulaKept == [Next]_vars => formula' = formula
  <1> SUFFICES ASSUME [Next]_vars
               PROVE  formula' = formula
    OBVIOUS
  <1>1. CASE Recover
    BY <1>1 DEF Recover, R!Next, R!LoadClause, R!LoadDuplicate, R!LoadDone, R!TimeAbort,
       R!PopAgenda, R!FixedPoint, R!SkipLiteral, R!OpenLiteral, R!EndLeft, R!SkipPair,
       R!RejectPair, R!DerivedAbort, R!MemoryAbort, R!Derive, R!Done, R!input, R!scan, R!vars,
       R!database, R!Finish, R!Visit
  <1>2. CASE Check
    BY <1>2 DEF Check, W!Next, W!HashMatches, W!HashMismatch, W!CollectOriginal,
       W!OriginalsDone, W!ReplayRecord, W!RecordFails, W!ReplayDone, W!OriginalsMissing,
       W!AcceptBox, W!BoxFails, W!BoxesDone, W!AcceptResource, W!ResourceFails, W!ResourcesDone,
       W!Accept, W!MappingFails, W!CutFails, W!Done, W!Proceed, W!Reject, W!Rule, W!subject,
       W!checkVars
  <1>3. CASE Pass \/ Skip \/ Recovered \/ Register \/ RegistryOpen \/ BuildModel \/ Allocate
             \/ Feasible \/ WriteWitness \/ Conclude
    BY <1>3 DEF Pass, Skip, Recovered, Register, RegistryOpen, BuildModel, Allocate, Feasible,
       WriteWitness, Conclude, arguments
  <1>4. CASE StartFallback \/ TimeoutExpires \/ Kill \/ WaitReturns \/ ReadLog \/ ChildPrints
             \/ ChildExits \/ Done \/ UNCHANGED vars
    BY <1>4 DEF StartFallback, TimeoutExpires, Kill, WaitReturns, ReadLog, ChildPrints,
       ChildExits, Done, vars, frontEnd, arguments
  <1>5. QED
    BY <1>1, <1>2, <1>3, <1>4 DEF Next, Run

(* A log in which the result, the exit code, or both, are those of a right *)
(* solver is not read as the opposite.                                     *)
LEMMA LogIsRight ==
    ASSUME NEW truth \in {"SATISFIABLE", "UNSATISFIABLE"},
           NEW printed \in SUBSET {truth, "UNKNOWN"},
           NEW exit \in {0, 1, -9, ExitCode[truth]}, NEW late
    PROVE  ParseStatus(printed, exit, late) \in {truth, "UNKNOWN", "TIMEOUT", "ERROR"}
  <1> DEFINE byCode == {s \in DOMAIN ExitCode : ExitCode[s] = exit}
             claimed == printed \cup byCode
  <1>1. byCode \subseteq {truth}
    BY DEF ExitCode
  <1>2. claimed \subseteq {truth, "UNKNOWN"}
    BY <1>1
  <1> HIDE DEF byCode
  <1>3. Cardinality(claimed) = 1 => claimed # {}
    BY FS_EmptySet
  <1>4. claimed # {} => (CHOOSE s \in claimed : TRUE) \in {truth, "UNKNOWN"}
    BY <1>2
  <1>5. QED
    BY <1>3, <1>4 DEF ParseStatus, byCode

(* A witness that the checker accepted is of an unsatisfiable formula.     *)
LEMMA RefutedRightly ==
    ASSUME FrontInv, stage = "check", checkPc = "done"
    PROVE  ruling = "valid" /\ Oracle!Truth(formula) = "UNSATISFIABLE"
  <1>1. CheckInv
    BY DEF FrontInv
  <1>2. ruling = "valid"
    BY <1>1 DEF CheckInv, WP!Passing, WP!Accepting
  <1>3. ASSUME NEW A, Oracle!SatisfiesAll(A, Oracle!ClausesOf(formula))
        PROVE  FALSE
    <2>1. WP!SatisfiesAll(A, WP!ClausesOf(formula))
      BY <1>3 DEF WP!SatisfiesAll, WP!ClausesOf, WP!Satisfies, WP!LiteralTrue,
         Oracle!SatisfiesAll, Oracle!ClausesOf, Oracle!Satisfies, Oracle!LiteralTrue
    <2>2. QED
      BY <1>1, <1>2, <2>1, WP!NoModel, PartsAssume DEF CheckInv
  <1>4. Oracle!Truth(formula) = "UNSATISFIABLE"
    BY <1>3 DEF Oracle!Truth, Oracle!Satisfiable
  <1>5. QED
    BY <1>2, <1>4

(* The steps, as they appear to the caller.                                *)
LEMMA AnswerNext ==
    ASSUME HybridInv, [Next]_vars
    PROVE  /\ FallbackInv'
           /\ final' = final \/ /\ final = "none"
                                /\ final' \in {Oracle!Truth(formula), "UNKNOWN", "TIMEOUT", "ERROR"}
  <1> DEFINE T == Oracle!Truth(formula)
             Outside == /\ UNCHANGED <<final, child, output, code>>
                        /\ child # "running" /\ stage # "returned"
                        /\ stage' \in Stages \ {"returned"}
  <1>0. /\ FrontInv /\ FallbackInv /\ stage \in Stages
        /\ (child = "running" => stage \in {"wait", "kill"})
        /\ output \subseteq {T, "UNKNOWN"} /\ code \in {0, 1, -9, ExitCode[T]}
        /\ (stage # "returned" => final = "none")
    BY DEF HybridInv, FallbackInv
  <1>1. formula' = formula /\ Oracle!Truth(formula)' = T
    BY FormulaKept DEF Oracle!Truth, Oracle!Satisfiable, Oracle!SatisfiesAll, Oracle!ClausesOf,
       Oracle!Satisfies, Oracle!LiteralTrue
  <1>2. T \in {"SATISFIABLE", "UNSATISFIABLE"}
    BY DEF Oracle!Truth
  <1> HIDE DEF T
  <1>3. CASE Outside
    BY <1>0, <1>1, <1>3 DEF FallbackInv
  <1>4. CASE Pass \/ Skip \/ Recover \/ Recovered \/ Register \/ RegistryOpen \/ BuildModel
             \/ Allocate \/ Feasible \/ Check
    <2>1. Outside
      BY <1>0, <1>4 DEF Pass, Skip, Recover, Recovered, Register, RegistryOpen, BuildModel,
         Allocate, Feasible, Check, results, fallbackVars, Stages, Behind
    <2>2. QED
      BY <2>1, <1>3
  <1>5. CASE WriteWitness
    <2>1. Outside
      BY <1>0, <1>5, WriteWitnessNext DEF WriteWitness, results, fallbackVars, Stages
    <2>2. QED
      BY <2>1, <1>3
  <1>6. CASE Conclude
    <2>1. /\ stage' = "returned" /\ final' = "UNSATISFIABLE" /\ final = "none" /\ T = final'
          /\ UNCHANGED <<child, output, code>> /\ child # "running"
      BY <1>0, <1>6, RefutedRightly DEF Conclude, fallbackVars, T
    <2>2. QED
      BY <1>0, <1>1, <2>1 DEF FallbackInv, Stages, Behind
  <1>7. CASE StartFallback
    BY <1>0, <1>1, <1>7 DEF StartFallback, FallbackInv, Stages, Behind
  <1>8. CASE TimeoutExpires
    BY <1>0, <1>1, <1>8 DEF TimeoutExpires, FallbackInv, Stages, Behind
  <1>9. CASE Kill
    BY <1>0, <1>1, <1>9 DEF Kill, FallbackInv, Stages, Behind
  <1>10. CASE WaitReturns
    BY <1>0, <1>1, <1>10 DEF WaitReturns, FallbackInv, Stages, Behind, fallbackVars
  <1>11. CASE ReadLog
    <2>1. final' \in {T, "UNKNOWN", "TIMEOUT", "ERROR"}
      BY <1>0, <1>2, <1>11, LogIsRight DEF ReadLog
    <2>2. /\ stage' = "returned" /\ final = "none" /\ child # "running"
          /\ UNCHANGED <<child, output, code>>
      BY <1>0, <1>11 DEF ReadLog, fallbackVars
    <2>3. FallbackInv'
      BY <1>0, <1>1, <2>2 DEF FallbackInv, Stages, Behind
    <2>4. QED
      BY <2>1, <2>2, <2>3 DEF T
  <1>12. CASE ChildPrints
    <2>1. output' \in {{T}, {"UNKNOWN"}} /\ UNCHANGED <<stage, final, child, code>>
      BY <1>12 DEF ChildPrints, T
    <2>2. QED
      BY <1>0, <1>1, <2>1 DEF FallbackInv
  <1>13. CASE ChildExits
    <2>1. /\ child' = "exited" /\ code' \in {0, 1, ExitCode[T]}
          /\ UNCHANGED <<stage, final, output>>
      BY <1>13 DEF ChildExits, T
    <2>2. QED
      BY <1>0, <1>1, <2>1 DEF FallbackInv
  <1>14. CASE Done \/ UNCHANGED vars
    <2>1. UNCHANGED <<stage, final, child, output, code>>
      BY <1>14 DEF Done, vars, results, fallbackVars
    <2>2. QED
      BY <1>0, <1>1, <2>1 DEF FallbackInv
  <1>15. QED
    BY <1>4, <1>5, <1>6, <1>7, <1>8, <1>9, <1>10, <1>11, <1>12, <1>13, <1>14 DEF Next, Run

LEMMA HybridNext == HybridInv /\ [Next]_vars => HybridInv'
  BY FrontNext, AnswerNext DEF HybridInv

---------------------------------------------------------------------------
(* The witness written from the records, boxes and cut that the recovery,  *)
(* the registry and the flow hand over always passes the checker, and the  *)
(* cut is the flow: neither the WitnessError nor the AssertionError that   *)
(* solve_hybrid does not catch ever leaves it.                             *)
THEOREM NothingRaised == Spec => []NeverRaises
  <1>1. HybridInv => NeverRaises
    BY DEF HybridInv, FallbackInv, Stages, Behind, NeverRaises
  <1>2. QED
    BY <1>1, HybridInit, HybridNext, PTL DEF Spec

(* A fallback solver that was started is gone when solve_hybrid returns,   *)
(* whether it ended in time, late, or had to be killed.                    *)
THEOREM NoChildLeft == Spec => []ChildReaped
  <1>1. HybridInv => ChildReaped
    BY DEF HybridInv, FallbackInv, ChildReaped
  <1>2. QED
    BY <1>1, HybridInit, HybridNext, PTL DEF Spec

(* solve_hybrid implements the safety of a solver: it answers at most      *)
(* once, about the formula it got, and a definite answer is right.         *)
THEOREM AnswersRightly == Spec => Oracle!Init /\ [][Oracle!Next]_<<formula, final>>
  <1>1. Init => Oracle!Init
    BY DEF Init, R!Init, Oracle!Init
  <1>2. HybridInv /\ [Next]_vars => [Oracle!Next]_<<formula, final>>
    BY AnswerNext, FormulaKept DEF Oracle!Next, Oracle!Answer
  <1>3. QED
    BY <1>1, <1>2, HybridInit, HybridNext, PTL DEF Spec
=============================================================================
