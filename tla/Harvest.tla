------------------------------- MODULE Harvest -------------------------------
(***************************************************************************)
(* harvest (native/phase4b/lkk_native4b.cpp): the registry search, run     *)
(* again with a budget of its own, that keeps what it has proved when the  *)
(* budget runs out.  It takes the steps of Registry where the code is the  *)
(* same and steps of its own where registry() gives up.                    *)
(*                                                                         *)
(* A harvest has no status, so outcome stays as it was.                    *)
(***************************************************************************)
EXTENDS Registry

VARIABLES
    boxHit,      \* box_budget_hit
    resourceHit  \* resource_budget_hit

hits == <<boxHit, resourceHit>>
harvestVars == <<regVars, hits>>

HarvestFresh == Fresh /\ boxHit = FALSE /\ resourceHit = FALSE

HarvestInit == recovery \in Databases /\ budget \in Budgets /\ HarvestFresh

\* A step that is the same in registry() and in harvest().
Same(Step) == Step /\ UNCHANGED hits

NotRecovered ==
    /\ pc = "pairs" /\ recovery.status # "COMPLETE"
    /\ pc' = "done"
    /\ UNCHANGED <<search, pair, checks, candidates, boxes, growth, resources, outcome, hits>>

\* The boxes found so far are selected from.
CutPairs ==
    /\ Scanning
    /\ \/ checks >= budget /\ checks' = checks + 1
       \/ checks < budget /\ PairFits /\ Charged > budget /\ checks' = Charged
    /\ boxHit' = TRUE
    /\ pc' = "boxes"
    /\ UNCHANGED <<search, pair, candidates, boxes, growth, resources, outcome, resourceHit>>

NothingHarvested ==
    /\ pc = "boxes" /\ candidates = {} /\ boxes = <<>>
    /\ pc' = "done"
    /\ UNCHANGED <<search, pair, checks, candidates, boxes, growth, resources, outcome, hits>>

\* The counter may be over the budget since the pairs were cut; a pass that
\* looks at no variable does not notice.
PassFits == PassCost = 0 \/ checks + PassCost <= budget

\* Mutation of RecordGroup: at most size - 1 becomes less than size - 1.
RecordGroupShort ==
    families' = families \cup
        {f \in {[group |-> group, capacity |-> size - 2]} :
            /\ Cardinality(f.group) > f.capacity
            /\ Combinations(f.group, size, -1) \subseteq Clauses}

RecordGroup ==
    families' = families \cup
        {f \in {[group |-> group, capacity |-> size - 1]} :
            /\ Cardinality(f.group) > f.capacity
            /\ Combinations(f.group, size, -1) \subseteq Clauses}

EndGrowth ==
    /\ pc = "grow" /\ Extensions = {} /\ PassFits
    /\ checks' = checks + PassCost
    /\ RecordGroup
    /\ pc' = "edges"
    /\ UNCHANGED <<search, pair, candidates, boxes, size, untried, group,
                   resources, outcome, hits>>

\* The group is kept as far as it has grown, and no other edge is tried.
CutGrowth ==
    /\ pc = "grow" /\ ~PassFits
    /\ checks' = (IF checks > budget THEN checks ELSE budget) + 1
    /\ RecordGroup
    /\ resourceHit' = TRUE
    /\ pc' = "resources"
    /\ UNCHANGED <<search, pair, candidates, boxes, size, untried, group,
                   resources, outcome, boxHit>>

Finish ==
    /\ pc = "resources" /\ families = {}
    /\ pc' = "done"
    /\ UNCHANGED <<search, pair, checks, candidates, boxes, growth, resources, outcome, hits>>

HarvestNext ==
    \/ NotRecovered
    \/ Same(SkipPair) \/ Same(TestPair) \/ CutPairs \/ Same(PairsDone)
    \/ Same(SelectBox) \/ NothingHarvested \/ Same(BoxesDone)
    \/ Same(NextSize) \/ Same(SizeDone) \/ Same(TakeEdge)
    \/ Same(Grow) \/ EndGrowth \/ CutGrowth \/ Same(SizesDone)
    \/ Same(SelectResource) \/ Finish
=============================================================================
