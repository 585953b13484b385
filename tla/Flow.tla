-------------------------------- MODULE Flow --------------------------------
(***************************************************************************)
(* flow_box_test (phase2/flow.py): Dinic's maximum flow on the network     *)
(* source -> boxes -> resources -> sink, and the residual minimum cut that *)
(* becomes the witness of a refutation.                                    *)
(*                                                                         *)
(* An edge and its reverse are the residual capacities of <<u, v>> and     *)
(* <<v, u>>.  The cursor of a node is the set of neighbours it has not     *)
(* moved past; which of them comes next is the order of the adjacency list *)
(* and left open, so every order of boxes and resources is covered.        *)
(***************************************************************************)
EXTENDS Capacity, Sequences, SequencesExt

CONSTANT Instances  \* the capacity instances put to the test

ASSUME InstancesAssumption == \A i \in Instances : ProperInstance(i)

VARIABLES
    inst,      \* the instance
    residual,  \* residual capacity of every ordered pair of nodes
    level,     \* breadth-first level of every node, -1 when unreached
    untried,   \* per node, the neighbours its cursor has not passed
    path,      \* the nodes from the source on the stack of send
    total,     \* flow pushed so far
    pc,        \* "levels", "send", "decide" or "done"
    answer     \* FlowResult

flowVars == <<inst, residual, level, untried, path, total, pc, answer>>

Source == <<"source", 0>>
Sink == <<"sink", 0>>
Box(b) == <<"box", b>>
Resource(r) == <<"resource", r>>

NodesOf(i) == {Source, Sink} \cup {Box(b) : b \in BoxesOf(i)}
                \cup {Resource(r) : r \in ResourcesOf(i)}

Nodes == NodesOf(inst)

\* add_edge, for every edge of the network of i.
NetworkCapacity(i, u, v) ==
    CASE u = Source /\ v[1] = "box" -> i.demands[v[2]]
      [] v = Sink /\ u[1] = "resource" -> i.capacities[u[2]]
      [] u[1] = "box" /\ v[1] = "resource" /\ v[2] \in i.reachable[u[2]] -> 1
      [] OTHER -> 0

Linked(u, v) ==
    \/ {u[1], v[1]} = {"source", "box"}
    \/ {u[1], v[1]} = {"resource", "sink"}
    \/ u[1] = "box" /\ v[1] = "resource" /\ v[2] \in inst.reachable[u[2]]
    \/ v[1] = "box" /\ u[1] = "resource" /\ u[2] \in inst.reachable[v[2]]

Neighbours(u) == {v \in Nodes : Linked(u, v)}

\* residual_reachable: the least set that holds the source and that no
\* residual edge leaves.
ResidualReachable ==
    LET Closed(S) == /\ Source \in S
                     /\ \A u \in S, v \in Nodes \ S : residual[u, v] = 0
    IN  {v \in Nodes : \A S \in SUBSET (Nodes \ {v}) : ~Closed(S)}

\* The network of i before anything is pushed, no node of it labelled.
Network(i) == [e \in NodesOf(i) \X NodesOf(i) |-> NetworkCapacity(i, e[1], e[2])]

Unlabelled(i) == [v \in NodesOf(i) |-> IF v = Source THEN 0 ELSE -1]

Uncursored(i) == [v \in NodesOf(i) |-> {}]

Undecided == [result |-> "none", boxes |-> {}, resources |-> {}, cut |-> 0]

---------------------------------------------------------------------------
Init ==
    /\ inst \in Instances
    /\ residual = Network(inst)
    /\ level = Unlabelled(inst)
    /\ untried = Uncursored(inst)
    /\ path = <<>>
    /\ total = 0
    /\ pc = "levels"
    /\ answer = Undecided

\* Mutation of NextWave: the search ignores reverse edges.
ForwardWave ==
    {v \in Nodes : level[v] < 0 /\ \E u \in Nodes :
        level[u] >= 0 /\ residual[u, v] > 0 /\ NetworkCapacity(inst, u, v) > 0}

\* Nodes the breadth-first search reaches next, all from the last wave.
NextWave ==
    {v \in Nodes : level[v] < 0 /\ \E u \in Nodes : level[u] >= 0 /\ residual[u, v] > 0}

(* The breadth-first search that starts a phase, a wave at a time. *)
Widen ==
    /\ pc = "levels" /\ NextWave # {}
    /\ level' = [v \in Nodes |-> IF v \in NextWave THEN 1 + Max(Range(level))
                                ELSE level[v]]
    /\ UNCHANGED <<inst, residual, untried, path, total, pc, answer>>

StartPhase ==
    /\ pc = "levels" /\ NextWave = {} /\ level[Sink] >= 0
    /\ pc' = "send"
    /\ untried' = [v \in Nodes |-> Neighbours(v)]
    /\ path' = <<Source>>
    /\ UNCHANGED <<inst, residual, level, total, answer>>

MaximumReached ==
    /\ pc = "levels" /\ NextWave = {} /\ level[Sink] < 0
    /\ pc' = "decide"
    /\ UNCHANGED <<inst, residual, level, untried, path, total, answer>>

\* Edges that send may follow from u; the cursor skips all others.
Usable(u) ==
    {v \in untried[u] : residual[u, v] > 0 /\ level[v] = level[u] + 1}

(* send calls itself on the next node. *)
Descend ==
    /\ pc = "send" /\ Last(path) # Sink
    /\ \E v \in Usable(Last(path)) : path' = Append(path, v)
    /\ UNCHANGED <<inst, residual, level, untried, total, pc, answer>>

\* Mutation of Retreat: the caller's cursor stays.
RetreatInPlace ==
    /\ pc = "send" /\ Last(path) # Sink /\ Len(path) > 1
    /\ Usable(Last(path)) = {}
    /\ path' = Front(path)
    /\ UNCHANGED <<inst, residual, level, untried, total, pc, answer>>

(* send returns 0: its caller's cursor moves past this node. *)
Retreat ==
    /\ pc = "send" /\ Last(path) # Sink /\ Len(path) > 1
    /\ Usable(Last(path)) = {}
    /\ path' = Front(path)
    /\ untried' = [untried EXCEPT ![Last(path')] = @ \ {Last(path)}]
    /\ UNCHANGED <<inst, residual, level, total, pc, answer>>

(* send(source) returns 0: the blocking flow is complete. *)
EndPhase ==
    /\ pc = "send" /\ path = <<Source>>
    /\ Usable(Source) = {}
    /\ pc' = "levels"
    /\ level' = Unlabelled(inst)
    /\ UNCHANGED <<inst, residual, untried, path, total, answer>>

PathEdges == {<<path[k], path[k + 1]>> : k \in 1 .. Len(path) - 1}

Bottleneck == Min({residual[e] : e \in PathEdges})

(* send has reached the sink and returns through all its callers, whose    *)
(* cursors stay where they are.                                            *)
Augment ==
    /\ pc = "send" /\ Last(path) = Sink
    /\ residual' = [e \in DOMAIN residual |->
                      CASE e \in PathEdges -> residual[e] - Bottleneck
                        [] <<e[2], e[1]>> \in PathEdges -> residual[e] + Bottleneck
                        [] OTHER -> residual[e]]
    /\ total' = total + Bottleneck
    /\ path' = <<Source>>
    /\ UNCHANGED <<inst, level, untried, pc, answer>>

(* The tail of flow_box_test. *)
DecideFeasible ==
    /\ pc = "decide" /\ total >= TotalDemand(inst)
    /\ answer' = [Undecided EXCEPT !.result = "FEASIBLE"]
    /\ pc' = "done"
    /\ UNCHANGED <<inst, residual, level, untried, path, total>>

\* Mutation of DecideUnsat: the witness names only the boxes that miss a
\* unit, and the cut is not compared.
BlameUnserved ==
    /\ pc = "decide" /\ total < TotalDemand(inst)
    /\ answer' = [result |-> "UNSAT",
                  boxes |-> {b \in BoxesOf(inst) : residual[Source, Box(b)] > 0},
                  resources |-> {}, cut |-> total]
    /\ pc' = "done"
    /\ UNCHANGED <<inst, residual, level, untried, path, total>>

DecideUnsat ==
    /\ pc = "decide" /\ total < TotalDemand(inst)
    /\ LET reached == ResidualReachable
           boxes == {b \in BoxesOf(inst) : Box(b) \in reached}
           resources == {r \in ResourcesOf(inst) : Resource(r) \in reached}
           cut == CutCapacity(inst, boxes, resources)
       IN  answer' = [result |-> IF cut # total \/ cut >= TotalDemand(inst)
                                   THEN "AssertionError" ELSE "UNSAT",
                      boxes |-> boxes, resources |-> resources, cut |-> cut]
    /\ pc' = "done"
    /\ UNCHANGED <<inst, residual, level, untried, path, total>>

\* flow_box_test has returned.
Done == pc = "done" /\ UNCHANGED flowVars

Next ==
    \/ Widen \/ StartPhase \/ MaximumReached
    \/ Descend \/ Retreat \/ EndPhase \/ Augment
    \/ DecideFeasible \/ DecideUnsat
    \/ Done

\* One thread that nothing blocks.
Spec == Init /\ [][Next]_flowVars /\ WF_flowVars(Next)

---------------------------------------------------------------------------
(* The answer is the one of the exhaustive Hall test.                      *)
AgreesWithOracle ==
    pc = "done" => answer.result = ExhaustiveBoxTest(inst)

(* The reachable boxes of an UNSAT witness are themselves a Hall violator, *)
(* and the cut they name is exactly the flow that was found.  FEASIBLE     *)
(* comes with an allocation: the saturated box-resource edges.             *)
AnswerIsExplained ==
    /\ answer.result = "UNSAT" =>
        /\ HallViolator(inst, answer.boxes)
        /\ answer.cut = total /\ total < TotalDemand(inst)
    /\ answer.result = "FEASIBLE" =>
        Allocation(inst, [b \in BoxesOf(inst) |->
            {r \in inst.reachable[b] : residual[Box(b), Resource(r)] = 0}])

(* flow_box_test returns.                                                  *)
Terminates == <>(pc = "done")
=============================================================================
