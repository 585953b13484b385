----------------------------- MODULE FlowProofs -----------------------------
(***************************************************************************)
(* Theorems about Flow, for every capacity instance: Dinic's search ends   *)
(* with a maximum flow, and the answer made of it is right.                *)
(***************************************************************************)
EXTENDS Flow, BasicLemmas

---------------------------------------------------------------------------
(* The network. *)

LEMMA NodesFinite ==
    ASSUME inst \in Instances
    PROVE  /\ IsFiniteSet(Nodes) /\ Source \in Nodes /\ Sink \in Nodes /\ Source # Sink
           /\ IsFiniteSet(BoxesOf(inst)) /\ IsFiniteSet(ResourcesOf(inst))
  <1> DEFINE B == BoxesOf(inst)
             R == ResourcesOf(inst)
             hb == [b \in B |-> Box(b)]
             hr == [r \in R |-> Resource(r)]
  <1>1. IsFiniteSet(B) /\ IsFiniteSet(R)
    BY InstancesAssumption DEF ProperInstance
  <1>2. IsFiniteSet({hb[b] : b \in B}) /\ IsFiniteSet({hr[r] : r \in R})
    <2> HIDE DEF B, R, hb, hr
    <2>1. QED
      BY <1>1, ImageFinite
  <1>3. {hb[b] : b \in B} = {Box(b) : b \in B} /\ {hr[r] : r \in R} = {Resource(r) : r \in R}
    OBVIOUS
  <1>4. IsFiniteSet({Source, Sink})
    <2>1. IsFiniteSet({Source}) /\ IsFiniteSet({Sink}) /\ {Source, Sink} = {Source} \cup {Sink}
      BY FS_Singleton
    <2>2. QED
      BY <2>1, FS_Union
  <1>5. IsFiniteSet(Nodes)
    BY <1>2, <1>3, <1>4, FS_Union DEF Nodes, NodesOf
  <1>6. QED
    BY <1>1, <1>5 DEF Nodes, NodesOf, Source, Sink

\* The edges of a path, and that it meets no node twice.
EdgesOf(p) == {<<p[k], p[k + 1]>> : k \in 1 .. Len(p) - 1}

Simple(p) == \A i, j \in 1 .. Len(p) : p[i] = p[j] => i = j

\* amount more flow leaves u along the edges of p, and less along the edges
\* that they are the reverses of.
Pushes(N, p, amount, u, F, G) ==
    \A v \in N : /\ F[v] \in Int
                 /\ G[v] = IF <<u, v>> \in EdgesOf(p) THEN F[v] + amount
                           ELSE IF <<v, u>> \in EdgesOf(p) THEN F[v] - amount
                           ELSE F[v]

\* Pushing along a simple path changes what leaves its first node, by what is
\* pushed, and no other node but its last.
LEMMA PushAlong ==
    ASSUME NEW N, IsFiniteSet(N),
           NEW p \in Seq(N), Len(p) >= 2, Simple(p), NEW amount \in Int,
           NEW u \in N, u # p[Len(p)], NEW F, NEW G, Pushes(N, p, amount, u, F, G)
    PROVE  /\ u = p[1] => SumFunctionOnSet(G, N) = SumFunctionOnSet(F, N) + amount
           /\ u # p[1] => SumFunctionOnSet(G, N) = SumFunctionOnSet(F, N)
  <1> DEFINE d == [v \in N |-> IF <<u, v>> \in EdgesOf(p) THEN amount
                               ELSE IF <<v, u>> \in EdgesOf(p) THEN -amount ELSE 0]
  <1>0. Len(p) \in Nat /\ \A k \in 1 .. Len(p) : p[k] \in N
    OBVIOUS
  <1>1. \A v \in N : F[v] \in Int /\ d[v] \in Int /\ G[v] = F[v] + d[v]
    BY DEF Pushes
  <1>2. SumFunctionOnSet(d, N) = IF u = p[1] THEN amount ELSE 0
    <2>1. CASE \A k \in 1 .. Len(p) : p[k] # u
      <3>1. \A v \in N : <<u, v>> \notin EdgesOf(p) /\ <<v, u>> \notin EdgesOf(p)
        BY <1>0, <2>1 DEF EdgesOf
      <3>2. \A v \in N \ {} : d[v] = 0 /\ d[v] \in Int
        BY <3>1
      <3>3. u # p[1]
        BY <1>0, <2>1
      <3> HIDE DEF d
      <3>4. SumFunctionOnSet(d, N) = SumFunctionOnSet(d, {})
        BY <3>2, SumSupport
      <3>5. QED
        BY <3>3, <3>4, SumEmpty
    <2>2. ASSUME NEW i \in 1 .. Len(p), p[i] = u
          PROVE  SumFunctionOnSet(d, N) = IF u = p[1] THEN amount ELSE 0
      <3>0. i \in 1 .. Len(p) - 1 /\ i + 1 \in 1 .. Len(p) /\ p[i + 1] \in N
        BY <1>0, <2>2
      <3>1. \A v \in N : <<u, v>> \in EdgesOf(p) <=> v = p[i + 1]
        <4>1. ASSUME NEW v \in N, <<u, v>> \in EdgesOf(p)
              PROVE  v = p[i + 1]
          <5>1. PICK k \in 1 .. Len(p) - 1 : <<u, v>> = <<p[k], p[k + 1]>>
            BY <4>1 DEF EdgesOf
          <5>2. k = i
            BY <1>0, <2>2, <5>1 DEF Simple
          <5>3. QED
            BY <5>1, <5>2
        <4>2. QED
          BY <2>2, <3>0, <4>1 DEF EdgesOf
      <3>2. \A v \in N : <<v, u>> \in EdgesOf(p) <=> i > 1 /\ v = p[i - 1]
        <4>1. ASSUME NEW v \in N, <<v, u>> \in EdgesOf(p)
              PROVE  i > 1 /\ v = p[i - 1]
          <5>1. PICK k \in 1 .. Len(p) - 1 : <<v, u>> = <<p[k], p[k + 1]>>
            BY <4>1 DEF EdgesOf
          <5>2. k + 1 = i
            BY <1>0, <2>2, <5>1 DEF Simple
          <5>3. k = i - 1 /\ i > 1
            BY <1>0, <5>2
          <5>4. QED
            BY <5>1, <5>3
        <4>2. ASSUME NEW v \in N, i > 1, v = p[i - 1]
              PROVE  <<v, u>> \in EdgesOf(p)
          <5>1. i - 1 \in 1 .. Len(p) - 1 /\ (i - 1) + 1 = i
            BY <1>0, <4>2
          <5>2. QED
            BY <2>2, <4>2, <5>1 DEF EdgesOf
        <4>3. QED
          BY <4>1, <4>2
      <3>3. CASE i = 1
        <4>1. d[p[2]] = amount /\ p[2] \in N
          BY <3>0, <3>1, <3>3
        <4>2. \A v \in N : d[v] \in Int /\ (v # p[2] => d[v] = 0)
          BY <3>1, <3>2, <3>3
        <4> HIDE DEF d
        <4>3. SumFunctionOnSet(d, N) = SumFunctionOnSet(d, {p[2]})
          BY <4>1, <4>2, SumSupport
        <4>4. QED
          <5>1. SumFunctionOnSet(d, {p[2]}) = d[p[2]]
            BY <4>1, SumSingle
          <5>2. QED
            BY <2>2, <3>3, <4>1, <4>3, <5>1
      <3>4. CASE i # 1
        <4> DEFINE a == p[i - 1]
                   b == p[i + 1]
        <4>0. i > 1 /\ i - 1 \in 1 .. Len(p) /\ 1 \in 1 .. Len(p)
          BY <1>0, <3>4
        <4>1. a \in N /\ b \in N /\ a # b
          BY <1>0, <3>0, <4>0 DEF Simple
        <4>2. d[a] = -amount /\ d[b] = amount
          BY <3>1, <3>2, <4>0, <4>1
        <4>3. \A v \in N : d[v] \in Int /\ (v \notin {a, b} => d[v] = 0)
          BY <3>1, <3>2, <4>0
        <4>4. u # p[1]
          BY <2>2, <3>4, <4>0 DEF Simple
        <4> HIDE DEF d, a, b
        <4>5. SumFunctionOnSet(d, N) = SumFunctionOnSet(d, {a, b})
          BY <4>1, <4>3, SumSupport
        <4>6. SumFunctionOnSet(d, {a} \cup {b}) = d[b] + SumFunctionOnSet(d, {a})
          <5>1. IsFiniteSet({a}) /\ b \notin {a} /\ d[a] \in Int /\ d[b] \in Int
            BY <4>1, <4>3, FS_Singleton
          <5>2. \A x \in {a} \cup {b} : d[x] \in Int
            BY <5>1
          <5>3. QED
            BY <5>1, <5>2, SumAdd
        <4>7. {a} \cup {b} = {a, b} /\ SumFunctionOnSet(d, {a}) = d[a]
          BY <4>1, <4>3, SumSingle
        <4>8. SumFunctionOnSet(d, N) = amount + -amount
          BY <4>2, <4>5, <4>6, <4>7, Zenon
        <4>9. QED
          BY <4>4, <4>8
      <3>5. QED
        BY <3>3, <3>4
    <2>3. QED
      BY <2>1, <2>2
  <1> HIDE DEF d
  <1>3. SumFunctionOnSet(G, N) = SumFunctionOnSet(F, N) + SumFunctionOnSet(d, N)
    BY <1>1, SumOfSum
  <1>4. SumFunctionOnSet(F, N) \in Int
    BY <1>1, SumInt
  <1>5. QED
    BY <1>2, <1>3, <1>4

---------------------------------------------------------------------------
(* The inductive invariant. *)

\* What has been pushed along an edge, counting what was pushed back, and how
\* much of it leaves a node.
Pushed == [e \in Nodes \X Nodes |-> Network(inst)[e] - residual[e]]

Leaving(u) == SumFunctionOnSet([v \in Nodes |-> Pushed[<<u, v>>]], Nodes)

FlowTypes ==
    /\ inst \in Instances
    /\ residual \in [Nodes \X Nodes -> Nat]
    /\ level \in [Nodes -> Int] /\ level[Source] = 0
    /\ untried \in [Nodes -> SUBSET Nodes]
    /\ path \in Seq(Nodes)
    /\ total \in Int

\* What an edge gains its reverse loses, and only the source gives out flow:
\* the total.
Conserved ==
    /\ \A u, v \in Nodes :
         residual[<<u, v>>] + residual[<<v, u>>]
           = Network(inst)[<<u, v>>] + Network(inst)[<<v, u>>]
    /\ \A u \in Nodes \ {Sink} : Leaving(u) = IF u = Source THEN total ELSE 0

\* The stack of send climbs one level at a time, along edges with room.
Climbing ==
    pc = "send" =>
        /\ Len(path) >= 1 /\ path[1] = Source
        /\ \A k \in 1 .. Len(path) : level[path[k]] = k - 1
        /\ \A k \in 1 .. Len(path) - 1 : residual[<<path[k], path[k + 1]>>] > 0

\* The levels that the last search left: it could not go on, and missed the
\* sink.
Separated ==
    pc \in {"decide", "done"} =>
        /\ level[Sink] < 0
        /\ \A u, v \in Nodes : level[u] >= 0 /\ level[v] < 0 => residual[<<u, v>>] = 0

\* The cut of a refutation is the one of the boxes and resources it names.
CutNamed ==
    answer.result = "UNSAT" =>
        /\ answer.resources \subseteq ResourcesOf(inst)
        /\ answer.cut = CutCapacity(inst, answer.boxes, answer.resources)

Answered ==
    /\ pc # "done" => answer = Undecided
    /\ pc = "done" => answer.result \in {"UNSAT", "FEASIBLE"}
    /\ answer.boxes \subseteq BoxesOf(inst)
    /\ AnswerIsExplained /\ CutNamed

FlowInv == FlowTypes /\ Conserved /\ Climbing /\ Separated /\ Answered

---------------------------------------------------------------------------
(* The initial states. *)

LEMMA NodeKinds ==
    ASSUME inst \in Instances
    PROVE  /\ \A v \in Nodes : v[1] = "box" => v[2] \in BoxesOf(inst) /\ v = Box(v[2])
           /\ \A v \in Nodes : v[1] = "resource" => v[2] \in ResourcesOf(inst) /\ v = Resource(v[2])
           /\ \A v \in Nodes : v[1] \notin {"box", "resource"} => v \in {Source, Sink}
           /\ \A b \in BoxesOf(inst) : Box(b) \in Nodes
           /\ \A r \in ResourcesOf(inst) : Resource(r) \in Nodes
  BY DEF Nodes, NodesOf, Source, Sink, Box, Resource

LEMMA NetworkNat ==
    ASSUME inst \in Instances
    PROVE  \A u, v \in Nodes : NetworkCapacity(inst, u, v) \in Nat
  <1> TAKE u, v \in Nodes
  <1>1. v[1] = "box" => inst.demands[v[2]] \in Nat
    BY NodeKinds, InstancesAssumption DEF ProperInstance
  <1>2. u[1] = "resource" => inst.capacities[u[2]] \in Nat
    BY NodeKinds, InstancesAssumption DEF ProperInstance
  <1>3. QED
    BY <1>1, <1>2 DEF NetworkCapacity

LEMMA NetworkIs ==
    ASSUME inst \in Instances
    PROVE  /\ Network(inst) \in [Nodes \X Nodes -> Nat]
           /\ \A u, v \in Nodes : Network(inst)[<<u, v>>] = NetworkCapacity(inst, u, v)
  BY NetworkNat DEF Network, Nodes

LEMMA FlowInit == Init => FlowInv
  <1> SUFFICES ASSUME Init PROVE FlowInv
    OBVIOUS
  <1>0. inst \in Instances
    BY DEF Init
  <1>1. FlowTypes
    BY <1>0, NetworkIs, NodesFinite DEF Init, FlowTypes, Unlabelled, Uncursored, Nodes
  <1>2. ASSUME NEW u \in Nodes \ {Sink}
        PROVE  Leaving(u) = IF u = Source THEN total ELSE 0
    <2> DEFINE f == [v \in Nodes |-> Pushed[<<u, v>>]]
    <2>1. \A v \in Nodes : f[v] = 0
      BY <1>0, NetworkIs DEF Init, Pushed
    <2>2. \A v \in Nodes : f[v] \in Int
      BY <2>1
    <2>3. IsFiniteSet(Nodes)
      BY <1>0, NodesFinite
    <2> HIDE DEF f
    <2>4. SumFunctionOnSet(f, Nodes) = SumFunctionOnSet(f, {})
      BY <2>1, <2>2, <2>3, SumSupport
    <2>5. SumFunctionOnSet(f, Nodes) = 0
      BY <2>4, SumEmpty
    <2>6. QED
      BY <2>5 DEF Leaving, f, Init
  <1>3. Conserved
    BY <1>0, <1>2, NetworkIs DEF Init, Conserved
  <1>4. Climbing /\ Separated /\ Answered
    BY DEF Init, Climbing, Separated, Answered, AnswerIsExplained, CutNamed, Undecided
  <1>5. QED
    BY <1>1, <1>3, <1>4 DEF FlowInv

---------------------------------------------------------------------------
(* The steps of the search. *)

\* A step that pushes nothing conserves the flow.
LEMMA NothingPushed ==
    ASSUME FlowInv, UNCHANGED <<inst, residual, total>>
    PROVE  Conserved'
  BY DEF FlowInv, Conserved, Leaving, Pushed, Nodes

LEMMA Unanswered ==
    ASSUME FlowInv, pc # "done", pc' # "done", UNCHANGED answer
    PROVE  Answered'
  <1>1. answer = Undecided
    BY DEF FlowInv, Answered
  <1>2. answer' = Undecided /\ answer'.result = "none" /\ answer'.boxes = {}
    BY <1>1 DEF Undecided
  <1>3. AnswerIsExplained' /\ CutNamed'
    BY <1>2 DEF AnswerIsExplained, CutNamed
  <1>4. QED
    BY <1>2, <1>3 DEF Answered

LEMMA WidenKeeps ==
    ASSUME FlowInv, Widen
    PROVE  FlowInv'
  <1>0. FlowTypes /\ IsFiniteSet(Nodes) /\ Source \in Nodes
    BY NodesFinite DEF FlowInv, FlowTypes
  <1>1. Max(Range(level)) \in Int
    <2>1. Range(level) = {level[v] : v \in Nodes}
      BY <1>0 DEF Range, FlowTypes
    <2>2. IsFiniteSet(Range(level))
      BY <1>0, <2>1, ImageFinite
    <2>3. Range(level) \subseteq Int /\ Range(level) # {}
      BY <1>0, <2>1 DEF FlowTypes
    <2>4. QED
      BY <2>2, <2>3, MaxIsThere
  <1>2. Source \notin NextWave
    BY <1>0 DEF NextWave, FlowTypes
  <1>3. level' \in [Nodes -> Int] /\ level'[Source] = 0
    BY <1>0, <1>1, <1>2 DEF Widen, FlowTypes
  <1>4. FlowTypes'
    BY <1>0, <1>3 DEF Widen, FlowTypes, Nodes
  <1>5. Conserved' /\ Answered'
    BY NothingPushed, Unanswered DEF Widen
  <1>6. Climbing' /\ Separated'
    BY DEF Widen, Climbing, Separated
  <1>7. QED
    BY <1>4, <1>5, <1>6 DEF FlowInv

LEMMA StartPhaseKeeps ==
    ASSUME FlowInv, StartPhase
    PROVE  FlowInv'
  <1>0. FlowTypes /\ Source \in Nodes
    BY NodesFinite DEF FlowInv, FlowTypes
  <1>1. FlowTypes'
    BY <1>0 DEF StartPhase, FlowTypes, Nodes, Neighbours
  <1>2. Conserved' /\ Answered'
    BY NothingPushed, Unanswered DEF StartPhase
  <1>3. Climbing' /\ Separated'
    BY <1>0 DEF StartPhase, Climbing, Separated, FlowTypes
  <1>4. QED
    BY <1>1, <1>2, <1>3 DEF FlowInv

LEMMA MaximumReachedKeeps ==
    ASSUME FlowInv, MaximumReached
    PROVE  FlowInv'
  <1>0. FlowTypes
    BY DEF FlowInv
  <1>1. FlowTypes'
    BY <1>0 DEF MaximumReached, FlowTypes, Nodes
  <1>2. Conserved' /\ Answered'
    BY NothingPushed, Unanswered DEF MaximumReached
  <1>3. \A u, v \in Nodes : level[u] >= 0 /\ level[v] < 0 => residual[<<u, v>>] = 0
    <2>1. \A u, v \in Nodes : level[u] >= 0 /\ level[v] < 0 => ~(residual[<<u, v>>] > 0)
      BY DEF MaximumReached, NextWave
    <2>2. \A u, v \in Nodes : residual[<<u, v>>] \in Nat
      BY <1>0 DEF FlowTypes
    <2>3. QED
      BY <2>1, <2>2
  <1>4. Climbing' /\ Separated'
    BY <1>3 DEF MaximumReached, Climbing, Separated, Nodes
  <1>5. QED
    BY <1>1, <1>2, <1>4 DEF FlowInv

LEMMA DescendKeeps ==
    ASSUME FlowInv, Descend
    PROVE  FlowInv'
  <1>0. FlowTypes /\ Climbing
    BY DEF FlowInv
  <1>1. PICK v \in Usable(Last(path)) : path' = Append(path, v)
    BY DEF Descend
  <1>2. Len(path) \in Nat /\ Len(path) >= 1 /\ Last(path) = path[Len(path)] /\ Last(path) \in Nodes
    BY <1>0 DEF Descend, Climbing, FlowTypes, Last
  <1>3. v \in Nodes /\ residual[<<path[Len(path)], v>>] > 0 /\ level[v] = level[path[Len(path)]] + 1
    BY <1>0, <1>1, <1>2 DEF Usable, FlowTypes
  <1>4. /\ Len(path') = Len(path) + 1 /\ path'[Len(path) + 1] = v
        /\ \A k \in 1 .. Len(path) : path'[k] = path[k]
        /\ path' \in Seq(Nodes)
    BY <1>0, <1>1, <1>3 DEF FlowTypes
  <1>5. level[v] = Len(path)
    <2>1. level[path[Len(path)]] = Len(path) - 1
      BY <1>0, <1>2 DEF Climbing, Descend
    <2>2. QED
      BY <1>2, <1>3, <2>1
  <1>6. FlowTypes'
    BY <1>0, <1>4 DEF Descend, FlowTypes, Nodes
  <1>7. Conserved' /\ Answered'
    BY NothingPushed, Unanswered DEF Descend
  <1>8. \A k \in 1 .. Len(path) + 1 : level[path'[k]] = k - 1
    BY <1>0, <1>2, <1>4, <1>5 DEF Climbing, Descend
  <1>9. \A k \in 1 .. Len(path) : residual[<<path'[k], path'[k + 1]>>] > 0
    <2> TAKE k \in 1 .. Len(path)
    <2>1. CASE k = Len(path)
      BY <1>2, <1>3, <1>4, <2>1
    <2>2. CASE k # Len(path)
      <3>1. k \in 1 .. Len(path) - 1 /\ k + 1 \in 1 .. Len(path)
        BY <1>2, <2>2
      <3>2. QED
        BY <1>0, <1>4, <3>1 DEF Climbing, Descend
    <2>3. QED
      BY <2>1, <2>2
  <1>10. Climbing' /\ Separated'
    BY <1>0, <1>2, <1>4, <1>8, <1>9 DEF Descend, Climbing, Separated
  <1>11. QED
    BY <1>6, <1>7, <1>10 DEF FlowInv

LEMMA RetreatKeeps ==
    ASSUME FlowInv, Retreat
    PROVE  FlowInv'
  <1>0. FlowTypes /\ Climbing
    BY DEF FlowInv
  <1>1. /\ path' \in Seq(Nodes) /\ Len(path') = Len(path) - 1 /\ Len(path') >= 1
        /\ Len(path) \in Nat
        /\ \A k \in 1 .. Len(path') : path'[k] = path[k]
    BY <1>0 DEF Retreat, FlowTypes, Front
  <1>2. untried' \in [Nodes -> SUBSET Nodes]
    BY <1>0 DEF Retreat, FlowTypes
  <1>3. FlowTypes'
    BY <1>0, <1>1, <1>2 DEF Retreat, FlowTypes, Nodes
  <1>4. Conserved' /\ Answered'
    BY NothingPushed, Unanswered DEF Retreat
  <1>5. Climbing' /\ Separated'
    <2>1. \A k \in 1 .. Len(path') : k \in 1 .. Len(path) /\ level[path'[k]] = k - 1
      BY <1>0, <1>1 DEF Retreat, Climbing
    <2>2. ASSUME NEW k \in 1 .. Len(path') - 1
          PROVE  residual[<<path'[k], path'[k + 1]>>] > 0
      <3>1. k \in 1 .. Len(path) - 1 /\ path'[k] = path[k] /\ path'[k + 1] = path[k + 1]
        BY <1>1
      <3>2. QED
        BY <1>0, <3>1 DEF Retreat, Climbing
    <2>3. path'[1] = Source
      BY <1>0, <1>1 DEF Retreat, Climbing
    <2>4. QED
      BY <1>1, <2>1, <2>2, <2>3 DEF Retreat, Climbing, Separated
  <1>6. QED
    BY <1>3, <1>4, <1>5 DEF FlowInv

LEMMA EndPhaseKeeps ==
    ASSUME FlowInv, EndPhase
    PROVE  FlowInv'
  <1>0. FlowTypes /\ Source \in Nodes
    BY NodesFinite DEF FlowInv, FlowTypes
  <1>1. FlowTypes'
    BY <1>0 DEF EndPhase, FlowTypes, Unlabelled, Nodes
  <1>2. Conserved' /\ Answered'
    BY NothingPushed, Unanswered DEF EndPhase
  <1>3. Climbing' /\ Separated'
    BY DEF EndPhase, Climbing, Separated
  <1>4. QED
    BY <1>1, <1>2, <1>3 DEF FlowInv

\* The edges of a path of send: none is the reverse of another, and all have
\* room for the bottleneck.
LEMMA PathFacts ==
    ASSUME FlowInv, pc = "send", Last(path) = Sink
    PROVE  /\ path \in Seq(Nodes) /\ Len(path) >= 2 /\ path[Len(path)] = Sink
           /\ path[1] = Source /\ Simple(path) /\ PathEdges = EdgesOf(path)
           /\ \A u, v : <<u, v>> \in PathEdges => <<v, u>> \notin PathEdges
           /\ Bottleneck \in Nat
           /\ \A e \in PathEdges : e \in Nodes \X Nodes /\ Bottleneck <= residual[e]
  <1> DEFINE L == Len(path)
  <1>0. FlowTypes /\ Climbing
    BY DEF FlowInv
  <1>1. path \in Seq(Nodes) /\ L \in Nat /\ L >= 1 /\ path[1] = Source /\ path[L] = Sink
    BY <1>0 DEF FlowTypes, Climbing, Last
  <1>2. L >= 2
    BY <1>0, <1>1, NodesFinite DEF FlowTypes
  <1>3. \A k \in 1 .. L : path[k] \in Nodes /\ level[path[k]] = k - 1
    BY <1>0, <1>1 DEF Climbing
  <1>4. Simple(path)
    <2>1. ASSUME NEW i \in 1 .. L, NEW j \in 1 .. L, path[i] = path[j]
          PROVE  i = j
      <3>1. i - 1 = j - 1
        BY <1>3, <2>1
      <3>2. QED
        BY <3>1
    <2>2. QED
      BY <2>1 DEF Simple
  <1>5. ASSUME NEW k \in 1 .. L - 1
        PROVE  k \in 1 .. L /\ k + 1 \in 1 .. L /\ level[path[k + 1]] = level[path[k]] + 1
               /\ path[k] \in Nodes /\ path[k + 1] \in Nodes
               /\ level[path[k]] \in Int
               /\ residual[<<path[k], path[k + 1]>>] \in Nat
    <2>1. k \in 1 .. L /\ k + 1 \in 1 .. L
      BY <1>1
    <2>2. level[path[k]] = k - 1 /\ level[path[k + 1]] = (k + 1) - 1
      BY <1>3, <2>1
    <2>3. path[k] \in Nodes /\ path[k + 1] \in Nodes
      BY <1>3, <2>1
    <2>4. residual[<<path[k], path[k + 1]>>] \in Nat
      BY <1>0, <2>3 DEF FlowTypes
    <2>5. QED
      BY <2>1, <2>2, <2>3, <2>4
  <1>6. ASSUME NEW u, NEW v, <<u, v>> \in PathEdges, <<v, u>> \in PathEdges
        PROVE  FALSE
    <2>1. PICK i \in 1 .. L - 1 : u = path[i] /\ v = path[i + 1]
      BY <1>6 DEF PathEdges
    <2>2. PICK j \in 1 .. L - 1 : v = path[j] /\ u = path[j + 1]
      BY <1>6 DEF PathEdges
    <2>3. level[v] = level[u] + 1 /\ level[u] = level[v] + 1 /\ level[u] \in Int
      BY <1>5, <2>1, <2>2
    <2>4. level[v] \in Int
      BY <2>3
    <2>5. QED
      BY <2>3, <2>4
  <1> DEFINE rooms == {residual[e] : e \in PathEdges}
  <1>7. IsFiniteSet(rooms)
    <2> DEFINE I == 1 .. L - 1
               h == [k \in I |-> residual[<<path[k], path[k + 1]>>]]
    <2>1. rooms = {h[k] : k \in I}
      BY DEF PathEdges
    <2>2. IsFiniteSet(I)
      BY <1>1, FS_Interval
    <2> HIDE DEF I, h, rooms
    <2>3. IsFiniteSet({h[k] : k \in I})
      BY <2>2, ImageFinite
    <2>4. QED
      BY <2>1, <2>3
  <1>8. rooms \subseteq Nat /\ rooms # {}
    <2>1. 1 \in 1 .. L - 1
      BY <1>1, <1>2
    <2>2. <<path[1], path[1 + 1]>> \in PathEdges
      BY <2>1 DEF PathEdges
    <2>3. ASSUME NEW e \in PathEdges
          PROVE  residual[e] \in Nat
      <3>1. PICK k \in 1 .. L - 1 : e = <<path[k], path[k + 1]>>
        BY DEF PathEdges
      <3>2. QED
        BY <1>5, <3>1
    <2>4. QED
      BY <2>2, <2>3
  <1>9. Bottleneck \in rooms /\ \A y \in rooms : Bottleneck <= y
    <2>1. Min(rooms) \in rooms /\ \A y \in rooms : Min(rooms) <= y
      <3>1. rooms \subseteq Int
        BY <1>8
      <3> HIDE DEF rooms
      <3>2. QED
        BY <1>7, <1>8, <3>1, MinIsThere
    <2>2. QED
      BY <2>1 DEF Bottleneck
  <1>10. \A e \in PathEdges : e \in Nodes \X Nodes
    BY <1>5 DEF PathEdges
  <1>11. QED
    BY <1>1, <1>2, <1>4, <1>6, <1>8, <1>9, <1>10 DEF PathEdges, EdgesOf

LEMMA AugmentKeeps ==
    ASSUME FlowInv, Augment
    PROVE  FlowInv'
  <1> DEFINE A == Bottleneck
  <1>0. FlowTypes /\ Conserved /\ Climbing
    BY DEF FlowInv
  <1>1. /\ path \in Seq(Nodes) /\ Len(path) >= 2 /\ path[Len(path)] = Sink
        /\ path[1] = Source /\ Simple(path) /\ PathEdges = EdgesOf(path)
        /\ \A u, v : <<u, v>> \in PathEdges => <<v, u>> \notin PathEdges
        /\ A \in Nat
        /\ \A e \in PathEdges : e \in Nodes \X Nodes /\ A <= residual[e]
    BY PathFacts DEF Augment
  <1>2. Nodes' = Nodes /\ inst' = inst /\ Source \in Nodes /\ IsFiniteSet(Nodes) /\ Source # Sink
    BY <1>0, NodesFinite DEF Augment, Nodes, FlowTypes
  <1> HIDE DEF A
  <1>3. /\ DOMAIN residual' = Nodes \X Nodes
        /\ \A u, v \in Nodes : residual'[<<u, v>>] =
              IF <<u, v>> \in PathEdges THEN residual[<<u, v>>] - A
              ELSE IF <<v, u>> \in PathEdges THEN residual[<<u, v>>] + A
              ELSE residual[<<u, v>>]
        /\ residual' = [e \in Nodes \X Nodes |-> residual'[e]]
    <2>1. DOMAIN residual = Nodes \X Nodes
      BY <1>0 DEF FlowTypes
    <2>2. residual' = [e \in Nodes \X Nodes |->
                         CASE e \in PathEdges -> residual[e] - A
                           [] <<e[2], e[1]>> \in PathEdges -> residual[e] + A
                           [] OTHER -> residual[e]]
      BY <2>1 DEF Augment, A
    <2>3. ASSUME NEW u \in Nodes, NEW v \in Nodes
          PROVE  residual'[<<u, v>>] =
                   CASE <<u, v>> \in PathEdges -> residual[<<u, v>>] - A
                     [] <<v, u>> \in PathEdges -> residual[<<u, v>>] + A
                     [] OTHER -> residual[<<u, v>>]
      BY <2>2
    <2>4. ASSUME NEW u \in Nodes, NEW v \in Nodes
          PROVE  residual'[<<u, v>>] =
                   IF <<u, v>> \in PathEdges THEN residual[<<u, v>>] - A
                   ELSE IF <<v, u>> \in PathEdges THEN residual[<<u, v>>] + A
                   ELSE residual[<<u, v>>]
      BY <1>1, <2>3
    <2>5. DOMAIN residual' = Nodes \X Nodes /\ residual' = [e \in Nodes \X Nodes |-> residual'[e]]
      BY <2>2
    <2>6. QED
      BY <2>4, <2>5
  <1>4. \A u, v \in Nodes : /\ residual'[<<u, v>>] \in Nat
                           /\ residual[<<u, v>>] \in Nat
                           /\ residual'[<<u, v>>] + residual'[<<v, u>>]
                                = residual[<<u, v>>] + residual[<<v, u>>]
    <2> TAKE u, v \in Nodes
    <2>1. residual[<<u, v>>] \in Nat /\ residual[<<v, u>>] \in Nat
      BY <1>0 DEF FlowTypes
    <2>2. <<u, v>> \in PathEdges => residual[<<u, v>>] - A \in Nat /\ <<v, u>> \notin PathEdges
      BY <1>1, <2>1
    <2>3. <<v, u>> \in PathEdges => <<u, v>> \notin PathEdges
      BY <1>1
    <2>4. QED
      BY <1>1, <1>3, <2>1, <2>2, <2>3
  <1>5. FlowTypes'
    <2>1. residual' \in [Nodes \X Nodes -> Nat]
      <3>1. ASSUME NEW e \in Nodes \X Nodes
            PROVE  residual'[e] \in Nat
        <4>1. PICK u, v \in Nodes : e = <<u, v>>
          OBVIOUS
        <4>2. QED
          BY <1>4, <4>1
      <3>2. QED
        BY <1>3, <3>1
    <2>2. path' \in Seq(Nodes)
      BY <1>2 DEF Augment
    <2>3. total' \in Int
      BY <1>0, <1>1 DEF Augment, A, FlowTypes
    <2>4. QED
      BY <1>0, <1>2, <2>1, <2>2, <2>3 DEF Augment, FlowTypes
  <1>6. ASSUME NEW u \in Nodes \ {Sink}
        PROVE  Leaving(u)' = IF u = Source THEN total' ELSE 0
    <2>1. PICK g : g = Pushed'
      OBVIOUS
    <2>2. PICK f : f = Pushed
      OBVIOUS
    <2>3. \A x, y \in Nodes : /\ f[<<x, y>>] = Network(inst)[<<x, y>>] - residual[<<x, y>>]
                             /\ g[<<x, y>>] = Network(inst)[<<x, y>>] - residual'[<<x, y>>]
                             /\ Network(inst)[<<x, y>>] \in Nat
      BY <1>0, <1>2, <2>1, <2>2, NetworkIs DEF Pushed, FlowTypes
    <2>4. \A x, y \in Nodes : f[<<x, y>>] \in Int
      <3> TAKE x, y \in Nodes
      <3>1. residual[<<x, y>>] \in Nat
        BY <1>0 DEF FlowTypes
      <3>2. Network(inst)[<<x, y>>] \in Nat /\ f[<<x, y>>] = Network(inst)[<<x, y>>] - residual[<<x, y>>]
        BY <2>3
      <3>3. QED
        BY <3>1, <3>2
    <2>5. \A x, y \in Nodes : g[<<x, y>>] =
             IF <<x, y>> \in EdgesOf(path) THEN f[<<x, y>>] + A
             ELSE IF <<y, x>> \in EdgesOf(path) THEN f[<<x, y>>] - A
             ELSE f[<<x, y>>]
      <3> TAKE x, y \in Nodes
      <3>0. residual[<<x, y>>] \in Nat
        BY <1>0 DEF FlowTypes
      <3>1. residual[<<x, y>>] \in Int /\ A \in Int /\ Network(inst)[<<x, y>>] \in Int
        BY <1>1, <2>3, <3>0
      <3>2. CASE <<x, y>> \in EdgesOf(path)
        <4>1. residual'[<<x, y>>] = residual[<<x, y>>] - A
          BY <1>1, <1>3, <3>2
        <4>2. f[<<x, y>>] = Network(inst)[<<x, y>>] - residual[<<x, y>>]
              /\ g[<<x, y>>] = Network(inst)[<<x, y>>] - residual'[<<x, y>>]
          BY <2>3
        <4>3. g[<<x, y>>] = f[<<x, y>>] + A
          BY <3>1, <4>1, <4>2
        <4>4. QED
          BY <3>2, <4>3
      <3>3. CASE <<x, y>> \notin EdgesOf(path) /\ <<y, x>> \in EdgesOf(path)
        BY <1>1, <1>3, <2>3, <3>1, <3>3
      <3>4. CASE <<x, y>> \notin EdgesOf(path) /\ <<y, x>> \notin EdgesOf(path)
        BY <1>1, <1>3, <2>3, <3>1, <3>4
      <3>5. QED
        BY <3>2, <3>3, <3>4
    <2>6. A \in Int /\ u # path[Len(path)]
      BY <1>1
    <2> DEFINE F == [v \in Nodes |-> f[<<u, v>>]]
               G == [v \in Nodes |-> g[<<u, v>>]]
    <2>7. /\ u = path[1] => SumFunctionOnSet(G, Nodes) = SumFunctionOnSet(F, Nodes) + A
          /\ u # path[1] => SumFunctionOnSet(G, Nodes) = SumFunctionOnSet(F, Nodes)
      <3>1. Pushes(Nodes, path, A, u, F, G)
        BY <2>4, <2>5 DEF Pushes
      <3>2. /\ IsFiniteSet(Nodes) /\ path \in Seq(Nodes) /\ Len(path) >= 2 /\ Simple(path)
            /\ u \in Nodes /\ A \in Int /\ u # path[Len(path)]
        BY <1>1, <1>2, <2>6
      <3> HIDE DEF F, G
      <3>3. QED
        BY <3>1, <3>2, PushAlong
    <2>8. Leaving(u)' = SumFunctionOnSet([v \in Nodes |-> g[<<u, v>>]], Nodes)
      BY <1>2, <2>1 DEF Leaving
    <2>9. Leaving(u) = SumFunctionOnSet([v \in Nodes |-> f[<<u, v>>]], Nodes)
      BY <2>2 DEF Leaving
    <2>10. Leaving(u) = IF u = Source THEN total ELSE 0
      BY <1>0 DEF Conserved
    <2>11. total' = total + A
      BY DEF Augment, A
    <2>12. QED
      BY <1>1, <2>7, <2>8, <2>9, <2>10, <2>11
  <1>7. Conserved'
    BY <1>0, <1>2, <1>4, <1>6 DEF Conserved
  <1>8. Climbing' /\ Separated'
    BY <1>0, <1>2 DEF Augment, Climbing, Separated, FlowTypes
  <1>9. Answered'
    BY Unanswered DEF Augment
  <1>10. QED
    BY <1>5, <1>7, <1>8, <1>9 DEF FlowInv

---------------------------------------------------------------------------
(* The flow across a set that no residual edge leaves.                     *)

Isolated(S) ==
    /\ S \in SUBSET Nodes /\ Source \in S /\ Sink \notin S
    /\ \A u \in S, v \in Nodes \ S : residual[<<u, v>>] = 0

\* What the network could carry from u to the nodes outside S.
Room(S) == [u \in S |-> SumFunctionOnSet(Row(Network(inst), u, Nodes \ S), Nodes \ S)]

LEMMA PushedFacts ==
    ASSUME FlowInv
    PROVE  /\ \A u, v \in Nodes : /\ Pushed[<<u, v>>] \in Int
                                  /\ Pushed[<<u, v>>] = Network(inst)[<<u, v>>] - residual[<<u, v>>]
                                  /\ Pushed[<<v, u>>] = -Pushed[<<u, v>>]
                                  /\ residual[<<u, v>>] \in Nat
                                  /\ Network(inst)[<<u, v>>] \in Nat
           /\ \A u \in Nodes : Leaving(u) = SumFunctionOnSet(Row(Pushed, u, Nodes), Nodes)
  <1>1. ASSUME NEW u \in Nodes, NEW v \in Nodes
        PROVE  /\ Pushed[<<u, v>>] = Network(inst)[<<u, v>>] - residual[<<u, v>>]
               /\ residual[<<u, v>>] \in Nat /\ Network(inst)[<<u, v>>] \in Nat
    BY NetworkIs DEF FlowInv, FlowTypes, Pushed
  <1>2. ASSUME NEW u \in Nodes, NEW v \in Nodes
        PROVE  Pushed[<<v, u>>] = -Pushed[<<u, v>>]
    <2>1. residual[<<u, v>>] + residual[<<v, u>>]
            = Network(inst)[<<u, v>>] + Network(inst)[<<v, u>>]
      BY DEF FlowInv, Conserved
    <2>2. /\ Pushed[<<u, v>>] = Network(inst)[<<u, v>>] - residual[<<u, v>>]
          /\ Pushed[<<v, u>>] = Network(inst)[<<v, u>>] - residual[<<v, u>>]
          /\ residual[<<u, v>>] \in Nat /\ Network(inst)[<<u, v>>] \in Nat
          /\ residual[<<v, u>>] \in Nat /\ Network(inst)[<<v, u>>] \in Nat
      BY <1>1
    <2>3. QED
      BY <2>1, <2>2
  <1>3. ASSUME NEW u \in Nodes, NEW v \in Nodes
        PROVE  Pushed[<<u, v>>] \in Int
    <2>1. /\ Pushed[<<u, v>>] = Network(inst)[<<u, v>>] - residual[<<u, v>>]
          /\ residual[<<u, v>>] \in Nat /\ Network(inst)[<<u, v>>] \in Nat
      BY <1>1
    <2>2. QED
      BY <2>1
  <1>4. \A u \in Nodes : Leaving(u) = SumFunctionOnSet(Row(Pushed, u, Nodes), Nodes)
    BY DEF Leaving, Row
  <1>5. QED
    BY <1>1, <1>2, <1>3, <1>4

LEMMA RoomIsTotal ==
    ASSUME FlowInv, NEW S, Isolated(S)
    PROVE  SumFunctionOnSet(Room(S), S) = total
  <1> DEFINE T == Nodes \ S
             out == [u \in S |-> Leaving(u)]
             within == [u \in S |-> SumFunctionOnSet(Row(Pushed, u, S), S)]
  <1>0. /\ IsFiniteSet(Nodes) /\ IsFiniteSet(S) /\ IsFiniteSet(T) /\ S \in SUBSET Nodes
        /\ total \in Int /\ Source \in S /\ Sink \notin S
    BY NodesFinite, FS_Subset DEF FlowInv, FlowTypes, Isolated
  <1>1. \A u, v \in Nodes : Pushed[<<u, v>>] \in Int /\ Pushed[<<v, u>>] = -Pushed[<<u, v>>]
    BY PushedFacts
  <1>2. ASSUME NEW u \in S
        PROVE  /\ out[u] = within[u] + Room(S)[u]
               /\ within[u] \in Int /\ Room(S)[u] \in Int /\ out[u] \in Int
    <2> DEFINE row == Row(Pushed, u, Nodes)
               net == Row(Network(inst), u, T)
    <2>1. \A v \in Nodes : row[v] \in Int
      BY <1>0, <1>1 DEF Row
    <2>2. /\ SumFunctionOnSet(row, Nodes) = SumFunctionOnSet(row, S) + SumFunctionOnSet(row, T)
          /\ SumFunctionOnSet(row, S) \in Int /\ SumFunctionOnSet(row, T) \in Int
      <3> HIDE DEF row
      <3>1. QED
        BY <1>0, <2>1, SumSplit, SumInt
    <2>3. SumFunctionOnSet(row, S) = SumFunctionOnSet(Row(Pushed, u, S), S)
      <3>1. \A v \in S : row[v] \in Int /\ row[v] = Row(Pushed, u, S)[v]
        BY <1>0, <2>1 DEF Row
      <3> HIDE DEF row
      <3>2. QED
        BY <1>0, <3>1, SumSame
    <2>4. SumFunctionOnSet(row, T) = SumFunctionOnSet(net, T)
      <3>1. ASSUME NEW v \in T
            PROVE  row[v] = net[v]
        <4>1. /\ Pushed[<<u, v>>] = Network(inst)[<<u, v>>] - residual[<<u, v>>]
              /\ Network(inst)[<<u, v>>] \in Nat
          BY <1>0, PushedFacts
        <4>2. residual[<<u, v>>] = 0
          BY DEF Isolated
        <4>3. row[v] = Pushed[<<u, v>>] /\ net[v] = Network(inst)[<<u, v>>]
          BY <1>0 DEF Row
        <4>4. QED
          BY <4>1, <4>2, <4>3
      <3> HIDE DEF row, net
      <3>2. QED
        BY <1>0, <2>1, <3>1, SumSame
    <2>5. /\ out[u] = SumFunctionOnSet(row, Nodes)
          /\ within[u] = SumFunctionOnSet(Row(Pushed, u, S), S)
          /\ Room(S)[u] = SumFunctionOnSet(net, T)
      BY <1>0, PushedFacts DEF Room
    <2> HIDE DEF row, net, out, within, T
    <2>6. QED
      BY <2>2, <2>3, <2>4, <2>5
  <1>3. SumFunctionOnSet(out, S) = SumFunctionOnSet(within, S) + SumFunctionOnSet(Room(S), S)
    <2> HIDE DEF out, within
    <2>1. QED
      BY <1>0, <1>2, SumOfSum
  <1>4. SumFunctionOnSet(within, S) = 0
    <2>1. Rows(Pushed, S, S, within)
      BY <1>0, <1>1 DEF Rows
    <2>2. \A x, y \in S : Pushed[<<x, y>>] \in Int /\ Pushed[<<y, x>>] = -Pushed[<<x, y>>]
      BY <1>0, <1>1
    <2> HIDE DEF within
    <2>3. SumFunctionOnSet(Pushed, S \X S) = SumFunctionOnSet(within, S)
      BY <1>0, <2>1, SumTable
    <2>4. SumFunctionOnSet(Pushed, S \X S) = 0
      BY <1>0, <2>2, SumCancels
    <2>5. QED
      BY <2>3, <2>4
  <1>5. SumFunctionOnSet(out, S) = total
    <2>1. \A u \in S : out[u] = IF u = Source THEN total ELSE 0
      BY <1>0 DEF FlowInv, Conserved
    <2>2. out[Source] = total /\ out[Source] \in Int /\ \A u \in S \ {Source} : out[u] = 0
      BY <1>0, <2>1
    <2>3. {Source} \in SUBSET S /\ \A u \in S : out[u] \in Int
      BY <1>0, <2>1
    <2> HIDE DEF out
    <2>4. SumFunctionOnSet(out, S) = SumFunctionOnSet(out, {Source})
      BY <1>0, <2>2, <2>3, SumSupport
    <2>5. SumFunctionOnSet(out, {Source}) = out[Source]
      BY <2>2, SumSingle
    <2>6. QED
      BY <2>2, <2>4, <2>5
  <1>6. SumFunctionOnSet(Room(S), S) \in Int
    BY <1>0, <1>2, SumInt
  <1> HIDE DEF out, within
  <1>7. QED
    BY <1>3, <1>4, <1>5, <1>6

\* The boxes and the resources in a set of nodes.
BoxesIn(S) == {b \in BoxesOf(inst) : Box(b) \in S}

ResourcesIn(S) == {r \in ResourcesOf(inst) : Resource(r) \in S}

LEMMA Kinds ==
    ASSUME NEW b, NEW r
    PROVE  /\ Box(b) # Source /\ Box(b) # Sink /\ Resource(r) # Source /\ Resource(r) # Sink
           /\ Source # Sink /\ Box(b) # Resource(r)
           /\ \A c : Box(b) = Box(c) => b = c
           /\ \A q : Resource(r) = Resource(q) => r = q
  BY DEF Box, Resource, Source, Sink

LEMMA NodeCases ==
    ASSUME inst \in Instances, NEW v \in Nodes
    PROVE  \/ v = Source
           \/ v = Sink
           \/ \E b \in BoxesOf(inst) : v = Box(b)
           \/ \E r \in ResourcesOf(inst) : v = Resource(r)
  BY DEF Nodes, NodesOf

\* The edges of the network.
LEMMA Edges ==
    ASSUME inst \in Instances
    PROVE  /\ \A b \in BoxesOf(inst) : NetworkCapacity(inst, Source, Box(b)) = inst.demands[b]
           /\ \A r \in ResourcesOf(inst) :
                NetworkCapacity(inst, Resource(r), Sink) = inst.capacities[r]
           /\ \A b \in BoxesOf(inst), r \in ResourcesOf(inst) :
                NetworkCapacity(inst, Box(b), Resource(r))
                  = IF r \in inst.reachable[b] THEN 1 ELSE 0
           /\ \A u : NetworkCapacity(inst, u, Source) = 0 /\ NetworkCapacity(inst, Sink, u) = 0
           /\ NetworkCapacity(inst, Source, Sink) = 0
           /\ \A b, c : NetworkCapacity(inst, Box(b), Box(c)) = 0
           /\ \A b : NetworkCapacity(inst, Box(b), Sink) = 0
           /\ \A r, q : NetworkCapacity(inst, Resource(r), Resource(q)) = 0
           /\ \A r : NetworkCapacity(inst, Source, Resource(r)) = 0
           /\ \A r, b : NetworkCapacity(inst, Resource(r), Box(b)) = 0
  BY DEF NetworkCapacity, Box, Resource, Source, Sink

LEMMA SourceRoom ==
    ASSUME inst \in Instances, NEW S \in SUBSET Nodes, Source \in S
    PROVE  Room(S)[Source] = SourceCut(inst, BoxesIn(S))
  <1> DEFINE T == Nodes \ S
             B == BoxesOf(inst) \ BoxesIn(S)
             f == Row(Network(inst), Source, T)
             h == [b \in B |-> Box(b)]
             d == inst.demands
  <1>1. /\ IsFiniteSet(T) /\ IsFiniteSet(B) /\ Source \in Nodes
        /\ \A b \in B : h[b] \in T
        /\ \A a, b \in B : h[a] = h[b] => a = b
    BY NodesFinite, NodeKinds, Kinds, FS_Subset DEF BoxesIn
  <1>2. \A v \in T : f[v] = NetworkCapacity(inst, Source, v) /\ f[v] \in Int
    BY <1>1, NetworkIs, NetworkNat DEF Row
  <1>3. \A b \in B : d[b] = f[h[b]]
    BY <1>1, <1>2, Edges
  <1>4. ASSUME NEW v \in T, \A b \in B : h[b] # v
        PROVE  f[v] = 0
    <2>1. CASE \E b \in BoxesOf(inst) : v = Box(b)
      BY <1>4, <2>1 DEF BoxesIn
    <2>2. CASE v = Source \/ v = Sink \/ \E r \in ResourcesOf(inst) : v = Resource(r)
      BY <1>2, <2>2, Edges
    <2>3. QED
      BY <2>1, <2>2, NodeCases
  <1> HIDE DEF f, h, T, B
  <1>5. SumFunctionOnSet(f, T) = SumFunctionOnSet(d, B)
    <2>1. Renames(f, T, d, B, h)
      BY <1>1, <1>2, <1>3, <1>4 DEF Renames
    <2>2. QED
      BY <1>1, <2>1, SumRenamed
  <1>6. QED
    BY <1>5 DEF Room, SourceCut, f, T, B

LEMMA BoxRoom ==
    ASSUME inst \in Instances, NEW S \in SUBSET Nodes, NEW b \in BoxesIn(S)
    PROVE  Room(S)[Box(b)] = Cardinality(inst.reachable[b] \ ResourcesIn(S))
  <1> DEFINE T == Nodes \ S
             R == ResourcesOf(inst) \ ResourcesIn(S)
             f == Row(Network(inst), Box(b), T)
             h == [r \in R |-> Resource(r)]
             k == [r \in R |-> IF r \in inst.reachable[b] THEN 1 ELSE 0]
  <1>0. b \in BoxesOf(inst) /\ Box(b) \in S /\ Box(b) \in Nodes
    BY DEF BoxesIn
  <1>1. /\ IsFiniteSet(T) /\ IsFiniteSet(R)
        /\ \A r \in R : h[r] \in T
        /\ \A a, r \in R : h[a] = h[r] => a = r
    BY NodesFinite, NodeKinds, Kinds, FS_Subset DEF ResourcesIn
  <1>2. \A v \in T : f[v] = NetworkCapacity(inst, Box(b), v) /\ f[v] \in Int
    BY <1>0, NetworkIs, NetworkNat DEF Row
  <1>3. \A r \in R : k[r] = f[h[r]] /\ k[r] \in {0, 1}
    BY <1>0, <1>1, <1>2, Edges
  <1>4. ASSUME NEW v \in T, \A r \in R : h[r] # v
        PROVE  f[v] = 0
    <2>1. CASE \E r \in ResourcesOf(inst) : v = Resource(r)
      BY <1>4, <2>1 DEF ResourcesIn
    <2>2. CASE v = Source \/ v = Sink
      BY <1>2, <2>2, Edges
    <2>3. CASE \E c \in BoxesOf(inst) : v = Box(c)
      <3>1. f[v] = NetworkCapacity(inst, Box(b), v)
        BY <1>2
      <3>2. QED
        BY <2>3, <3>1, Edges
    <2>4. QED
      BY <2>1, <2>2, <2>3, NodeCases
  <1>5. {r \in R : k[r] = 1} = inst.reachable[b] \ ResourcesIn(S)
    BY <1>0, InstancesAssumption DEF ProperInstance
  <1>6. Room(S)[Box(b)] = SumFunctionOnSet(f, T)
    BY <1>0 DEF Room
  <1> HIDE DEF f, h, T, R, k
  <1>7. SumFunctionOnSet(f, T) = SumFunctionOnSet(k, R)
    <2>1. Renames(f, T, k, R, h)
      BY <1>1, <1>2, <1>3, <1>4 DEF Renames
    <2>2. QED
      BY <1>1, <2>1, SumRenamed
  <1>8. SumFunctionOnSet(k, R) = Cardinality({r \in R : k[r] = 1})
    BY <1>1, <1>3, SumCounts
  <1>9. QED
    BY <1>5, <1>6, <1>7, <1>8

LEMMA ResourceRoom ==
    ASSUME inst \in Instances, NEW S \in SUBSET Nodes, Sink \notin S, NEW r \in ResourcesIn(S)
    PROVE  Room(S)[Resource(r)] = inst.capacities[r]
  <1> DEFINE T == Nodes \ S
             f == Row(Network(inst), Resource(r), T)
  <1>0. r \in ResourcesOf(inst) /\ Resource(r) \in S /\ Resource(r) \in Nodes
    BY DEF ResourcesIn
  <1>1. IsFiniteSet(T) /\ Sink \in T /\ {Sink} \in SUBSET T
    BY NodesFinite, FS_Subset
  <1>2. \A v \in T : f[v] = NetworkCapacity(inst, Resource(r), v) /\ f[v] \in Int
    BY <1>0, NetworkIs, NetworkNat DEF Row
  <1>3. f[Sink] = inst.capacities[r] /\ f[Sink] \in Int
    BY <1>0, <1>1, <1>2, Edges
  <1>4. ASSUME NEW v \in T \ {Sink}
        PROVE  f[v] = 0
    <2>1. v \in Nodes /\ f[v] = NetworkCapacity(inst, Resource(r), v)
      BY <1>2
    <2>2. CASE v = Source \/ (\E c \in BoxesOf(inst) : v = Box(c))
               \/ \E q \in ResourcesOf(inst) : v = Resource(q)
      BY <2>1, <2>2, Edges
    <2>3. QED
      BY <2>1, <2>2, NodeCases
  <1>5. Room(S)[Resource(r)] = SumFunctionOnSet(f, T)
    BY <1>0 DEF Room
  <1> HIDE DEF f, T
  <1>6. SumFunctionOnSet(f, T) = SumFunctionOnSet(f, {Sink})
    BY <1>1, <1>2, <1>4, SumSupport
  <1>7. SumFunctionOnSet(f, {Sink}) = f[Sink]
    BY <1>3, SumSingle
  <1>8. QED
    BY <1>3, <1>5, <1>6, <1>7

\* The cut round a set that no residual edge leaves has just the room that the
\* flow fills.
LEMMA CutIsTotal ==
    ASSUME FlowInv, NEW S, Isolated(S)
    PROVE  CutCapacity(inst, BoxesIn(S), ResourcesIn(S)) = total
  <1> DEFINE bs == BoxesIn(S)
             rs == ResourcesIn(S)
             X == {Box(b) : b \in bs}
             Y == (S \ {Source}) \ X
             edges == [b \in bs |-> Cardinality(inst.reachable[b] \ rs)]
             hb == [b \in bs |-> Box(b)]
             hr == [r \in rs |-> Resource(r)]
             c == inst.capacities
  <1>0. /\ inst \in Instances /\ S \in SUBSET Nodes /\ Source \in S /\ Sink \notin S
        /\ IsFiniteSet(S) /\ IsFiniteSet(S \ {Source}) /\ IsFiniteSet(Y) /\ IsFiniteSet(X)
        /\ IsFiniteSet(bs) /\ IsFiniteSet(rs)
        /\ X \in SUBSET (S \ {Source}) /\ {Source} \in SUBSET S
    <2>1. /\ inst \in Instances /\ S \in SUBSET Nodes /\ Source \in S /\ Sink \notin S
          /\ IsFiniteSet(S)
      BY NodesFinite, FS_Subset DEF FlowInv, FlowTypes, Isolated
    <2>2. IsFiniteSet(bs) /\ IsFiniteSet(rs)
      BY <2>1, NodesFinite, FS_Subset DEF BoxesIn, ResourcesIn
    <2>3. X \in SUBSET (S \ {Source}) /\ {Source} \in SUBSET S
      BY <2>1, Kinds DEF BoxesIn
    <2> HIDE DEF X, bs, rs
    <2>4. IsFiniteSet(S \ {Source}) /\ IsFiniteSet(Y) /\ IsFiniteSet(X)
      BY <2>1, <2>3, FS_Subset
    <2>5. QED
      BY <2>1, <2>2, <2>3, <2>4
  <1>1. ASSUME NEW u \in S
        PROVE  Room(S)[u] \in Int
    <2> DEFINE row == Row(Network(inst), u, Nodes \ S)
    <2>1. IsFiniteSet(Nodes \ S) /\ \A v \in Nodes \ S : row[v] \in Int
      BY <1>0, NodesFinite, NetworkIs, NetworkNat, FS_Subset DEF Row
    <2>2. Room(S)[u] = SumFunctionOnSet(row, Nodes \ S)
      BY DEF Room
    <2> HIDE DEF row
    <2>3. QED
      BY <2>1, <2>2, SumInt
  <1>2. SumFunctionOnSet(Room(S), X) = SumFunctionOnSet(edges, bs)
    <2>1. \A u \in X : Room(S)[u] \in Int
      BY <1>0, <1>1
    <2>2. \A b \in bs : hb[b] \in X /\ edges[b] = Room(S)[hb[b]]
      BY <1>0, BoxRoom
    <2>3. \A a, b \in bs : hb[a] = hb[b] => a = b
      BY Kinds
    <2>4. \A u \in X : (\A b \in bs : hb[b] # u) => Room(S)[u] = 0
      OBVIOUS
    <2> HIDE DEF X, hb, edges, bs
    <2>5. Renames(Room(S), X, edges, bs, hb)
      BY <2>1, <2>2, <2>3, <2>4 DEF Renames
    <2>6. QED
      BY <1>0, <2>5, SumRenamed
  <1>3. SumFunctionOnSet(Room(S), Y) = SumFunctionOnSet(c, rs)
    <2>1. \A u \in Y : Room(S)[u] \in Int
      BY <1>1
    <2>2. \A r \in rs : hr[r] \in Y /\ c[r] = Room(S)[hr[r]]
      <3> TAKE r \in rs
      <3>1. Room(S)[Resource(r)] = inst.capacities[r]
        BY <1>0, ResourceRoom
      <3>2. Resource(r) \in S /\ Resource(r) # Source /\ \A b : Resource(r) # Box(b)
        BY Kinds DEF ResourcesIn
      <3>3. QED
        BY <3>1, <3>2
    <2>3. \A a, r \in rs : hr[a] = hr[r] => a = r
      BY Kinds
    <2>4. ASSUME NEW u \in Y, \A r \in rs : hr[r] # u
          PROVE  Room(S)[u] = 0
      <3>1. u \in Nodes /\ u # Source /\ u # Sink /\ u \notin X /\ u \in S
        BY <1>0
      <3>2. CASE \E b \in BoxesOf(inst) : u = Box(b)
        BY <3>1, <3>2 DEF BoxesIn
      <3>3. CASE \E r \in ResourcesOf(inst) : u = Resource(r)
        BY <2>4, <3>1, <3>3 DEF ResourcesIn
      <3>4. QED
        BY <1>0, <3>1, <3>2, <3>3, NodeCases
    <2> HIDE DEF Y, hr, rs
    <2>5. Renames(Room(S), Y, c, rs, hr)
      BY <2>1, <2>2, <2>3, <2>4 DEF Renames
    <2>6. QED
      BY <1>0, <2>5, SumRenamed
  <1>4. SumFunctionOnSet(Room(S), {Source}) = SourceCut(inst, bs)
    <2>1. Room(S)[Source] = SourceCut(inst, bs) /\ Room(S)[Source] \in Int
      BY <1>0, <1>1, SourceRoom
    <2>2. QED
      BY <2>1, SumSingle
  <1>5. /\ SumFunctionOnSet(Room(S), S)
             = SumFunctionOnSet(Room(S), {Source}) + SumFunctionOnSet(Room(S), S \ {Source})
        /\ SumFunctionOnSet(Room(S), S \ {Source})
             = SumFunctionOnSet(Room(S), X) + SumFunctionOnSet(Room(S), Y)
        /\ SumFunctionOnSet(Room(S), {Source}) \in Int
        /\ SumFunctionOnSet(Room(S), X) \in Int /\ SumFunctionOnSet(Room(S), Y) \in Int
    <2>1. /\ \A u \in S \ {Source} : Room(S)[u] \in Int
          /\ \A u \in {Source} : Room(S)[u] \in Int
          /\ \A u \in X : Room(S)[u] \in Int
          /\ \A u \in Y : Room(S)[u] \in Int
      BY <1>0, <1>1
    <2>2. IsFiniteSet({Source})
      BY FS_Singleton
    <2> HIDE DEF X, Y
    <2>3. SumFunctionOnSet(Room(S), S)
             = SumFunctionOnSet(Room(S), {Source}) + SumFunctionOnSet(Room(S), S \ {Source})
      BY <1>0, <1>1, SumSplit
    <2>4. SumFunctionOnSet(Room(S), S \ {Source})
             = SumFunctionOnSet(Room(S), X) + SumFunctionOnSet(Room(S), (S \ {Source}) \ X)
      BY <1>0, <2>1, SumSplit
    <2>5. /\ SumFunctionOnSet(Room(S), {Source}) \in Int
          /\ SumFunctionOnSet(Room(S), X) \in Int /\ SumFunctionOnSet(Room(S), Y) \in Int
      BY <1>0, <2>1, <2>2, SumInt
    <2>6. QED
      BY <2>3, <2>4, <2>5 DEF Y
  <1>6. CutCapacity(inst, bs, rs)
          = SourceCut(inst, bs) + SumFunctionOnSet(edges, bs) + SumFunctionOnSet(c, rs)
    BY DEF CutCapacity, EdgeCut, ResourceCut, SumFunction
  <1>7. SumFunctionOnSet(Room(S), S) = total
    BY RoomIsTotal
  <1> HIDE DEF X, Y, edges, bs, rs, c
  <1>8. QED
    BY <1>2, <1>3, <1>4, <1>5, <1>6, <1>7 DEF bs, rs

---------------------------------------------------------------------------
(* The answer. *)

\* What residual_reachable returns is a cut.
LEMMA ReachableIsIsolated ==
    ASSUME FlowInv, pc = "decide"
    PROVE  Isolated(ResidualReachable)
  <1> DEFINE Closed(S) == /\ Source \in S
                          /\ \A u \in S, v \in Nodes \ S : residual[<<u, v>>] = 0
             RR == {v \in Nodes : \A S \in SUBSET (Nodes \ {v}) : ~Closed(S)}
             labelled == {v \in Nodes : level[v] >= 0}
  <1>0. FlowTypes /\ Source \in Nodes /\ Sink \in Nodes
    BY NodesFinite DEF FlowInv, FlowTypes
  <1>1. ResidualReachable = RR
    BY DEF ResidualReachable
  <1>2. Source \in RR
    BY <1>0
  <1>3. Sink \notin RR
    <2>1. /\ level[Sink] < 0
          /\ \A u, v \in Nodes : level[u] >= 0 /\ level[v] < 0 => residual[<<u, v>>] = 0
      BY DEF FlowInv, Separated
    <2>2. \A v \in Nodes : level[v] \in Int
      BY <1>0 DEF FlowTypes
    <2>3. Source \in labelled /\ Sink \notin labelled /\ level[Sink] \in Int
      BY <1>0, <2>1, <2>2 DEF FlowTypes
    <2>4. \A v \in Nodes \ labelled : level[v] < 0
      BY <2>2
    <2>5. Closed(labelled)
      BY <2>1, <2>3, <2>4
    <2>6. labelled \in SUBSET (Nodes \ {Sink})
      BY <2>3
    <2>7. QED
      BY <2>5, <2>6
  <1>4. ASSUME NEW u \in RR, NEW v \in Nodes \ RR
        PROVE  residual[<<u, v>>] = 0
    <2>1. PICK S \in SUBSET (Nodes \ {v}) : Closed(S)
      OBVIOUS
    <2>2. u \in S
      BY <2>1
    <2>3. QED
      BY <2>1, <2>2
  <1>5. RR \in SUBSET Nodes
    OBVIOUS
  <1> HIDE DEF RR
  <1>6. QED
    BY <1>1, <1>2, <1>3, <1>4, <1>5 DEF Isolated

LEMMA DecideUnsatKeeps ==
    ASSUME FlowInv, DecideUnsat
    PROVE  FlowInv'
  <1> DEFINE bs == BoxesIn(ResidualReachable)
             rs == ResourcesIn(ResidualReachable)
  <1>0. FlowTypes /\ inst \in Instances /\ ProperInstance(inst)
    BY InstancesAssumption DEF FlowInv, FlowTypes
  <1>1. CutCapacity(inst, bs, rs) = total /\ total < TotalDemand(inst)
    BY ReachableIsIsolated, CutIsTotal DEF DecideUnsat
  <1>2. bs \in SUBSET BoxesOf(inst) /\ rs \in SUBSET ResourcesOf(inst)
    BY DEF BoxesIn, ResourcesIn
  <1> HIDE DEF bs, rs
  <1>3. HallViolator(inst, bs)
    BY <1>0, <1>1, <1>2, CutShowsViolator
  <1>4. answer' = [result |-> IF CutCapacity(inst, bs, rs) # total
                                   \/ CutCapacity(inst, bs, rs) >= TotalDemand(inst)
                                THEN "AssertionError" ELSE "UNSAT",
                   boxes |-> bs, resources |-> rs, cut |-> CutCapacity(inst, bs, rs)]
    BY DEF DecideUnsat, bs, rs, BoxesIn, ResourcesIn
  <1>5. TotalDemand(inst) \in Int /\ total \in Int
    <2>1. /\ TotalDemand(inst) = SumFunctionOnSet(inst.demands, BoxesOf(inst))
          /\ IsFiniteSet(BoxesOf(inst)) /\ \A b \in BoxesOf(inst) : inst.demands[b] \in Int
      BY <1>0 DEF TotalDemand, SumFunction, BoxesOf, ProperInstance
    <2>2. QED
      BY <1>0, <2>1, SumInt DEF FlowTypes
  <1>6. answer'.result = "UNSAT" /\ answer'.boxes = bs /\ answer'.cut = total
    BY <1>1, <1>4, <1>5
  <1>7. UNCHANGED <<inst, residual, level, untried, path, total>> /\ pc' = "done"
        /\ pc = "decide"
    BY DEF DecideUnsat
  <1>N. CutNamed'
    BY <1>2, <1>4, <1>7 DEF CutNamed
  <1>8. Answered'
    BY <1>1, <1>2, <1>3, <1>6, <1>7, <1>N DEF Answered, AnswerIsExplained
  <1>9. FlowTypes' /\ Climbing' /\ Separated'
    BY <1>7 DEF FlowInv, FlowTypes, Climbing, Separated, Nodes
  <1>10. Conserved'
    BY <1>7, NothingPushed
  <1>11. QED
    BY <1>8, <1>9, <1>10 DEF FlowInv

\* Nothing flows where there is no edge either way.
LEMMA NoEdge ==
    ASSUME FlowInv, NEW u \in Nodes, NEW v \in Nodes,
           NetworkCapacity(inst, u, v) = 0, NetworkCapacity(inst, v, u) = 0
    PROVE  Pushed[<<u, v>>] = 0
  <1>1. residual[<<u, v>>] + residual[<<v, u>>]
          = Network(inst)[<<u, v>>] + Network(inst)[<<v, u>>]
    BY DEF FlowInv, Conserved
  <1>2. Network(inst)[<<u, v>>] = 0 /\ Network(inst)[<<v, u>>] = 0
    BY NetworkIs DEF FlowInv, FlowTypes
  <1>3. /\ Pushed[<<u, v>>] = Network(inst)[<<u, v>>] - residual[<<u, v>>]
        /\ residual[<<u, v>>] \in Nat /\ residual[<<v, u>>] \in Nat
    BY PushedFacts
  <1>4. QED
    BY <1>1, <1>2, <1>3

LEMMA PushedUnit ==
    ASSUME FlowInv, NEW b \in BoxesOf(inst), NEW r \in ResourcesOf(inst)
    PROVE  /\ Pushed[<<Box(b), Resource(r)>>] \in {0, 1}
           /\ Pushed[<<Box(b), Resource(r)>>] = 1
                <=> r \in inst.reachable[b] /\ residual[<<Box(b), Resource(r)>>] = 0
  <1> DEFINE u == Box(b)
             v == Resource(r)
  <1>0. inst \in Instances /\ u \in Nodes /\ v \in Nodes
    BY NodeKinds DEF FlowInv, FlowTypes
  <1>1. residual[<<u, v>>] + residual[<<v, u>>]
          = Network(inst)[<<u, v>>] + Network(inst)[<<v, u>>]
    BY <1>0 DEF FlowInv, Conserved
  <1>2. /\ Network(inst)[<<u, v>>] = IF r \in inst.reachable[b] THEN 1 ELSE 0
        /\ Network(inst)[<<v, u>>] = 0
    BY <1>0, NetworkIs, Edges
  <1>3. /\ Pushed[<<u, v>>] = Network(inst)[<<u, v>>] - residual[<<u, v>>]
        /\ residual[<<u, v>>] \in Nat /\ residual[<<v, u>>] \in Nat
    BY <1>0, PushedFacts
  <1> HIDE DEF u, v
  <1>4. /\ Pushed[<<u, v>>] \in {0, 1}
        /\ Pushed[<<u, v>>] = 1 <=> r \in inst.reachable[b] /\ residual[<<u, v>>] = 0
    BY <1>1, <1>2, <1>3
  <1>5. QED
    BY <1>4 DEF u, v

LEMMA Saturated ==
    ASSUME FlowInv, total >= TotalDemand(inst), NEW b \in BoxesOf(inst)
    PROVE  Pushed[<<Source, Box(b)>>] = inst.demands[b]
  <1> DEFINE B == BoxesOf(inst)
             f == Row(Pushed, Source, Nodes)
             g == [a \in B |-> Pushed[<<Source, Box(a)>>]]
             h == [a \in B |-> Box(a)]
             d == inst.demands
  <1>0. /\ inst \in Instances /\ ProperInstance(inst) /\ IsFiniteSet(Nodes) /\ IsFiniteSet(B)
        /\ Source \in Nodes /\ Source # Sink
    BY InstancesAssumption, NodesFinite DEF FlowInv, FlowTypes
  <1>1. SumFunctionOnSet(f, Nodes) = total
    BY <1>0, PushedFacts DEF FlowInv, Conserved
  <1>2. \A v \in Nodes : f[v] \in Int /\ f[v] = Pushed[<<Source, v>>]
    BY <1>0, PushedFacts DEF Row
  <1>3. \A a \in B : h[a] \in Nodes /\ g[a] = f[h[a]]
    BY <1>0, <1>2, NodeKinds
  <1>4. \A a, c \in B : h[a] = h[c] => a = c
    BY Kinds
  <1>5. ASSUME NEW v \in Nodes, \A a \in B : h[a] # v
        PROVE  f[v] = 0
    <2>1. v = Source \/ v = Sink \/ \E r \in ResourcesOf(inst) : v = Resource(r)
      BY <1>0, <1>5, NodeCases
    <2>2. NetworkCapacity(inst, Source, v) = 0 /\ NetworkCapacity(inst, v, Source) = 0
      BY <1>0, <2>1, Edges
    <2>3. QED
      BY <1>0, <1>2, <2>2, NoEdge
  <1>6. SumFunctionOnSet(f, Nodes) = SumFunctionOnSet(g, B)
    <2> HIDE DEF f, g, h, B
    <2>1. Renames(f, Nodes, g, B, h)
      BY <1>2, <1>3, <1>4, <1>5 DEF Renames
    <2>2. QED
      BY <1>0, <2>1, SumRenamed
  <1>7. ASSUME NEW a \in B
        PROVE  g[a] \in Int /\ d[a] \in Int /\ g[a] <= d[a]
    <2>1. Box(a) \in Nodes
      BY <1>0, NodeKinds
    <2>2. Network(inst)[<<Source, Box(a)>>] = d[a]
      BY <1>0, <2>1, NetworkIs, Edges
    <2>3. /\ Pushed[<<Source, Box(a)>>] = Network(inst)[<<Source, Box(a)>>] - residual[<<Source, Box(a)>>]
          /\ residual[<<Source, Box(a)>>] \in Nat /\ Network(inst)[<<Source, Box(a)>>] \in Nat
      BY <1>0, <2>1, PushedFacts
    <2>4. QED
      BY <2>2, <2>3
  <1>8. TotalDemand(inst) = SumFunctionOnSet(d, B)
    BY DEF TotalDemand, SumFunction, BoxesOf
  <1>9. g[b] = d[b]
    <2>1. SumFunctionOnSet(g, B) >= SumFunctionOnSet(d, B)
      BY <1>1, <1>6, <1>8
    <2>2. b \in B
      OBVIOUS
    <2> HIDE DEF g, B, d
    <2>3. QED
      BY <1>0, <1>7, <2>1, <2>2, SumTight
  <1>10. QED
    BY <1>9

\* The resources that a box draws a unit from.
Drawn(b) == {r \in inst.reachable[b] : residual[<<Box(b), Resource(r)>>] = 0}

LEMMA BoxIsServed ==
    ASSUME FlowInv, NEW b \in BoxesOf(inst), Pushed[<<Source, Box(b)>>] = inst.demands[b]
    PROVE  Cardinality(Drawn(b)) = inst.demands[b]
  <1> DEFINE R == ResourcesOf(inst)
             N == Nodes \ {Source}
             f == Row(Pushed, Box(b), Nodes)
             g == [r \in R |-> Pushed[<<Box(b), Resource(r)>>]]
             h == [r \in R |-> Resource(r)]
  <1>0. /\ inst \in Instances /\ ProperInstance(inst) /\ IsFiniteSet(Nodes) /\ IsFiniteSet(R)
        /\ Source \in Nodes /\ Box(b) \in Nodes /\ Box(b) # Source /\ Box(b) # Sink
        /\ IsFiniteSet(N)
    BY InstancesAssumption, NodesFinite, NodeKinds, Kinds, FS_Subset DEF FlowInv, FlowTypes
  <1>1. SumFunctionOnSet(f, Nodes) = 0
    BY <1>0, PushedFacts DEF FlowInv, Conserved
  <1>2. \A v \in Nodes : f[v] \in Int /\ f[v] = Pushed[<<Box(b), v>>]
    BY <1>0, PushedFacts DEF Row
  <1>3. f[Source] = -inst.demands[b] /\ f[Source] \in Int
    BY <1>0, <1>2, PushedFacts
  <1>4. \A r \in R : h[r] \in N /\ g[r] = f[h[r]]
    BY <1>0, <1>2, NodeKinds, Kinds
  <1>5. \A r, q \in R : h[r] = h[q] => r = q
    BY Kinds
  <1>6. ASSUME NEW v \in N, \A r \in R : h[r] # v
        PROVE  f[v] = 0
    <2>1. v = Sink \/ \E c \in BoxesOf(inst) : v = Box(c)
      BY <1>0, <1>6, NodeCases
    <2>2. NetworkCapacity(inst, Box(b), v) = 0 /\ NetworkCapacity(inst, v, Box(b)) = 0
      BY <1>0, <2>1, Edges
    <2>3. QED
      BY <1>0, <1>2, <2>2, NoEdge
  <1>7. SumFunctionOnSet(f, N) = SumFunctionOnSet(g, R)
    <2> HIDE DEF f, g, h, R
    <2>1. Renames(f, N, g, R, h)
      BY <1>2, <1>4, <1>5, <1>6 DEF Renames
    <2>2. QED
      BY <1>0, <2>1, SumRenamed
  <1>8. SumFunctionOnSet(f, Nodes) = f[Source] + SumFunctionOnSet(f, N)
    <2>1. {Source} \in SUBSET Nodes /\ \A v \in Nodes : f[v] \in Int
      BY <1>0, <1>2
    <2> HIDE DEF f
    <2>2. SumFunctionOnSet(f, Nodes)
            = SumFunctionOnSet(f, {Source}) + SumFunctionOnSet(f, Nodes \ {Source})
      BY <1>0, <2>1, SumSplit
    <2>3. SumFunctionOnSet(f, {Source}) = f[Source]
      BY <1>3, SumSingle
    <2>4. QED
      BY <2>2, <2>3
  <1>9. SumFunctionOnSet(g, R) = Cardinality({r \in R : g[r] = 1})
    <2>1. \A r \in R : g[r] \in {0, 1}
      BY PushedUnit
    <2> HIDE DEF g, R
    <2>2. QED
      BY <1>0, <2>1, SumCounts
  <1>10. {r \in R : g[r] = 1} = Drawn(b)
    <2>1. inst.reachable[b] \subseteq R
      BY <1>0 DEF ProperInstance
    <2>2. QED
      BY <2>1, PushedUnit DEF Drawn
  <1>11. Cardinality(Drawn(b)) \in Int /\ inst.demands[b] \in Int
    <2>1. IsFiniteSet(Drawn(b))
      BY <1>0, <1>10, FS_Subset
    <2>2. QED
      BY <1>0, <2>1, FS_CardinalityType DEF ProperInstance
  <1> HIDE DEF f, g, h, R, N
  <1>12. 0 = -inst.demands[b] + Cardinality(Drawn(b))
    BY <1>1, <1>3, <1>7, <1>8, <1>9, <1>10
  <1>13. QED
    BY <1>11, <1>12

LEMMA ResourceIsNotOverdrawn ==
    ASSUME FlowInv, NEW r \in ResourcesOf(inst)
    PROVE  Cardinality({b \in BoxesOf(inst) : r \in Drawn(b)}) <= inst.capacities[r]
  <1> DEFINE B == BoxesOf(inst)
             N == Nodes \ {Sink}
             f == Row(Pushed, Resource(r), Nodes)
             back == [b \in B |-> Pushed[<<Resource(r), Box(b)>>]]
             g == [b \in B |-> Pushed[<<Box(b), Resource(r)>>]]
             zero == [b \in B |-> 0]
             h == [b \in B |-> Box(b)]
  <1>0. /\ inst \in Instances /\ ProperInstance(inst) /\ IsFiniteSet(Nodes) /\ IsFiniteSet(B)
        /\ Sink \in Nodes /\ Resource(r) \in Nodes /\ Resource(r) # Source /\ Resource(r) # Sink
        /\ IsFiniteSet(N) /\ \A b \in B : Box(b) \in Nodes
    BY InstancesAssumption, NodesFinite, NodeKinds, Kinds, FS_Subset DEF FlowInv, FlowTypes
  <1>1. SumFunctionOnSet(f, Nodes) = 0
    BY <1>0, PushedFacts DEF FlowInv, Conserved
  <1>2. \A v \in Nodes : f[v] \in Int /\ f[v] = Pushed[<<Resource(r), v>>]
    BY <1>0, PushedFacts DEF Row
  <1>3. f[Sink] <= inst.capacities[r] /\ f[Sink] \in Int /\ inst.capacities[r] \in Int
    <2>1. Network(inst)[<<Resource(r), Sink>>] = inst.capacities[r]
      BY <1>0, NetworkIs, Edges
    <2>2. /\ f[Sink] = Network(inst)[<<Resource(r), Sink>>] - residual[<<Resource(r), Sink>>]
          /\ residual[<<Resource(r), Sink>>] \in Nat
          /\ Network(inst)[<<Resource(r), Sink>>] \in Nat
      BY <1>0, <1>2, PushedFacts
    <2>3. QED
      BY <2>1, <2>2
  <1>4. \A b \in B : h[b] \in N /\ back[b] = f[h[b]]
    BY <1>0, <1>2, Kinds
  <1>5. \A a, b \in B : h[a] = h[b] => a = b
    BY Kinds
  <1>6. ASSUME NEW v \in N, \A b \in B : h[b] # v
        PROVE  f[v] = 0
    <2>1. v = Source \/ \E q \in ResourcesOf(inst) : v = Resource(q)
      BY <1>0, <1>6, NodeCases
    <2>2. NetworkCapacity(inst, Resource(r), v) = 0 /\ NetworkCapacity(inst, v, Resource(r)) = 0
      BY <1>0, <2>1, Edges
    <2>3. QED
      BY <1>0, <1>2, <2>2, NoEdge
  <1>7. SumFunctionOnSet(f, N) = SumFunctionOnSet(back, B)
    <2> HIDE DEF f, back, h, B
    <2>1. Renames(f, N, back, B, h)
      BY <1>2, <1>4, <1>5, <1>6 DEF Renames
    <2>2. QED
      BY <1>0, <2>1, SumRenamed
  <1>8. SumFunctionOnSet(f, Nodes) = f[Sink] + SumFunctionOnSet(f, N)
    <2>1. {Sink} \in SUBSET Nodes /\ \A v \in Nodes : f[v] \in Int
      BY <1>0, <1>2
    <2> HIDE DEF f
    <2>2. SumFunctionOnSet(f, Nodes)
            = SumFunctionOnSet(f, {Sink}) + SumFunctionOnSet(f, Nodes \ {Sink})
      BY <1>0, <2>1, SumSplit
    <2>3. SumFunctionOnSet(f, {Sink}) = f[Sink]
      BY <1>3, SumSingle
    <2>4. QED
      BY <2>2, <2>3
  <1>9. /\ SumFunctionOnSet(zero, B) = SumFunctionOnSet(back, B) + SumFunctionOnSet(g, B)
        /\ SumFunctionOnSet(zero, B) = 0
        /\ SumFunctionOnSet(back, B) \in Int /\ SumFunctionOnSet(g, B) \in Int
    <2>1. \A b \in B : back[b] \in Int /\ g[b] \in Int /\ back[b] = -g[b]
      BY <1>0, PushedFacts
    <2>2. \A b \in B : zero[b] = 0 /\ zero[b] \in Int /\ zero[b] = back[b] + g[b]
      BY <2>1
    <2> HIDE DEF zero, back, g, B
    <2>3. SumFunctionOnSet(zero, B) = SumFunctionOnSet(zero, {})
      BY <1>0, <2>2, SumSupport
    <2>4. QED
      BY <1>0, <2>1, <2>2, <2>3, SumOfSum, SumInt, SumEmpty
  <1>10. SumFunctionOnSet(g, B) = Cardinality({b \in B : g[b] = 1})
    <2>1. \A b \in B : g[b] \in {0, 1}
      BY PushedUnit
    <2> HIDE DEF g, B
    <2>2. QED
      BY <1>0, <2>1, SumCounts
  <1>11. {b \in B : g[b] = 1} = {b \in B : r \in Drawn(b)}
    BY PushedUnit DEF Drawn
  <1> DEFINE load == Cardinality({b \in B : r \in Drawn(b)})
  <1>12. load = SumFunctionOnSet(g, B)
    BY <1>10, <1>11
  <1> HIDE DEF f, g, back, zero, h, N, load
  <1>13. load <= inst.capacities[r]
    BY <1>1, <1>3, <1>7, <1>8, <1>9, <1>12
  <1>14. QED
    BY <1>13 DEF load

LEMMA DecideFeasibleKeeps ==
    ASSUME FlowInv, DecideFeasible
    PROVE  FlowInv'
  <1> DEFINE alloc == [b \in BoxesOf(inst) |->
                         {r \in inst.reachable[b] : residual[<<Box(b), Resource(r)>>] = 0}]
  <1>1. \A b \in BoxesOf(inst) : alloc[b] = Drawn(b)
    BY DEF Drawn
  <1>2. \A b \in BoxesOf(inst) : Cardinality(Drawn(b)) = inst.demands[b]
    BY Saturated, BoxIsServed DEF DecideFeasible
  <1>3. ASSUME NEW r \in ResourcesOf(inst)
        PROVE  Cardinality({b \in BoxesOf(inst) : r \in alloc[b]}) <= inst.capacities[r]
    <2>1. {b \in BoxesOf(inst) : r \in alloc[b]} = {b \in BoxesOf(inst) : r \in Drawn(b)}
      BY <1>1
    <2>2. QED
      BY <2>1, ResourceIsNotOverdrawn
  <1>4. \A b \in BoxesOf(inst) : alloc[b] \subseteq inst.reachable[b]
    OBVIOUS
  <1>5. Allocation(inst, alloc)
    <2> HIDE DEF alloc
    <2>1. QED
      BY <1>1, <1>2, <1>3, <1>4 DEF Allocation
  <1>6. UNCHANGED <<inst, residual, level, untried, path, total>> /\ pc' = "done"
        /\ pc = "decide" /\ answer'.result = "FEASIBLE" /\ answer'.boxes = {}
    BY DEF DecideFeasible, Undecided
  <1>7. alloc' = alloc
    BY <1>6
  <1>8. Allocation(inst', alloc')
    BY <1>5, <1>6, <1>7
  <1>9. AnswerIsExplained'
    BY <1>6, <1>8 DEF AnswerIsExplained
  <1>10. Answered'
    BY <1>6, <1>9 DEF Answered, CutNamed
  <1>11. FlowTypes' /\ Climbing' /\ Separated'
    BY <1>6 DEF FlowInv, FlowTypes, Climbing, Separated, Nodes
  <1>12. Conserved'
    BY <1>6, NothingPushed
  <1>13. QED
    BY <1>10, <1>11, <1>12 DEF FlowInv

---------------------------------------------------------------------------
(* The theorems. *)

LEMMA FlowNext == FlowInv /\ [Next]_flowVars => FlowInv'
  <1> SUFFICES ASSUME FlowInv, [Next]_flowVars PROVE FlowInv'
    OBVIOUS
  <1>1. CASE UNCHANGED flowVars \/ Done
    <2>1. UNCHANGED flowVars
      BY <1>1 DEF Done
    <2>2. FlowTypes' /\ Climbing' /\ Separated'
      BY <2>1 DEF FlowInv, FlowTypes, Climbing, Separated, Nodes, flowVars
    <2>3. Conserved'
      BY <2>1, NothingPushed DEF flowVars
    <2>4. Answered'
      BY <2>1 DEF FlowInv, Answered, AnswerIsExplained, CutNamed, flowVars
    <2>5. QED
      BY <2>2, <2>3, <2>4 DEF FlowInv
  <1>2. QED
    BY <1>1, WidenKeeps, StartPhaseKeeps, MaximumReachedKeeps, DescendKeeps, RetreatKeeps,
       EndPhaseKeeps, AugmentKeeps, DecideFeasibleKeeps, DecideUnsatKeeps DEF Next

LEMMA AlwaysFlowInv == Spec => []FlowInv
  BY FlowInit, FlowNext, PTL DEF Spec

(* The answer of flow_box_test comes with its reason, for every instance    *)
(* it accepts and every order of the adjacency lists: the boxes of an UNSAT *)
(* witness are a Hall violator, and its cut is the flow that was found; a   *)
(* FEASIBLE answer has an allocation, the saturated edges.                  *)
THEOREM FlowExplains == Spec => []AnswerIsExplained
  <1>1. FlowInv => AnswerIsExplained
    BY DEF FlowInv, Answered
  <1>2. QED
    BY <1>1, AlwaysFlowInv, PTL

(* flow_box_test answers what exhaustive_box_test answers, which tries all  *)
(* sets of boxes.                                                           *)
THEOREM FlowAgrees == Spec => []AgreesWithOracle
  <1>1. ASSUME FlowInv
        PROVE  AgreesWithOracle
    <2> SUFFICES ASSUME pc = "done"
                 PROVE  answer.result = ExhaustiveBoxTest(inst)
      BY DEF AgreesWithOracle
    <2>1. /\ inst \in Instances /\ ProperInstance(inst)
          /\ answer.result \in {"UNSAT", "FEASIBLE"} /\ AnswerIsExplained
      BY <1>1, InstancesAssumption DEF FlowInv, FlowTypes, Answered
    <2>2. CASE answer.result = "FEASIBLE"
      <3>1. PICK alloc : Allocation(inst, alloc)
        BY <2>1, <2>2 DEF AnswerIsExplained
      <3>2. \A bs \in SUBSET BoxesOf(inst) : ~HallViolator(inst, bs)
        BY <2>1, <3>1, AllocationMeetsHall
      <3>3. QED
        BY <2>2, <3>2 DEF ExhaustiveBoxTest
    <2>3. CASE answer.result = "UNSAT"
      <3>1. HallViolator(inst, answer.boxes) /\ answer.boxes # {}
        BY <2>1, <2>3, EmptyIsNoViolator DEF AnswerIsExplained
      <3>2. answer.boxes \in SUBSET BoxesOf(inst)
        BY <1>1 DEF FlowInv, Answered
      <3>3. QED
        <4>1. answer.boxes \in (SUBSET BoxesOf(inst)) \ {{}}
          BY <3>1, <3>2
        <4>2. QED
          BY <2>3, <3>1, <4>1 DEF ExhaustiveBoxTest
    <2>4. QED
      BY <2>1, <2>2, <2>3
  <1>2. QED
    BY <1>1, AlwaysFlowInv, PTL
=============================================================================
