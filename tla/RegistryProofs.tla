--------------------------- MODULE RegistryProofs ---------------------------
(***************************************************************************)
(* Theorems about the registry engines, for every clause database, budget  *)
(* and largest capacity: what they select holds in every model, and an     *)
(* infeasible capacity instance built from it refutes the database.        *)
(***************************************************************************)
EXTENDS Registries, BasicLemmas

---------------------------------------------------------------------------
(* The inductive invariant. *)

VariableSet(g) == IsFiniteSet(g) /\ g \subseteq Nat \ {0}

BoxRecord == [group : SUBSET Int, demand : Int]
ResourceRecord == [group : SUBSET Int, capacity : Int]

\* A family whose clauses are all among F.
IsExactBox(F, f) ==
    /\ f \in BoxRecord
    /\ VariableSet(f.group)
    /\ f.demand \in 1 .. Cardinality(f.group) - 1
    /\ ExactFamily(f.group, f.demand) \subseteq F

\* A positive clause of F, as a box.
IsLowerBox(F, f) ==
    /\ f \in BoxRecord
    /\ VariableSet(f.group)
    /\ f.demand = 1
    /\ f.group \in F

\* A group of variables of distinct boxes.
AcrossBoxes(bs, g) ==
    /\ VariableSet(g)
    /\ \A v \in g : \E b \in DOMAIN bs : v \in bs[b].group
    /\ \A b \in DOMAIN bs : \A v, w \in g \cap bs[b].group : v = w

IsResource(F, bs, f) ==
    /\ f \in ResourceRecord
    /\ AcrossBoxes(bs, f.group)
    /\ f.capacity \in Nat
    /\ Combinations(f.group, f.capacity + 1, -1) \subseteq F

RegTyped ==
    /\ recovery \in Databases
    /\ pair \in Nat /\ size \in Nat \ {0}
    /\ boxes \in Seq(BoxRecord)
    /\ resources \in Seq(ResourceRecord)

\* No resources are looked for before the boxes are placed, and none is
\* selected before all are found.
Ordered ==
    /\ pc = "pairs" => boxes = <<>>
    /\ pc = "placing" => candidates = {}
    /\ pc \in {"pairs", "boxes", "placing"} => families = {}
    /\ pc \notin {"resources", "done"} => resources = <<>>

BoxesInv ==
    /\ \A f \in candidates : IsExactBox(Clauses, f)
    /\ \A b \in DOMAIN boxes : IsExactBox(Clauses, boxes[b]) \/ IsLowerBox(Clauses, boxes[b])

ResourcesInv ==
    /\ pc \in {"edges", "grow"} => \A e \in untried : AcrossBoxes(boxes, e)
    /\ pc = "grow" => AcrossBoxes(boxes, group)
    /\ \A f \in families : IsResource(Clauses, boxes, f)
    /\ \A r \in DOMAIN resources : IsResource(Clauses, boxes, resources[r])

\* What is selected overlaps nothing selected before it nor any candidate
\* that is left.
Disjoint(selected, remaining) ==
    /\ \A i, j \in DOMAIN selected :
         i # j => selected[i].group \cap selected[j].group = {}
    /\ \A i \in DOMAIN selected : \A f \in remaining : selected[i].group \cap f.group = {}

Apart == Disjoint(boxes, candidates) /\ Disjoint(resources, families)

Covered == outcome[1] = "COMPLETE" => pc = "done" /\ Boxed = Resourced

RegistryInv ==
    RegTyped /\ Ordered /\ BoxesInv /\ ResourcesInv /\ Apart /\ Covered

\* Only boxes placed after the exact ones, by the indexed search, are
\* one-sided.
SidedInv ==
    /\ exact \in Nat /\ exact <= Len(boxes)
    /\ \A b \in DOMAIN boxes :
         IsExactBox(Clauses, boxes[b]) \/ (OneSidedBox(b) /\ pc # "boxes")

---------------------------------------------------------------------------
(* The lists of positive and negative clauses. *)

(* Every list of ids has as many members as it counts: the number of ids   *)
(* up to one of them is a rank, and no two ids have the same.              *)
LEMMA NthIsThere ==
    ASSUME NEW ids, IsFiniteSet(ids), ids \subseteq Int, NEW n \in 1 .. Cardinality(ids)
    PROVE  Nth(ids, n) \in ids
  <1> DEFINE Upto(k) == {j \in ids : j <= k}
             N == Cardinality(ids)
             rank == [k \in ids |-> Cardinality(Upto(k))]
  <1>1. N \in Nat /\ IsFiniteSet(1 .. N) /\ Cardinality(1 .. N) = N
    <2>1. N \in Nat
      BY FS_CardinalityType
    <2> HIDE DEF N
    <2>2. QED
      BY <2>1, FS_Interval
  <1>2. ASSUME NEW k \in ids
        PROVE  IsFiniteSet(Upto(k)) /\ Cardinality(Upto(k)) \in 1 .. N
    <2>1. IsFiniteSet(Upto(k)) /\ Cardinality(Upto(k)) <= N
      BY FS_Subset
    <2>2. k \in Upto(k)
      OBVIOUS
    <2>3. Cardinality(Upto(k)) \in Nat /\ Cardinality(Upto(k)) # 0
      BY <2>1, <2>2, FS_EmptySet, FS_CardinalityType
    <2>4. QED
      BY <1>1, <2>1, <2>3
  <1>3. ASSUME NEW k \in ids, NEW m \in ids, rank[k] = rank[m], k < m
        PROVE  FALSE
    <2>0. k \in Int /\ m \in Int /\ k < m
      BY <1>3
    <2>1. Upto(k) \in SUBSET Upto(m) /\ m \in Upto(m) /\ m \notin Upto(k)
      <3>1. \A j \in ids : j \in Int /\ (j <= k => j <= m)
        BY <2>0
      <3>2. Upto(k) \in SUBSET Upto(m)
        BY <3>1
      <3>3. m \in Upto(m)
        BY <2>0
      <3>4. m \notin Upto(k)
        BY <2>0
      <3>5. QED
        BY <3>2, <3>3, <3>4
    <2>2. Cardinality(Upto(k)) = Cardinality(Upto(m))
      BY <1>3
    <2> HIDE DEF Upto
    <2>3. Upto(m) = Upto(k)
      BY <1>2, <2>1, <2>2, FS_Subset
    <2>4. QED
      BY <2>1, <2>3
  <1>4. rank \in Injection(ids, 1 .. N)
    <2>1. \A k, m \in ids : rank[k] = rank[m] => k = m
      <3> SUFFICES ASSUME NEW k \in ids, NEW m \in ids, rank[k] = rank[m], k # m
                   PROVE  FALSE
        OBVIOUS
      <3>1. k < m \/ m < k
        OBVIOUS
      <3> HIDE DEF rank
      <3>2. QED
        BY <1>3, <3>1
    <2>2. rank \in [ids -> 1 .. N]
      BY <1>2
    <2>3. QED
      BY <2>1, <2>2 DEF Injection, IsInjective
  <1>5. rank \in Surjection(ids, 1 .. N)
    <2> HIDE DEF rank, N
    <2>1. QED
      BY <1>1, <1>4, FS_Injection DEF N
  <1>6. PICK k \in ids : rank[k] = n
    BY <1>5 DEF Surjection
  <1>7. Cardinality(Upto(k)) = n
    BY <1>6
  <1>8. QED
    BY <1>7 DEF Nth

(* The database is a list of clauses. *)
LEMMA DatabaseTyped ==
    ASSUME RegTyped
    PROVE  /\ recovery.clauses \in Seq(LiteralSet)
           /\ IsFiniteSet(Positives) /\ Positives \subseteq DOMAIN recovery.clauses
           /\ IsFiniteSet(Negatives) /\ Negatives \subseteq DOMAIN recovery.clauses
           /\ DOMAIN recovery.clauses \subseteq Nat
           /\ Clauses \subseteq LiteralSet
  <1>1. recovery.clauses \in Seq(LiteralSet)
    BY DatabasesAssumption DEF RegTyped
  <1>2. DOMAIN recovery.clauses = 1 .. Len(recovery.clauses) /\ Len(recovery.clauses) \in Nat
    BY <1>1
  <1>3. IsFiniteSet(DOMAIN recovery.clauses)
    BY <1>2, FS_Interval
  <1>4. Positives \in SUBSET DOMAIN recovery.clauses /\ Negatives \in SUBSET DOMAIN recovery.clauses
    BY DEF Positives, Negatives
  <1>5. QED
    BY <1>1, <1>2, <1>3, <1>4, FS_Subset DEF Clauses, ClausesOf

(* The variables of a clause. *)
LEMMA VariablesOfClause ==
    ASSUME NEW C \in LiteralSet
    PROVE  VariableSet(VariablesOf(C))
  <1> DEFINE h == [l \in C |-> Variable(l)]
  <1>1. IsFiniteSet(C) /\ C \subseteq Literal
    BY DEF LiteralSet
  <1>2. IsFiniteSet({h[l] : l \in C})
    BY <1>1, ImageFinite
  <1>3. {h[l] : l \in C} = VariablesOf(C)
    BY DEF VariablesOf
  <1>4. VariablesOf(C) \subseteq Nat \ {0}
    BY <1>1 DEF VariablesOf, Variable, Literal
  <1>5. QED
    BY <1>2, <1>3, <1>4 DEF VariableSet

(* A scanned pair is one of clauses: the quotient and the remainder of the *)
(* pair's number are in the two lists.                                     *)
LEMMA PairIsThere ==
    ASSUME RegTyped, Scanning
    PROVE  Positive \in LiteralSet /\ Negative \in LiteralSet
  <1> DEFINE p == Cardinality(Positives)
             n == Cardinality(Negatives)
             q == pair \div n
             r == pair % n
  <1>1. p \in Nat /\ n \in Nat /\ pair \in Nat /\ pair < p * n
    BY DatabaseTyped, FS_CardinalityType DEF RegTyped, Scanning
  <1> HIDE DEF p, n
  <1>2. n # 0
    BY <1>1
  <1>3. r \in 0 .. n - 1 /\ q \in Int /\ pair = n * q + r
    BY <1>1, <1>2
  <1> HIDE DEF q, r
  <1>4. q >= 0 /\ q < p
    <2>1. CASE q < 0
      <3>1. n * q <= -n
        BY <1>1, <1>2, <1>3, <2>1
      <3>2. QED
        BY <1>1, <1>3, <3>1
    <2>2. CASE q >= p
      <3>1. n * q >= n * p
        BY <1>1, <1>2, <1>3, <2>2
      <3>2. QED
        BY <1>1, <1>3, <3>1
    <2>3. QED
      BY <1>1, <1>3, <2>1, <2>2
  <1>5. 1 + q \in 1 .. p /\ 1 + r \in 1 .. n
    BY <1>1, <1>2, <1>3, <1>4
  <1>6. Nth(Positives, 1 + q) \in Positives /\ Nth(Negatives, 1 + r) \in Negatives
    BY <1>5, DatabaseTyped, NthIsThere DEF p, n
  <1>7. QED
    BY <1>6, DatabaseTyped DEF Positive, Negative, p, n, q, r

LEMMA CurrentIsThere ==
    ASSUME RegTyped, pair < Cardinality(Positives)
    PROVE  Current \in Clauses /\ Current \in LiteralSet /\ Monotone(1, Current)
  <1>1. pair + 1 \in 1 .. Cardinality(Positives)
    BY DatabaseTyped, FS_CardinalityType DEF RegTyped
  <1>2. Nth(Positives, pair + 1) \in Positives
    BY <1>1, DatabaseTyped, NthIsThere
  <1>3. QED
    BY <1>2, DatabaseTyped DEF Current, Positives, Clauses, ClausesOf

---------------------------------------------------------------------------
(* Groups over distinct boxes. *)

(* A variable is in one box. *)
LEMMA BoxOfIs ==
    ASSUME Apart, NEW b \in DOMAIN boxes, NEW v \in boxes[b].group
    PROVE  BoxOf(v) = b
  BY DEF Apart, Disjoint, BoxOf

(* A clause that is an edge have as many boxes as variables, so no box twice. *)
LEMMA EdgeIsAcross ==
    ASSUME RegTyped, Apart, NEW k, NEW e \in Edges(k)
    PROVE  AcrossBoxes(boxes, e)
  <1>1. PICK C \in Clauses : Monotone(-1, C) /\ Cardinality(C) = k /\ e = VariablesOf(C)
    BY DEF Edges
  <1>2. e \subseteq Boxed /\ Cardinality({BoxOf(v) : v \in e}) = k
    BY DEF Edges
  <1>3. C \in LiteralSet /\ IsFiniteSet(C) /\ C \subseteq Int
    BY <1>1, DatabaseTyped DEF LiteralSet, Literal
  <1>4. VariableSet(e)
    BY <1>1, <1>3, VariablesOfClause
  <1>5. Cardinality(e) = k
    <2> DEFINE h == [l \in C |-> -l]
    <2>1. \A l \in C : l \in Int /\ l < 0 /\ Variable(l) = -l
      BY <1>1, <1>3 DEF Monotone, Variable
    <2>2. h \in Bijection(C, e)
      <3>1. h \in [C -> e] /\ \A v \in e : \E l \in C : h[l] = v
        BY <1>1, <2>1 DEF VariablesOf
      <3>2. \A l, m \in C : h[l] = h[m] => l = m
        BY <2>1
      <3> HIDE DEF h
      <3>3. QED
        BY <3>1, <3>2 DEF Bijection, Injection, IsInjective, Surjection
    <2>3. QED
      BY <1>1, <1>3, <2>2, FS_Bijection DEF ExistsBijection
  <1> DEFINE I == {BoxOf(v) : v \in e}
             f == [v \in e |-> BoxOf(v)]
  <1>6. f \in Surjection(e, I)
    BY DEF Surjection
  <1>7. \A v, w \in e : f[v] = f[w] => v = w
    <2>1. IsFiniteSet(e) /\ Cardinality(e) = Cardinality(I)
      BY <1>2, <1>4, <1>5 DEF VariableSet
    <2> HIDE DEF f, I
    <2>2. f \in Injection(e, I)
      BY <1>6, <2>1, FS_SurjSameCardinalityImpliesInj
    <2>3. QED
      BY <2>2 DEF Injection, IsInjective
  <1>8. \A b \in DOMAIN boxes : \A v, w \in e \cap boxes[b].group : v = w
    BY <1>7, BoxOfIs
  <1>9. QED
    BY <1>2, <1>4, <1>8 DEF AcrossBoxes, Boxed

(* The boxes take finitely many variables. *)
LEMMA BoxedIsFinite ==
    ASSUME RegTyped, BoxesInv
    PROVE  IsFiniteSet(Boxed) /\ Boxed \subseteq Int
  <1> DEFINE F == [b \in DOMAIN boxes |-> boxes[b].group]
  <1>1. DOMAIN boxes = 1 .. Len(boxes) /\ Len(boxes) \in Nat
    BY DEF RegTyped
  <1>2. IsFiniteSet(DOMAIN boxes)
    BY <1>1, FS_Interval
  <1>3. \A b \in DOMAIN boxes : VariableSet(boxes[b].group)
    BY DEF BoxesInv, IsExactBox, IsLowerBox
  <1>4. \A b \in DOMAIN boxes : IsFiniteSet(F[b])
    BY <1>3 DEF VariableSet
  <1>5. IsFiniteSet(UNION {F[b] : b \in DOMAIN boxes})
    <2> HIDE DEF F
    <2>1. QED
      BY <1>2, <1>4, UnionIsBounded
  <1>6. UNION {F[b] : b \in DOMAIN boxes} = Boxed
    BY DEF Boxed
  <1>7. \A v \in Boxed : v \in Int
    BY <1>3 DEF Boxed, VariableSet
  <1>8. QED
    BY <1>5, <1>6, <1>7

(* A vertex that may join a group is in a box none of the group is in.     *)
LEMMA JoinsAcross ==
    ASSUME RegTyped, BoxesInv, Apart, AcrossBoxes(boxes, group),
           NEW some, some \subseteq Eligible, some # {}
    PROVE  AcrossBoxes(boxes, group \cup {Min(some)})
  <1> DEFINE v == Min(some)
  <1>1. Eligible \subseteq Boxed
    BY DEF Eligible, Edges
  <1>2. IsFiniteSet(some) /\ some \subseteq Int
    BY <1>1, BoxedIsFinite, FS_Subset
  <1>3. v \in Eligible /\ v \in Boxed
    BY <1>1, <1>2, MinIsThere
  <1> HIDE DEF v
  <1>4. VariableSet(group \cup {v})
    <2>1. IsFiniteSet(group \cup {v})
      BY FS_AddElement DEF AcrossBoxes, VariableSet
    <2>2. v \in Nat \ {0}
      BY <1>3 DEF Boxed, BoxesInv, IsExactBox, IsLowerBox, VariableSet
    <2>3. QED
      BY <2>1, <2>2 DEF AcrossBoxes, VariableSet
  <1>5. ASSUME NEW b \in DOMAIN boxes, NEW w \in group,
               v \in boxes[b].group, w \in boxes[b].group
        PROVE  FALSE
    BY <1>3, <1>5, BoxOfIs DEF Eligible
  <1>6. QED
    BY <1>3, <1>4, <1>5 DEF AcrossBoxes, Boxed, v

---------------------------------------------------------------------------
(* The steps. *)

(* A step that selects nothing and finds nothing. *)
LEMMA QuietStep ==
    ASSUME RegistryInv,
           UNCHANGED <<recovery, candidates, boxes, untried, group, families, resources>>,
           pair' \in Nat, size' \in Nat \ {0},
           \/ pc' = pc
           \/ pc = "pairs" /\ pc' = "boxes"
           \/ pc \in {"boxes", "placing", "edges"} /\ pc' = "sizes"
           \/ pc' \in {"resources", "done"},
           outcome'[1] = "COMPLETE" => pc' = "done" /\ Boxed = Resourced
    PROVE  RegistryInv'
  <1> USE DEF RegistryInv
  <1>1. Clauses' = Clauses
    BY DEF Clauses
  <1>2. RegTyped'
    BY DEF RegTyped
  <1>3. Ordered'
    BY DEF Ordered
  <1>4. BoxesInv'
    BY <1>1 DEF BoxesInv
  <1>5. ResourcesInv'
    BY <1>1 DEF ResourcesInv
  <1>6. Apart'
    BY DEF Apart
  <1>7. Covered'
    BY DEF Covered, Boxed, Resourced
  <1>8. QED
    BY <1>2, <1>3, <1>4, <1>5, <1>6, <1>7

(* A step of the scan or the search that only adds candidates. *)
LEMMA CandidateStep ==
    ASSUME RegistryInv, pc = "pairs",
           UNCHANGED <<recovery, pc, boxes, size, untried, group, families, resources,
                       outcome>>,
           pair' \in Nat,
           \A f \in candidates' : f \in candidates \/ IsExactBox(Clauses, f)
    PROVE  RegistryInv'
  <1> USE DEF RegistryInv
  <1>1. Clauses' = Clauses
    BY DEF Clauses
  <1>2. boxes = <<>> /\ resources = <<>> /\ families = {}
    BY DEF Ordered
  <1>3. RegTyped' /\ Ordered'
    BY DEF RegTyped, Ordered
  <1>4. BoxesInv'
    BY <1>1, <1>2 DEF BoxesInv
  <1>5. ResourcesInv' /\ Apart' /\ Covered'
    BY <1>1, <1>2 DEF ResourcesInv, Apart, Disjoint, Covered
  <1>6. QED
    BY <1>3, <1>4, <1>5

(* A step that grows groups into resources. *)
LEMMA GrowthStep ==
    ASSUME RegistryInv, pc \in {"sizes", "edges", "grow"}, pc' \in {"edges", "grow", "resources"},
           UNCHANGED <<recovery, pair, candidates, boxes, resources, outcome>>,
           size' \in Nat \ {0},
           \A e \in untried' : AcrossBoxes(boxes, e),
           pc' = "grow" => AcrossBoxes(boxes, group'),
           \A f \in families' : f \in families \/ IsResource(Clauses, boxes, f)
    PROVE  RegistryInv'
  <1> USE DEF RegistryInv
  <1>1. Clauses' = Clauses
    BY DEF Clauses
  <1>2. resources = <<>>
    BY DEF Ordered
  <1>3. RegTyped' /\ Ordered'
    BY DEF RegTyped, Ordered
  <1>4. BoxesInv'
    BY <1>1 DEF BoxesInv
  <1>5. ResourcesInv'
    BY <1>1, <1>2 DEF ResourcesInv
  <1>6. Apart' /\ Covered'
    BY <1>2 DEF Apart, Disjoint, Covered
  <1>7. QED
    BY <1>3, <1>4, <1>5, <1>6

(* A selected family overlaps nothing that stays.                          *)
LEMMA SelectionStaysApart ==
    ASSUME NEW S, NEW selected \in Seq(S), NEW remaining, Disjoint(selected, remaining),
           NEW f \in S, \A i \in DOMAIN selected : selected[i].group \cap f.group = {},
           NEW rest, \A g \in rest : g \in remaining /\ g.group \cap f.group = {}
    PROVE  Disjoint(Append(selected, f), rest)
  <1> DEFINE more == Append(selected, f)
             n == Len(selected) + 1
  <1>1. /\ DOMAIN more = DOMAIN selected \cup {n} /\ n \notin DOMAIN selected
        /\ more[n] = f /\ \A i \in DOMAIN selected : more[i] = selected[i]
    OBVIOUS
  <1> HIDE DEF more, n
  <1>2. \A i, j \in DOMAIN more : i # j => more[i].group \cap more[j].group = {}
    BY <1>1 DEF Disjoint
  <1>3. \A i \in DOMAIN more : \A g \in rest : more[i].group \cap g.group = {}
    BY <1>1 DEF Disjoint
  <1>4. QED
    BY <1>2, <1>3 DEF Disjoint, more

(* What a running engine leaves alone in every step. *)
LEMMA SearchFrame ==
    ASSUME RegistryInv, Search
    PROVE  /\ pc # "done" /\ outcome[1] # "COMPLETE"
           /\ engine' = engine
           /\ \/ Next /\ exact' = exact
              \/ Indexed /\ Engines[engine] # "scan"
  BY DEF RegistryInv, Covered, Search, indexVars

(* The steps of the scan and of the search that select nothing.            *)
LEMMA QuietActions ==
    ASSUME RegistryInv, pc # "done", outcome[1] # "COMPLETE",
           \/ Refuse \/ SkipPair \/ PairBudget \/ PairsDone \/ NoBoxes \/ BoxesDone
           \/ SizeDone \/ GrowthBudget \/ SizesDone \/ Decide
           \/ PassOver \/ SearchBudget \/ NextPositive \/ Searched \/ PassTaken
           \/ NonePlaced \/ Placed \/ GrownBudget
    PROVE  RegistryInv'
  <1>0. pair \in Nat /\ pair + 1 \in Nat /\ size \in Nat \ {0}
    BY DEF RegistryInv, RegTyped
  <1> USE DEF search, growth, indexVars, Return
  <1>1. CASE Refuse \/ NoBoxes
    <2>1. pc' = "done" /\ outcome'[1] = "UNKNOWN"
      BY <1>1 DEF Refuse, NoBoxes
    <2>2. QED
      BY <1>0, <1>1, <2>1, QuietStep DEF Refuse, NoBoxes
  <1>2. CASE SkipPair \/ PairsDone \/ BoxesDone \/ SizeDone \/ SizesDone
    BY <1>0, <1>2, QuietStep DEF SkipPair, PairsDone, BoxesDone, SizeDone, SizesDone, Scanning
  <1>3. CASE PairBudget \/ GrowthBudget
    <2>1. pc' = "done" /\ outcome'[1] = "UNKNOWN"
      BY <1>3 DEF PairBudget, GrowthBudget
    <2>2. QED
      BY <1>0, <1>3, <2>1, QuietStep DEF PairBudget, GrowthBudget
  <1>4. CASE Decide
    <2>1. pc' = "done" /\ (outcome'[1] = "COMPLETE" => Boxed = Resourced)
      BY <1>4 DEF Decide
    <2>2. QED
      BY <1>0, <1>4, <2>1, QuietStep DEF Decide
  <1>5. CASE PassOver \/ NextPositive \/ Searched
    BY <1>0, <1>5, QuietStep DEF PassOver, NextPositive, Searched, Searching
  <1>6. CASE PassTaken \/ Placed
    BY <1>0, <1>6, QuietStep DEF PassTaken, Placed, Placing
  <1>7. CASE SearchBudget \/ NonePlaced \/ GrownBudget
    <2>1. pc' = "done" /\ outcome'[1] = "UNKNOWN"
      BY <1>7 DEF SearchBudget, NonePlaced, GrownBudget
    <2>2. QED
      BY <1>0, <1>7, <2>1, QuietStep DEF SearchBudget, NonePlaced, GrownBudget
  <1>8. QED
    BY <1>1, <1>2, <1>3, <1>4, <1>5, <1>6, <1>7

---------------------------------------------------------------------------
(* The partners of a positive clause are met one after the other.          *)

Ordering(S, R) ==
    /\ \A x, y \in S : x = y \/ <<x, y>> \in R \/ <<y, x>> \in R
    /\ \A x, y, z \in S : <<x, y>> \in R /\ <<y, z>> \in R => <<x, z>> \in R

(* A finite set that is ordered has a first member. *)
LEMMA FirstIsThere ==
    ASSUME NEW S, IsFiniteSet(S), S # {}, NEW R, Ordering(S, R)
    PROVE  \E x \in S : \A y \in S \ {x} : <<x, y>> \in R
  <1> DEFINE G == {T \in SUBSET S : T # {} => \E x \in T : \A y \in T \ {x} : <<x, y>> \in R}
  <1>1. {} \in G
    OBVIOUS
  <1>2. ASSUME NEW T \in SUBSET S, NEW z \in S \ T, T \in G
        PROVE  T \cup {z} \in G
    <2>1. CASE T = {}
      BY <2>1
    <2>2. CASE T # {}
      <3>1. PICK x \in T : \A y \in T \ {x} : <<x, y>> \in R
        BY <1>2, <2>2
      <3>2. CASE <<x, z>> \in R
        BY <3>1, <3>2
      <3>3. CASE <<z, x>> \in R
        <4>1. \A y \in T : <<z, y>> \in R
          BY <3>1, <3>3 DEF Ordering
        <4>2. QED
          BY <4>1
      <3>4. QED
        BY <3>2, <3>3 DEF Ordering
    <2>3. QED
      BY <2>1, <2>2
  <1>3. S \in G
    <2> HIDE DEF G
    <2>1. QED
      BY <1>1, <1>2, FiniteInduction
  <1>4. QED
    BY <1>3

(* The smallest number that two sets do not share. *)
LEMMA SmallestUnshared ==
    ASSUME NEW g, IsFiniteSet(g), g \subseteq Int, NEW h, IsFiniteSet(h), h \subseteq Int,
           g # h
    PROVE  LET a == Min((g \ h) \cup (h \ g))
           IN  /\ a \in Int /\ (a \in g <=> a \notin h)
               /\ \A x \in Int : x < a => (x \in g <=> x \in h)
  <1> DEFINE S == (g \ h) \cup (h \ g)
             a == Min(S)
  <1>1. IsFiniteSet(S) /\ S \subseteq Int /\ S # {}
    <2>1. S \in SUBSET (g \cup h) /\ IsFiniteSet(g \cup h)
      BY FS_Union
    <2>2. IsFiniteSet(S)
      BY <2>1, FS_Subset
    <2>3. QED
      BY <2>2
  <1>2. a \in S /\ \A y \in S : a <= y
    <2> HIDE DEF S
    <2>1. QED
      BY <1>1, MinIsThere
  <1>3. a \in Int /\ (a \in g <=> a \notin h)
    BY <1>1, <1>2
  <1>4. ASSUME NEW x \in Int, x < a
        PROVE  x \in g <=> x \in h
    <2>1. x \notin S
      <3> HIDE DEF S, a
      <3>1. QED
        BY <1>2, <1>3, <1>4
    <2>2. QED
      BY <2>1
  <1>5. QED
    BY <1>3, <1>4

(* Sorted tuples of numbers are ordered. *)
LEMMA EarlierIsTotal ==
    ASSUME NEW g, IsFiniteSet(g), g \subseteq Int, NEW h, IsFiniteSet(h), h \subseteq Int
    PROVE  g = h \/ Earlier(g, h) \/ Earlier(h, g)
  <1>1. (g \ h) \cup (h \ g) = (h \ g) \cup (g \ h)
    OBVIOUS
  <1>2. QED
    BY <1>1, SmallestUnshared DEF Earlier

LEMMA EarlierIsTransitive ==
    ASSUME NEW g, IsFiniteSet(g), g \subseteq Int, NEW h, IsFiniteSet(h), h \subseteq Int,
           NEW k, IsFiniteSet(k), k \subseteq Int,
           Earlier(g, h), Earlier(h, k)
    PROVE  Earlier(g, k)
  <1> DEFINE a == Min((g \ h) \cup (h \ g))
             b == Min((h \ k) \cup (k \ h))
             c == Min((g \ k) \cup (k \ g))
  <1>1. /\ a \in Int /\ a \in g /\ a \notin h
        /\ \A x \in Int : x < a => (x \in g <=> x \in h)
    BY SmallestUnshared DEF Earlier
  <1>2. /\ b \in Int /\ b \in h /\ b \notin k
        /\ \A x \in Int : x < b => (x \in h <=> x \in k)
    BY SmallestUnshared DEF Earlier
  <1>3. g # k
    <2> HIDE DEF a, b
    <2>1. a < b \/ b < a
      BY <1>1, <1>2
    <2>2. QED
      BY <1>1, <1>2, <2>1
  <1>4. /\ c \in Int /\ (c \in g <=> c \notin k)
        /\ \A x \in Int : x < c => (x \in g <=> x \in k)
    BY <1>3, SmallestUnshared
  <1>5. c \in g
    <2> HIDE DEF a, b, c
    <2>1. CASE a < b
      <3>1. a \in g /\ a \notin k
        BY <1>1, <1>2, <2>1
      <3>2. c <= a
        BY <1>1, <1>4, <3>1
      <3>3. CASE c = a
        BY <3>1, <3>3
      <3>4. CASE c < a
        BY <1>1, <1>2, <1>4, <2>1, <3>4
      <3>5. QED
        BY <1>1, <1>4, <3>2, <3>3, <3>4
    <2>2. CASE b < a
      <3>1. b \in g /\ b \notin k
        BY <1>1, <1>2, <2>2
      <3>2. c <= b
        BY <1>2, <1>4, <3>1
      <3>3. CASE c = b
        BY <3>1, <3>3
      <3>4. CASE c < b
        BY <1>1, <1>2, <1>4, <2>2, <3>4
      <3>5. QED
        BY <1>2, <1>4, <3>2, <3>3, <3>4
    <2>3. QED
      BY <1>1, <1>2, <2>1, <2>2
  <1>6. QED
    BY <1>3, <1>5 DEF Earlier

(* A partner is in the bucket of two variables it shares. *)
LEMMA BucketTyped ==
    ASSUME RegTyped, NEW P \in LiteralSet, NEW n \in PartnersOf(P)
    PROVE  IsFiniteSet(Bucket(P, n)) /\ Bucket(P, n) \subseteq Int
  <1> DEFINE common == Common(P, n)
             first == Min(common)
             rest == common \ {first}
  <1>1. VariableSet(VariablesOf(P))
    BY VariablesOfClause
  <1>2. IsFiniteSet(common) /\ common \subseteq Int /\ Cardinality(common) >= 2
    <2>1. common \in SUBSET VariablesOf(P)
      BY DEF Common
    <2>2. QED
      BY <1>1, <2>1, FS_Subset DEF VariableSet, PartnersOf
  <1> HIDE DEF common
  <1>3. common # {}
    BY <1>2, FS_EmptySet
  <1>4. first \in common /\ first \in Int
    BY <1>2, <1>3, MinIsThere
  <1>5. IsFiniteSet(rest) /\ Cardinality(rest) = Cardinality(common) - 1
    BY <1>2, <1>4, FS_RemoveElement
  <1>6. rest # {} /\ rest \subseteq Int
    <2>1. Cardinality(common) \in Nat
      BY <1>2, FS_CardinalityType
    <2>2. rest \subseteq Int
      BY <1>2
    <2> HIDE DEF rest
    <2>3. Cardinality(rest) # 0
      BY <1>2, <1>5, <2>1
    <2>4. QED
      BY <2>2, <2>3, FS_EmptySet
  <1> HIDE DEF first, rest
  <1>7. Min(rest) \in Int
    BY <1>5, <1>6, MinIsThere
  <1>8. Bucket(P, n) = {first, Min(rest)}
    BY DEF Bucket, first, rest, common
  <1>9. IsFiniteSet({first} \cup {Min(rest)})
    BY FS_Singleton, FS_Union
  <1>10. {first} \cup {Min(rest)} = {first, Min(rest)}
    OBVIOUS
  <1>11. QED
    BY <1>4, <1>7, <1>8, <1>9, <1>10

(* There is a next partner, and it is one, until all are examined.         *)
LEMMA PartnerIsThere ==
    ASSUME RegTyped, Searching, examined \subseteq Partners, examined # Partners
    PROVE  Partner \in Partners /\ ClauseAt(Partner) \in LiteralSet
  <1> DEFINE P == Current
             left == PartnersOf(P) \ examined
             B == [n \in left |-> Bucket(P, n)]
             R == {e \in left \X left : MetBefore(P, e[1], e[2])}
  <1>1. P \in LiteralSet /\ Partners = PartnersOf(P)
    BY CurrentIsThere DEF Searching, Partners
  <1> HIDE DEF P
  <1>2. PartnersOf(P) \subseteq DOMAIN recovery.clauses
    BY DEF PartnersOf
  <1>3. IsFiniteSet(DOMAIN recovery.clauses)
    <2>1. DOMAIN recovery.clauses = 1 .. Len(recovery.clauses) /\ Len(recovery.clauses) \in Nat
      BY DatabaseTyped
    <2>2. QED
      BY <2>1, FS_Interval
  <1>4. IsFiniteSet(left) /\ left # {} /\ left \subseteq Nat
    <2>1. left \in SUBSET DOMAIN recovery.clauses
      BY <1>2
    <2>2. left # {}
      BY <1>1
    <2>3. QED
      BY <1>3, <2>1, <2>2, FS_Subset, DatabaseTyped
  <1>5. \A n \in left : B[n] = Bucket(P, n) /\ IsFiniteSet(B[n]) /\ B[n] \subseteq Int
    BY <1>1, BucketTyped
  <1>6. \A n, m \in left : MetBefore(P, n, m) <=> Earlier(B[n], B[m]) \/ (B[n] = B[m] /\ n < m)
    BY <1>5, Zenon DEF MetBefore
  <1>7. \A n, m \in left : n = m \/ <<n, m>> \in R \/ <<m, n>> \in R
    <2> SUFFICES ASSUME NEW n \in left, NEW m \in left, n # m
                 PROVE  MetBefore(P, n, m) \/ MetBefore(P, m, n)
      OBVIOUS
    <2>1. B[n] = B[m] \/ Earlier(B[n], B[m]) \/ Earlier(B[m], B[n])
      BY <1>5, EarlierIsTotal
    <2>2. n < m \/ m < n
      BY <1>4
    <2> HIDE DEF B, left
    <2>3. QED
      BY <1>6, <2>1, <2>2
  <1>8. \A k, n, m \in left : <<k, n>> \in R /\ <<n, m>> \in R => <<k, m>> \in R
    <2> SUFFICES ASSUME NEW k \in left, NEW n \in left, NEW m \in left,
                        MetBefore(P, k, n), MetBefore(P, n, m)
                 PROVE  MetBefore(P, k, m)
      OBVIOUS
    <2>1. Earlier(B[k], B[n]) /\ Earlier(B[n], B[m]) => Earlier(B[k], B[m])
      BY <1>5, EarlierIsTransitive
    <2>2. k < n /\ n < m => k < m
      BY <1>4
    <2> HIDE DEF B, left
    <2>3. QED
      BY <1>6, <2>1, <2>2
  <1>9. PICK n \in left : \A m \in left \ {n} : <<n, m>> \in R
    <2>1. Ordering(left, R)
      BY <1>7, <1>8 DEF Ordering
    <2> HIDE DEF left, R
    <2>2. QED
      BY <1>4, <2>1, FirstIsThere
  <1>10. \E i \in left : \A m \in left \ {i} : MetBefore(P, i, m)
    BY <1>9
  <1>11. Partner \in left
    BY <1>10 DEF Partner, P
  <1>12. QED
    BY <1>1, <1>2, <1>11, DatabaseTyped DEF ClauseAt

(* The scan examines through no index, and the search only partners. *)
IndexInv ==
    /\ Engines[engine] = "scan" => examined = {}
    /\ pc = "pairs" => examined \subseteq Partners

LEMMA IndexStep ==
    ASSUME RegTyped, IndexInv, [Compare]_vars
    PROVE  IndexInv'
  <1>1. CASE UNCHANGED vars
    <2>1. recovery' = recovery /\ pair' = pair
      BY <1>1 DEF vars, indexedVars, regVars
    <2>2. pc' = pc /\ examined' = examined /\ engine' = engine
      BY <1>1 DEF vars, indexedVars, regVars, indexVars
    <2>3. Partners' = Partners
      BY <2>1 DEF Partners, PartnersOf, Current, Positives, ClauseAt, Common
    <2>4. QED
      BY <2>2, <2>3 DEF IndexInv
  <1>2. CASE Restart
    BY <1>2 DEF Restart, IndexInv
  <1>3. CASE Search /\ Engines[engine] = "scan"
    BY <1>3 DEF Search, IndexInv, indexVars
  <1>4. CASE Search /\ Engines[engine] # "scan"
    <2>1. engine' = engine /\ Indexed
      BY <1>4 DEF Search
    <2>2. CASE PassOver \/ Verify
      <3>1. /\ Searching /\ examined # Partners /\ pc = "pairs"
            /\ examined' = examined \cup {Partner}
            /\ recovery' = recovery /\ pair' = pair
        BY <2>2 DEF PassOver, Verify, Searching, search
      <3>2. Partner \in Partners
        BY <3>1, PartnerIsThere DEF IndexInv
      <3>3. Partners' = Partners
        BY <3>1 DEF Partners, PartnersOf, Current, Positives, ClauseAt, Common
      <3>4. QED
        BY <1>4, <2>1, <3>1, <3>2, <3>3 DEF IndexInv
    <2>3. CASE NextPositive
      BY <1>4, <2>1, <2>3 DEF NextPositive, IndexInv
    <2>4. CASE ~(PassOver \/ Verify \/ NextPositive)
      <3>1. pc' # "pairs"
        BY <2>1, <2>4 DEF Indexed, SearchBudget, Searched, ExactPlaced, PlaceOneSided,
             PassTaken, NonePlaced, Placed, Placing, GrowIndexed, Grown, GrownBudget, Accepted,
             Return, Refuse, SelectBox, NextSize, SizeDone, TakeEdge, SizesDone,
             SelectResource, Decide
      <3>2. QED
        BY <1>4, <2>1, <3>1 DEF IndexInv
    <2>5. QED
      BY <2>2, <2>3, <2>4
  <1>5. QED
    BY <1>1, <1>2, <1>3, <1>4 DEF Compare, Finished

---------------------------------------------------------------------------
(* The steps that select. *)

(* The group of a pair that fits is one of variables.                      *)
LEMMA FittingIsTyped ==
    ASSUME NEW P \in LiteralSet, NEW N \in LiteralSet, FitTogether(P, N)
    PROVE  /\ VariableSet(GroupOf(P, N))
           /\ DemandOf(N) \in 1 .. Cardinality(GroupOf(P, N)) - 1
           /\ [group |-> GroupOf(P, N), demand |-> DemandOf(N)] \in BoxRecord
  <1>1. VariableSet(VariablesOf(P)) /\ VariableSet(VariablesOf(N))
    BY VariablesOfClause
  <1>2. VariableSet(GroupOf(P, N))
    BY <1>1, FS_Union DEF VariableSet, GroupOf
  <1>3. DemandOf(N) \in 1 .. Cardinality(GroupOf(P, N)) - 1
    BY DEF FitTogether
  <1>4. QED
    BY <1>2, <1>3 DEF VariableSet, BoxRecord

LEMMA TestPairStep == RegistryInv /\ TestPair => RegistryInv'
  <1> SUFFICES ASSUME RegistryInv, TestPair
               PROVE  RegistryInv'
    OBVIOUS
  <1>1. RegTyped /\ Scanning /\ FitTogether(Positive, Negative)
    BY DEF RegistryInv, TestPair, PairFits
  <1>2. Positive \in LiteralSet /\ Negative \in LiteralSet
    BY <1>1, PairIsThere
  <1> DEFINE f == [group |-> PairGroup, demand |-> PairDemand]
  <1>3. /\ VariableSet(f.group) /\ f.demand \in 1 .. Cardinality(f.group) - 1
        /\ f \in BoxRecord
    BY <1>1, <1>2, FittingIsTyped DEF PairGroup, PairDemand
  <1>4. \A h \in candidates' : h \in candidates \/ IsExactBox(Clauses, h)
    BY <1>3 DEF TestPair, IsExactBox
  <1>5. pc = "pairs" /\ pair' \in Nat
    BY <1>1 DEF TestPair, Scanning, RegTyped
  <1>6. QED
    BY <1>4, <1>5, CandidateStep DEF TestPair, search, growth

LEMMA VerifyStep ==
    RegistryInv /\ IndexInv /\ Verify => RegistryInv'
  <1> SUFFICES ASSUME RegistryInv, IndexInv, Verify
               PROVE  RegistryInv'
    OBVIOUS
  <1>1. RegTyped /\ Searching /\ examined # Partners /\ FitTogether(Current, ClauseAt(Partner))
    BY DEF RegistryInv, Verify, Undecided
  <1>2. pc = "pairs" /\ pair' \in Nat
    BY <1>1 DEF Searching, Verify, RegTyped
  <1>3. Current \in LiteralSet /\ ClauseAt(Partner) \in LiteralSet
    BY <1>1, <1>2, CurrentIsThere, PartnerIsThere DEF Searching, IndexInv
  <1>4. /\ VariableSet(Candidate.group) /\ Candidate \in BoxRecord
        /\ Candidate.demand \in 1 .. Cardinality(Candidate.group) - 1
    BY <1>1, <1>3, FittingIsTyped DEF Candidate
  <1>5. \A h \in candidates' : h \in candidates \/ IsExactBox(Clauses, h)
    BY <1>4 DEF Verify, IsExactBox, Family
  <1>6. QED
    BY <1>2, <1>5, CandidateStep DEF Verify, search, growth

LEMMA SelectBoxStep == RegistryInv /\ SelectBox => RegistryInv'
  <1> SUFFICES ASSUME RegistryInv, SelectBox
               PROVE  RegistryInv'
    OBVIOUS
  <1> USE DEF RegistryInv
  <1>1. PICK f \in candidates : /\ boxes' = Append(boxes, f)
                                /\ candidates' = {g \in candidates : g.group \cap f.group = {}}
    BY DEF SelectBox
  <1>2. /\ pc = "boxes" /\ pc' = "boxes" /\ Clauses' = Clauses
        /\ UNCHANGED <<recovery, pair, size, untried, group, families, resources, outcome>>
    BY DEF SelectBox, search, growth, Clauses
  <1>3. f \in BoxRecord /\ IsExactBox(Clauses, f)
    BY DEF BoxesInv, IsExactBox
  <1>4. RegTyped' /\ Ordered'
    BY <1>1, <1>2, <1>3 DEF RegTyped, Ordered
  <1>5. BoxesInv'
    <2>1. \A b \in DOMAIN boxes' : IsExactBox(Clauses, boxes'[b]) \/ IsLowerBox(Clauses, boxes'[b])
      BY <1>1, <1>3 DEF RegTyped, BoxesInv
    <2>2. \A h \in candidates' : IsExactBox(Clauses, h)
      BY <1>1 DEF BoxesInv
    <2>3. QED
      BY <1>2, <2>1, <2>2 DEF BoxesInv
  <1>6. ResourcesInv'
    BY <1>2 DEF ResourcesInv, Ordered
  <1>7. Apart'
    <2>1. Disjoint(Append(boxes, f), candidates')
      <3>1. \A i \in DOMAIN boxes : boxes[i].group \cap f.group = {}
        BY DEF Apart, Disjoint
      <3>2. \A g \in candidates' : g \in candidates /\ g.group \cap f.group = {}
        BY <1>1
      <3>3. QED
        BY <1>3, <3>1, <3>2, SelectionStaysApart DEF Apart, RegTyped
    <2>2. QED
      BY <1>1, <1>2, <2>1 DEF Apart
  <1>8. Covered'
    BY <1>2 DEF Covered
  <1>9. QED
    BY <1>4, <1>5, <1>6, <1>7, <1>8

LEMMA ExactPlacedStep == RegistryInv /\ ExactPlaced => RegistryInv'
  <1> SUFFICES ASSUME RegistryInv, ExactPlaced
               PROVE  RegistryInv'
    OBVIOUS
  <1> USE DEF RegistryInv
  <1>1. /\ pc = "boxes" /\ pc' = "placing" /\ Clauses' = Clauses /\ candidates = {}
        /\ pair' = 0
        /\ UNCHANGED <<recovery, candidates, boxes, size, untried, group, families,
                       resources, outcome>>
    BY DEF ExactPlaced, search, growth, Clauses
  <1>2. RegTyped' /\ Ordered'
    BY <1>1 DEF RegTyped, Ordered
  <1>3. BoxesInv'
    BY <1>1 DEF BoxesInv, RegTyped
  <1>4. ResourcesInv' /\ Apart' /\ Covered'
    BY <1>1 DEF ResourcesInv, Ordered, Apart, Covered
  <1>5. QED
    BY <1>2, <1>3, <1>4

LEMMA PlaceOneSidedStep == RegistryInv /\ PlaceOneSided => RegistryInv'
  <1> SUFFICES ASSUME RegistryInv, PlaceOneSided
               PROVE  RegistryInv'
    OBVIOUS
  <1> USE DEF RegistryInv
  <1> DEFINE f == [group |-> VariablesOf(Current), demand |-> 1]
  <1>1. /\ pc = "placing" /\ pc' = "placing" /\ Clauses' = Clauses /\ candidates = {}
        /\ pair' = pair + 1 /\ boxes' = Append(boxes, f)
        /\ pair < Cardinality(Positives)
        /\ \A i \in DOMAIN boxes : boxes[i].group \cap f.group = {}
        /\ UNCHANGED <<recovery, candidates, size, untried, group, families,
                       resources, outcome>>
    BY DEF PlaceOneSided, Placing, search, growth, indexVars, Clauses, Ordered, Boxed
  <1>2. IsLowerBox(Clauses, f)
    <2>1. Current \in Clauses /\ Current \in LiteralSet /\ Monotone(1, Current)
      BY <1>1, CurrentIsThere
    <2>2. \A l \in Current : l \in Int /\ l > 0 /\ Variable(l) = l
      BY <2>1 DEF Monotone, LiteralSet, Literal, Variable
    <2>3. VariablesOf(Current) = Current
      BY <2>2 DEF VariablesOf
    <2>4. VariableSet(VariablesOf(Current))
      BY <2>1, VariablesOfClause
    <2>5. QED
      BY <2>1, <2>3, <2>4 DEF IsLowerBox, BoxRecord, VariableSet
  <1>3. f \in BoxRecord
    BY <1>2 DEF IsLowerBox
  <1> HIDE DEF f
  <1>4. RegTyped' /\ Ordered'
    BY <1>1, <1>3 DEF RegTyped, Ordered
  <1>5. BoxesInv'
    <2>1. \A b \in DOMAIN boxes' : IsExactBox(Clauses, boxes'[b]) \/ IsLowerBox(Clauses, boxes'[b])
      BY <1>1, <1>2, <1>3 DEF RegTyped, BoxesInv
    <2>2. QED
      BY <1>1, <2>1 DEF BoxesInv
  <1>6. ResourcesInv'
    BY <1>1 DEF ResourcesInv, Ordered
  <1>7. Apart'
    <2>1. Disjoint(Append(boxes, f), {})
      <3>1. Disjoint(boxes, {})
        BY DEF Apart, Disjoint
      <3>2. QED
        BY <1>1, <1>3, <3>1, SelectionStaysApart DEF RegTyped
    <2>2. QED
      BY <1>1, <2>1 DEF Apart
  <1>8. Covered'
    BY <1>1 DEF Covered
  <1>9. QED
    BY <1>4, <1>5, <1>6, <1>7, <1>8

LEMMA SelectResourceStep ==
    RegistryInv /\ SelectResource => RegistryInv'
  <1> SUFFICES ASSUME RegistryInv, SelectResource
               PROVE  RegistryInv'
    OBVIOUS
  <1> USE DEF RegistryInv
  <1>1. PICK f \in families : /\ resources' = Append(resources, f)
                              /\ families' = {g \in families : g.group \cap f.group = {}}
    BY DEF SelectResource
  <1>2. /\ pc = "resources" /\ pc' = "resources" /\ Clauses' = Clauses
        /\ UNCHANGED <<recovery, pair, candidates, boxes, size, untried, group, outcome>>
    BY DEF SelectResource, search, Clauses
  <1>3. f \in ResourceRecord /\ IsResource(Clauses, boxes, f)
    BY DEF ResourcesInv, IsResource
  <1>4. RegTyped' /\ Ordered'
    BY <1>1, <1>2, <1>3 DEF RegTyped, Ordered
  <1>5. BoxesInv'
    BY <1>2 DEF BoxesInv
  <1>6. ResourcesInv'
    <2>1. \A r \in DOMAIN resources' : IsResource(Clauses, boxes, resources'[r])
      BY <1>1, <1>3 DEF ResourcesInv, RegTyped
    <2>2. QED
      BY <1>1, <1>2, <2>1 DEF ResourcesInv
  <1>7. Apart'
    <2>1. Disjoint(Append(resources, f), families')
      <3>1. \A i \in DOMAIN resources : resources[i].group \cap f.group = {}
        BY DEF Apart, Disjoint
      <3>2. \A g \in families' : g \in families /\ g.group \cap f.group = {}
        BY <1>1
      <3>3. QED
        BY <1>3, <3>1, <3>2, SelectionStaysApart DEF Apart, RegTyped
    <2>2. QED
      BY <1>1, <1>2, <2>1 DEF Apart
  <1>8. Covered'
    BY <1>2 DEF Covered
  <1>9. QED
    BY <1>4, <1>5, <1>6, <1>7, <1>8

LEMMA NextSizeStep ==
    RegistryInv /\ (NextSize \/ TakeEdge) => RegistryInv'
  <1> SUFFICES ASSUME RegistryInv, NextSize \/ TakeEdge
               PROVE  RegistryInv'
    OBVIOUS
  <1>1. size \in Nat \ {0} /\ size + 1 \in Nat \ {0}
    BY DEF RegistryInv, RegTyped
  <1>2. CASE NextSize
    <2>1. \A e \in untried' : AcrossBoxes(boxes, e)
      BY <1>2, EdgeIsAcross DEF NextSize, RegistryInv
    <2>2. QED
      BY <1>1, <1>2, <2>1, GrowthStep DEF NextSize, search, RegistryInv, ResourcesInv
  <1>3. CASE TakeEdge
    <2>1. pc = "edges" /\ group' \in untried /\ untried' \subseteq untried /\ families' = families
      BY <1>3 DEF TakeEdge
    <2>2. /\ \A e \in untried' : AcrossBoxes(boxes, e)
          /\ AcrossBoxes(boxes, group')
      BY <2>1 DEF RegistryInv, ResourcesInv
    <2>3. QED
      BY <1>1, <1>3, <2>2, GrowthStep DEF TakeEdge, search
  <1>4. QED
    BY <1>2, <1>3

LEMMA GrowStep ==
    RegistryInv /\ (Grow \/ GrowIndexed) => RegistryInv'
  <1> SUFFICES ASSUME RegistryInv, Grow \/ GrowIndexed
               PROVE  RegistryInv'
    OBVIOUS
  <1>1. /\ pc = "grow" /\ pc' = "grow" /\ families' = families /\ untried' = untried
        /\ UNCHANGED <<recovery, pair, candidates, boxes, resources, outcome, size>>
    BY DEF Grow, GrowIndexed, search
  <1>2. PICK some : some \subseteq Eligible /\ some # {} /\ group' = group \cup {Min(some)}
    <2>1. Extensions \subseteq Eligible
      BY DEF Extensions
    <2>2. Joining \subseteq Eligible
      BY DEF Joining, Sweep
    <2>3. QED
      BY <2>1, <2>2 DEF Grow, GrowIndexed
  <1>3. AcrossBoxes(boxes, group) /\ \A e \in untried : AcrossBoxes(boxes, e)
    BY <1>1 DEF RegistryInv, ResourcesInv
  <1>4. AcrossBoxes(boxes, group')
    BY <1>2, <1>3, JoinsAcross DEF RegistryInv
  <1>5. size \in Nat \ {0}
    BY DEF RegistryInv, RegTyped
  <1>6. QED
    BY <1>1, <1>3, <1>4, <1>5, GrowthStep

LEMMA GrowthDoneStep ==
    RegistryInv /\ (GrowthDone \/ Grown) => RegistryInv'
  <1> SUFFICES ASSUME RegistryInv, GrowthDone \/ Grown
               PROVE  RegistryInv'
    OBVIOUS
  <1> DEFINE f == [group |-> group, capacity |-> size - 1]
  <1>1. /\ pc = "grow" /\ pc' = "edges" /\ untried' = untried
        /\ UNCHANGED <<recovery, pair, candidates, boxes, resources, outcome, size>>
        /\ families' = families
             \/ (families' = families \cup {f} /\ Combinations(group, size, -1) \subseteq Clauses)
    BY DEF GrowthDone, Grown, Capped, search
  <1>2. AcrossBoxes(boxes, group) /\ \A e \in untried : AcrossBoxes(boxes, e)
    BY <1>1 DEF RegistryInv, ResourcesInv
  <1>3. size \in Nat \ {0} /\ size - 1 \in Nat /\ (size - 1) + 1 = size
    BY DEF RegistryInv, RegTyped
  <1>4. f \in ResourceRecord /\ f.group = group /\ f.capacity = size - 1
    BY <1>2, <1>3 DEF ResourceRecord, AcrossBoxes, VariableSet
  <1> HIDE DEF f
  <1>5. \A h \in families' : h \in families \/ IsResource(Clauses, boxes, h)
    BY <1>1, <1>2, <1>3, <1>4 DEF IsResource
  <1>6. QED
    BY <1>1, <1>2, <1>3, <1>5, GrowthStep

LEMMA RestartStep == RegistryInv /\ Restart => RegistryInv'
  <1> SUFFICES ASSUME RegistryInv, Restart
               PROVE  RegistryInv'
    OBVIOUS
  <1>1. /\ recovery' = recovery /\ pair' = 0 /\ exact' = 0 /\ size' = 1 /\ pc' = "pairs"
        /\ boxes' = <<>> /\ resources' = <<>> /\ candidates' = {} /\ families' = {}
        /\ outcome' = <<"RUNNING", "none">>
    BY DEF Restart, search
  <1>2. RegTyped' /\ Ordered'
    BY <1>1 DEF RegistryInv, RegTyped, Ordered
  <1>3. BoxesInv' /\ ResourcesInv' /\ Apart' /\ Covered'
    BY <1>1 DEF BoxesInv, ResourcesInv, Apart, Disjoint, Covered
  <1>4. QED
    BY <1>2, <1>3 DEF RegistryInv

LEMMA RegistryInit == Init => RegistryInv /\ IndexInv /\ SidedInv
  <1> SUFFICES ASSUME Init
               PROVE  RegistryInv /\ IndexInv /\ SidedInv
    OBVIOUS
  <1>1. /\ recovery \in Databases /\ pair = 0 /\ exact = 0 /\ size = 1 /\ pc = "pairs"
        /\ boxes = <<>> /\ resources = <<>> /\ candidates = {} /\ families = {}
        /\ outcome = <<"RUNNING", "none">> /\ examined = {}
    BY DEF Init, FreshIndexed, Fresh
  <1>2. RegTyped /\ Ordered
    BY <1>1 DEF RegTyped, Ordered
  <1>3. BoxesInv /\ ResourcesInv /\ Apart /\ Covered /\ IndexInv /\ SidedInv
    BY <1>1 DEF BoxesInv, ResourcesInv, Apart, Disjoint, Covered, IndexInv, SidedInv
  <1>4. QED
    BY <1>2, <1>3 DEF RegistryInv

LEMMA StutterStep == RegistryInv /\ UNCHANGED regVars => RegistryInv'
  <1> SUFFICES ASSUME RegistryInv, UNCHANGED regVars
               PROVE  RegistryInv'
    OBVIOUS
  <1>1. UNCHANGED <<recovery, pc, pair, candidates, boxes, size, untried, group, families,
                    resources, outcome>>
    BY DEF regVars
  <1>2. pair' \in Nat /\ size' \in Nat \ {0}
    BY <1>1 DEF RegistryInv, RegTyped
  <1>3. QED
    BY <1>1, <1>2, QuietStep DEF RegistryInv, Covered

LEMMA RegistryNext == RegistryInv /\ IndexInv /\ [Compare]_vars => RegistryInv'
  <1> SUFFICES ASSUME RegistryInv, IndexInv, [Compare]_vars
               PROVE  RegistryInv'
    OBVIOUS
  <1>1. CASE UNCHANGED vars
    BY <1>1, StutterStep DEF vars, indexedVars
  <1>2. CASE Restart
    BY <1>2, RestartStep
  <1>3. CASE Search
    <2>1. pc # "done" /\ outcome[1] # "COMPLETE"
      BY <1>3, SearchFrame
    <2>2. CASE Next
      BY <2>1, <2>2, QuietActions, TestPairStep, SelectBoxStep, NextSizeStep, GrowStep,
         GrowthDoneStep, SelectResourceStep
         DEF Next
    <2>3. CASE Indexed
      BY <2>1, <2>3, QuietActions, VerifyStep, ExactPlacedStep, PlaceOneSidedStep,
         SelectBoxStep, NextSizeStep, GrowStep, GrowthDoneStep, SelectResourceStep
         DEF Indexed, Accepted
    <2>4. QED
      BY <1>3, <2>2, <2>3, SearchFrame
  <1>4. QED
    BY <1>1, <1>2, <1>3 DEF Compare, Finished

(* The steps that change neither the boxes nor how many are exact.         *)
LEMMA SidedQuiet ==
    ASSUME RegistryInv, SidedInv,
           UNCHANGED <<recovery, boxes, exact, engine>>,
           pc' = "boxes" => pc \in {"pairs", "boxes"}
    PROVE  SidedInv'
  <1>1. Clauses' = Clauses
    BY DEF Clauses
  <1>2. pc = "pairs" => boxes = <<>>
    BY DEF RegistryInv, Ordered
  <1>3. QED
    BY <1>1, <1>2 DEF SidedInv, OneSidedBox

LEMMA SidedNext == RegistryInv /\ SidedInv /\ [Compare]_vars => SidedInv'
  <1> SUFFICES ASSUME RegistryInv, SidedInv, [Compare]_vars
               PROVE  SidedInv'
    OBVIOUS
  <1> USE DEF search, growth, indexVars, Return
  <1>1. CASE UNCHANGED vars
    <2>1. UNCHANGED <<recovery, boxes, exact, engine, pc>>
      BY <1>1 DEF vars, indexedVars, regVars
    <2>2. QED
      BY <2>1, SidedQuiet
  <1>2. CASE Restart
    BY <1>2 DEF Restart, SidedInv
  <1>3. ASSUME SelectBox, UNCHANGED <<exact, engine>>
        PROVE  SidedInv'
    <2>1. PICK f \in candidates : boxes' = Append(boxes, f)
      BY <1>3 DEF SelectBox
    <2>2. f \in BoxRecord /\ IsExactBox(Clauses, f)
      BY DEF RegistryInv, BoxesInv, IsExactBox
    <2>3. pc = "boxes" /\ Clauses' = Clauses /\ boxes \in Seq(BoxRecord)
      BY <1>3 DEF SelectBox, Clauses, RegistryInv, RegTyped
    <2>4. \A b \in DOMAIN boxes' : IsExactBox(Clauses, boxes'[b])
      BY <2>1, <2>2, <2>3 DEF SidedInv
    <2>5. exact' <= Len(boxes')
      BY <1>3, <2>1, <2>2, <2>3 DEF SidedInv
    <2>6. QED
      BY <1>3, <2>3, <2>4, <2>5 DEF SidedInv
  <1>4. CASE Search /\ ExactPlaced
    <2>1. /\ Clauses' = Clauses /\ pc = "boxes" /\ exact' = Len(boxes) /\ boxes' = boxes
          /\ Len(boxes) \in Nat
      BY <1>4 DEF ExactPlaced, Clauses, RegistryInv, RegTyped
    <2>2. QED
      BY <2>1 DEF SidedInv
  <1>5. CASE Search /\ PlaceOneSided /\ Engines[engine] # "scan"
    <2> DEFINE f == [group |-> VariablesOf(Current), demand |-> 1]
    <2>1. /\ boxes' = Append(boxes, f) /\ exact' = exact /\ engine' = engine
          /\ Clauses' = Clauses /\ pc' = "placing"
      BY <1>5 DEF PlaceOneSided, Placing, Search, Clauses
    <2>2. boxes \in Seq(BoxRecord) /\ exact <= Len(boxes) /\ exact \in Nat
      BY DEF RegistryInv, RegTyped, SidedInv
    <2> HIDE DEF f
    <2>3. /\ DOMAIN boxes' = DOMAIN boxes \cup {Len(boxes) + 1}
          /\ Len(boxes') = Len(boxes) + 1 /\ Len(boxes) + 1 > exact
          /\ \A b \in DOMAIN boxes : boxes'[b] = boxes[b]
      BY <2>1, <2>2
    <2>4. QED
      BY <1>5, <2>1, <2>2, <2>3 DEF SidedInv, OneSidedBox
  <1>6. CASE Search
    <2>1. /\ engine' = engine
          /\ \/ Next /\ exact' = exact
             \/ Indexed /\ Engines[engine] # "scan"
      BY <1>6, SearchFrame
    <2>2. CASE Next /\ exact' = exact
      <3>1. SelectBox \/ /\ UNCHANGED <<recovery, boxes>>
                         /\ pc' = "boxes" => pc \in {"pairs", "boxes"}
        BY <2>2 DEF Next, Refuse, SkipPair, TestPair, PairBudget, PairsDone, NoBoxes, BoxesDone,
           NextSize, SizeDone, TakeEdge, Grow, GrowthDone, GrowthBudget, SizesDone,
           SelectResource, Decide
      <3>2. QED
        BY <1>3, <2>1, <2>2, <3>1, SidedQuiet
    <2>3. CASE Indexed /\ Engines[engine] # "scan"
      <3>1. \/ SelectBox /\ exact' = exact
            \/ ExactPlaced \/ PlaceOneSided
            \/ /\ UNCHANGED <<recovery, boxes, exact>>
               /\ pc' = "boxes" => pc \in {"pairs", "boxes"}
        BY <2>3 DEF Indexed, Accepted, Refuse, NextSize, SizeDone, TakeEdge, SizesDone,
           SelectResource, Decide, PassOver, Verify, SearchBudget, NextPositive, Searched,
           PassTaken, NonePlaced, Placed, GrowIndexed, Grown, GrownBudget
      <3>2. QED
        BY <1>3, <1>4, <1>5, <1>6, <2>1, <2>3, <3>1, SidedQuiet
    <2>4. QED
      BY <2>1, <2>2, <2>3
  <1>7. QED
    BY <1>1, <1>2, <1>6 DEF Compare, Finished

LEMMA AlwaysRegistered == Spec => [](RegistryInv /\ IndexInv /\ SidedInv)
  <1>1. RegistryInv /\ IndexInv /\ SidedInv /\ [Compare]_vars
          => RegistryInv' /\ IndexInv' /\ SidedInv'
    BY RegistryNext, IndexStep, SidedNext DEF RegistryInv
  <1>2. QED
    BY <1>1, RegistryInit, PTL DEF Spec

---------------------------------------------------------------------------
(* What is selected holds in every model. *)

(* The literals of a group are its variables. *)
LEMMA CountOfVariables ==
    ASSUME NEW A, NEW g, VariableSet(g)
    PROVE  g \in SUBSET Literal /\ Count(A, g) = Cardinality(A \cap g)
  <1>1. \A l \in g : l \in Int /\ l # 0 /\ (LiteralTrue(A, l) <=> l \in A)
    BY DEF VariableSet, LiteralTrue
  <1>2. {l \in g : LiteralTrue(A, l)} = A \cap g
    BY <1>1
  <1>3. QED
    BY <1>1, <1>2 DEF Count, Literal

LEMMA ExactBoxHolds ==
    ASSUME NEW F, NEW A, SatisfiesAll(A, F), NEW f, IsExactBox(F, f)
    PROVE  Cardinality(A \cap f.group) = f.demand
  <1> DEFINE g == f.group
             d == f.demand
             n == Cardinality(g)
  <1>1. VariableSet(g) /\ IsFiniteSet(g) /\ n \in Nat /\ d \in Int /\ 0 < d /\ d < n
    BY FS_CardinalityType DEF IsExactBox, VariableSet
  <1>2. \A C \in Combinations(g, d + 1, -1) \cup Combinations(g, n - d + 1, 1) : Satisfies(A, C)
    BY DEF IsExactBox, ExactFamily, SatisfiesAll
  <1>3. g \in SUBSET Literal /\ Count(A, g) = Cardinality(A \cap g) /\ Count(A, g) \in Nat
    BY <1>1, CountOfVariables, CountType
  <1> HIDE DEF g, d, n
  <1>4. Count(A, g) <= d
    BY <1>1, <1>2, <1>3, UpperBoundHolds
  <1>5. Count(A, g) >= d
    BY <1>1, <1>2, <1>3, LowerBoundHolds DEF n
  <1>6. Cardinality(A \cap g) = d
    BY <1>1, <1>3, <1>4, <1>5
  <1>7. QED
    BY <1>6 DEF g, d

LEMMA LowerBoxHolds ==
    ASSUME NEW F, NEW A, SatisfiesAll(A, F), NEW f, IsLowerBox(F, f)
    PROVE  Cardinality(A \cap f.group) >= f.demand
  <1>1. Satisfies(A, f.group) /\ VariableSet(f.group)
    BY DEF IsLowerBox, SatisfiesAll
  <1>2. PICK l \in f.group : LiteralTrue(A, l)
    BY <1>1 DEF Satisfies
  <1>3. l \in A \cap f.group
    BY <1>1, <1>2 DEF VariableSet, LiteralTrue
  <1>4. IsFiniteSet(A \cap f.group)
    <2>1. A \cap f.group \in SUBSET f.group
      OBVIOUS
    <2>2. QED
      BY <1>1, <2>1, FS_Subset DEF VariableSet
  <1>5. Cardinality(A \cap f.group) \in Nat /\ Cardinality(A \cap f.group) # 0
    BY <1>3, <1>4, FS_CardinalityType, FS_EmptySet
  <1>6. QED
    BY <1>5 DEF IsLowerBox

LEMMA ResourceHolds ==
    ASSUME NEW F, NEW A, SatisfiesAll(A, F), NEW bs, NEW f, IsResource(F, bs, f)
    PROVE  Cardinality(A \cap f.group) <= f.capacity
  <1> DEFINE g == f.group
             c == f.capacity
  <1>1. VariableSet(g) /\ IsFiniteSet(g) /\ c \in Int /\ c >= -1
    BY DEF IsResource, AcrossBoxes, VariableSet
  <1>2. \A C \in Combinations(g, c + 1, -1) : Satisfies(A, C)
    BY DEF IsResource, SatisfiesAll
  <1>3. g \in SUBSET Literal /\ Count(A, g) = Cardinality(A \cap g)
    BY <1>1, CountOfVariables
  <1> HIDE DEF g, c
  <1>4. Count(A, g) <= c
    BY <1>1, <1>2, <1>3, UpperBoundHolds
  <1>5. QED
    BY <1>3, <1>4 DEF g, c

(* Boxes and resources mean what they say, whatever ended the search and   *)
(* however large the database.                                             *)
THEOREM SelectionHolds == Spec => []FamiliesHold
  <1>1. RegistryInv /\ SidedInv => FamiliesHold
    <2> SUFFICES ASSUME RegistryInv, SidedInv, NEW A \in Models
                 PROVE  /\ \A b \in DOMAIN boxes :
                             IF OneSidedBox(b)
                               THEN Cardinality(A \cap boxes[b].group) >= boxes[b].demand
                               ELSE Cardinality(A \cap boxes[b].group) = boxes[b].demand
                        /\ \A r \in DOMAIN resources :
                             Cardinality(A \cap resources[r].group) <= resources[r].capacity
      BY DEF FamiliesHold
    <2>1. SatisfiesAll(A, Clauses)
      BY DEF Models
    <2>2. ASSUME NEW b \in DOMAIN boxes
          PROVE  IF OneSidedBox(b)
                   THEN Cardinality(A \cap boxes[b].group) >= boxes[b].demand
                   ELSE Cardinality(A \cap boxes[b].group) = boxes[b].demand
      <3>1. \/ IsExactBox(Clauses, boxes[b])
            \/ OneSidedBox(b) /\ IsLowerBox(Clauses, boxes[b])
        BY DEF RegistryInv, BoxesInv, SidedInv
      <3>2. ASSUME IsExactBox(Clauses, boxes[b])
            PROVE  /\ Cardinality(A \cap boxes[b].group) = boxes[b].demand
                   /\ boxes[b].demand \in Int
        BY <2>1, <3>2, ExactBoxHolds DEF IsExactBox
      <3>3. QED
        BY <2>1, <3>1, <3>2, LowerBoxHolds
    <2>3. \A r \in DOMAIN resources :
            Cardinality(A \cap resources[r].group) <= resources[r].capacity
      BY <2>1, ResourceHolds DEF RegistryInv, ResourcesInv
    <2>4. QED
      BY <2>2, <2>3
  <1>2. QED
    BY <1>1, AlwaysRegistered, PTL

---------------------------------------------------------------------------
(* The refutation. *)

(* When the boxes and the resources have the same variables, each of these *)
(* has one resource, and the variables of a box have different ones.       *)
LEMMA ModelIsBuilt ==
    ASSUME RegistryInv, Boxed = Resourced
    PROVE  /\ \A v \in Boxed : /\ ResourceOf(v) \in DOMAIN resources
                               /\ v \in resources[ResourceOf(v)].group
           /\ \A b \in DOMAIN boxes : \A v, w \in boxes[b].group :
                ResourceOf(v) = ResourceOf(w) => v = w
           /\ ~ModelRejected
  <1>2. \A v \in Boxed : /\ ResourceOf(v) \in DOMAIN resources
                         /\ v \in resources[ResourceOf(v)].group
    BY DEF Resourced, ResourceOf
  <1>3. \A b \in DOMAIN boxes : \A v, w \in boxes[b].group :
          ResourceOf(v) = ResourceOf(w) => v = w
    <2> SUFFICES ASSUME NEW b \in DOMAIN boxes, NEW v \in boxes[b].group, NEW w \in boxes[b].group,
                        ResourceOf(v) = ResourceOf(w)
                 PROVE  v = w
      OBVIOUS
    <2> DEFINE r == ResourceOf(v)
    <2>1. v \in Boxed /\ w \in Boxed
      BY DEF Boxed
    <2>2. r \in DOMAIN resources /\ v \in resources[r].group /\ w \in resources[r].group
      BY <1>2, <2>1
    <2> HIDE DEF r
    <2>3. AcrossBoxes(boxes, resources[r].group)
      BY <2>2 DEF RegistryInv, ResourcesInv, IsResource
    <2>4. QED
      BY <2>2, <2>3 DEF AcrossBoxes
  <1>4. ASSUME NEW v \in Resourced
        PROVE  ~(Cardinality({r \in DOMAIN resources : v \in resources[r].group}) > 1)
    <2> DEFINE r == ResourceOf(v)
    <2>1. r \in DOMAIN resources /\ v \in resources[r].group
      BY <1>2
    <2> HIDE DEF r
    <2>2. {q \in DOMAIN resources : v \in resources[q].group} = {r}
      BY <2>1 DEF RegistryInv, Apart, Disjoint
    <2>3. Cardinality({r}) = 1
      BY FS_Singleton
    <2>4. QED
      BY <2>2, <2>3
  <1>5. QED
    BY <1>2, <1>3, <1>4 DEF ModelRejected

(* True variables that meet the demands and keep within the capacities of  *)
(* an instance over some of the boxes and resources are an allocation of   *)
(* it: no set of boxes violates Hall's condition.                          *)
Allocates(U, inst) ==
    /\ BoxesOf(inst) \subseteq DOMAIN boxes /\ ResourcesOf(inst) \subseteq DOMAIN resources
    /\ \A b \in BoxesOf(inst) :
         /\ inst.demands[b] <= Cardinality(U \cap boxes[b].group)
         /\ \A v \in U \cap boxes[b].group :
              /\ ResourceOf(v) \in inst.reachable[b]
              /\ v \in resources[ResourceOf(v)].group
         /\ \A v, w \in boxes[b].group : ResourceOf(v) = ResourceOf(w) => v = w
    /\ \A r \in ResourcesOf(inst) :
         Cardinality(U \cap resources[r].group) <= inst.capacities[r]

LEMMA AllocationHasNoViolator ==
    ASSUME RegistryInv, NEW inst, ProperInstance(inst), NEW U, Allocates(U, inst),
           NEW S \in SUBSET BoxesOf(inst)
    PROVE  ~HallViolator(inst, S)
  <1> DEFINE R == ResourcesOf(inst)
             T == [b \in S |-> U \cap boxes[b].group]
             via == [v \in UNION {boxes[b].group : b \in S} |-> ResourceOf(v)]
             d == inst.demands
             reach == inst.reachable
             supply == [r \in R |-> Supply(inst, S, r)]
  <1>1. S \subseteq DOMAIN boxes /\ S \subseteq BoxesOf(inst) /\ R \subseteq DOMAIN resources
    BY DEF Allocates
  <1>2. IsFiniteSet(R) /\ IsFiniteSet(S)
    BY FS_Subset DEF ProperInstance
  <1>3. ASSUME NEW b \in DOMAIN boxes
        PROVE  VariableSet(boxes[b].group)
    BY DEF RegistryInv, BoxesInv, IsExactBox, IsLowerBox
  <1>4. ASSUME NEW r \in DOMAIN resources
        PROVE  VariableSet(resources[r].group)
    BY DEF RegistryInv, ResourcesInv, IsResource, AcrossBoxes
  <1>5. \A b \in S : reach[b] \subseteq R
    BY DEF ProperInstance
  <1>6. \A b \in S : T[b] \in SUBSET boxes[b].group /\ IsFiniteSet(T[b])
    <2> SUFFICES ASSUME NEW b \in S
                 PROVE  /\ U \cap boxes[b].group \in SUBSET boxes[b].group
                        /\ IsFiniteSet(U \cap boxes[b].group)
      OBVIOUS
    <2>1. U \cap boxes[b].group \in SUBSET boxes[b].group /\ IsFiniteSet(boxes[b].group)
      BY <1>1, <1>3 DEF VariableSet
    <2>2. QED
      BY <2>1, FS_Subset
  <1>7. ASSUME NEW b \in S, NEW v \in T[b]
        PROVE  /\ v \in U /\ v \in boxes[b].group
               /\ via[v] = ResourceOf(v) /\ via[v] \in reach[b]
               /\ v \in resources[ResourceOf(v)].group
    <2>1. v \in U \cap boxes[b].group /\ b \in BoxesOf(inst)
      BY <1>1
    <2>2. via[v] = ResourceOf(v)
      BY <2>1
    <2>3. ResourceOf(v) \in reach[b] /\ v \in resources[ResourceOf(v)].group
      BY <2>1 DEF Allocates
    <2> HIDE DEF via, reach, T
    <2>4. QED
      BY <2>1, <2>2, <2>3
  <1>8. Draws(S, T, via, reach)
    <2>1. \A b \in S : IsFiniteSet(reach[b])
      BY <1>2, <1>5, FS_Subset
    <2>2. \A b, c \in S : b # c => T[b] \cap T[c] = {}
      BY <1>1 DEF RegistryInv, Apart, Disjoint
    <2>3. \A b \in S : \A v, w \in T[b] : via[v] = via[w] => v = w
      <3> SUFFICES ASSUME NEW b \in S, NEW v \in T[b], NEW w \in T[b], via[v] = via[w]
                   PROVE  v = w
        OBVIOUS
      <3>1. v \in boxes[b].group /\ w \in boxes[b].group /\ ResourceOf(v) = ResourceOf(w)
        BY <1>7
      <3> HIDE DEF T, via
      <3>2. QED
        BY <1>1, <3>1 DEF Allocates
    <2>4. \A b \in S : \A v \in T[b] : via[v] \in reach[b]
      BY <1>7
    <2> HIDE DEF T, via, reach
    <2>5. QED
      BY <1>2, <1>6, <2>1, <2>2, <2>3, <2>4 DEF Draws
  <1>9. ASSUME NEW r \in R
        PROVE  supply[r] \in Int /\ Cardinality(GivenBy(S, T, via, r)) <= supply[r]
    <2> DEFINE given == GivenBy(S, T, via, r)
               incident == Cardinality({b \in S : r \in reach[b]})
    <2>1. Cardinality(given) <= incident
      <3> HIDE DEF T, via, reach
      <3>1. QED
        BY <1>8, GivenIsIncident
    <2>2. given \in SUBSET (U \cap resources[r].group)
      <3>1. \A v \in given : \E b \in S : v \in T[b] /\ via[v] = r
        BY DEF GivenBy
      <3>2. QED
        BY <1>7, <3>1
    <2>3. IsFiniteSet(U \cap resources[r].group)
      <3>1. U \cap resources[r].group \in SUBSET resources[r].group
        OBVIOUS
      <3>2. QED
        BY <1>1, <1>4, <3>1, FS_Subset DEF VariableSet
    <2> HIDE DEF given
    <2>4. /\ Cardinality(given) \in Nat
          /\ Cardinality(given) <= Cardinality(U \cap resources[r].group)
          /\ Cardinality(U \cap resources[r].group) \in Nat
      BY <2>2, <2>3, FS_Subset, FS_CardinalityType
    <2>5. Cardinality(given) <= inst.capacities[r] /\ inst.capacities[r] \in Nat
      <3>1. Cardinality(U \cap resources[r].group) <= inst.capacities[r]
        BY DEF Allocates
      <3>2. inst.capacities[r] \in Nat
        BY DEF ProperInstance
      <3>3. QED
        BY <2>4, <3>1, <3>2
    <2>6. supply[r] = Supply(inst, S, r)
      OBVIOUS
    <2>7. Supply(inst, S, r) = IF incident < inst.capacities[r] THEN incident
                               ELSE inst.capacities[r]
      BY DEF Supply
    <2>8. incident \in Nat
      <3>1. S \in SUBSET BoxesOf(inst) /\ r \in ResourcesOf(inst)
        BY <1>1
      <3>2. QED
        BY <3>1, SupplyNat
    <2> HIDE DEF incident, supply
    <2>9. QED
      BY <2>1, <2>4, <2>5, <2>6, <2>7, <2>8 DEF given
  <1>10. \A b \in S : d[b] \in Int /\ d[b] <= Cardinality(T[b])
    BY <1>1 DEF ProperInstance, Allocates
  <1>11. SumFunctionOnSet(d, S) <= SumFunctionOnSet(supply, R)
    <2> HIDE DEF R, T, via, d, reach, supply
    <2>1. QED
      BY <1>2, <1>5, <1>8, <1>9, <1>10, HallBound
  <1>12. SumFunctionOnSet(d, S) \in Int /\ SumFunctionOnSet(supply, R) \in Int
    <2> HIDE DEF R, T, via, d, reach, supply
    <2>1. QED
      BY <1>2, <1>9, <1>10, SumInt
  <1>13. HallViolator(inst, S) <=> SumFunctionOnSet(d, S) > SumFunctionOnSet(supply, R)
    BY Zenon DEF HallViolator, SumFunction
  <1> HIDE DEF d, supply, R
  <1>14. QED
    BY <1>11, <1>12, <1>13

(* In a model of the clauses, the true variables are an allocation.        *)
LEMMA ModelMeetsHall ==
    ASSUME RegistryInv, Boxed = Resourced, NEW A, SatisfiesAll(A, Clauses),
           NEW S \in SUBSET BoxesOf(CapacityModel)
    PROVE  ~HallViolator(CapacityModel, S)
  <1> DEFINE inst == CapacityModel
             R == DOMAIN resources
  <1>1. /\ BoxesOf(inst) = DOMAIN boxes /\ ResourcesOf(inst) = R
        /\ inst.demands = [b \in DOMAIN boxes |-> boxes[b].demand]
        /\ inst.capacities = [r \in R |-> resources[r].capacity]
        /\ inst.reachable = [b \in DOMAIN boxes |-> {ResourceOf(v) : v \in boxes[b].group}]
    BY DEF CapacityModel, BoxesOf, ResourcesOf
  <1>2. IsFiniteSet(DOMAIN boxes) /\ IsFiniteSet(R)
    <2>1. /\ DOMAIN boxes = 1 .. Len(boxes) /\ Len(boxes) \in Nat
          /\ R = 1 .. Len(resources) /\ Len(resources) \in Nat
      BY DEF RegistryInv, RegTyped
    <2>2. QED
      BY <2>1, FS_Interval
  <1>3. ASSUME NEW b \in DOMAIN boxes
        PROVE  /\ boxes[b].demand \in Nat
               /\ boxes[b].demand <= Cardinality(A \cap boxes[b].group)
    <2>1. \/ IsExactBox(Clauses, boxes[b])
          \/ IsLowerBox(Clauses, boxes[b])
      BY DEF RegistryInv, BoxesInv
    <2>2. CASE IsExactBox(Clauses, boxes[b])
      BY <2>2, ExactBoxHolds DEF IsExactBox
    <2>3. CASE IsLowerBox(Clauses, boxes[b])
      BY <2>3, LowerBoxHolds DEF IsLowerBox
    <2>4. QED
      BY <2>1, <2>2, <2>3
  <1>4. ASSUME NEW r \in R
        PROVE  /\ resources[r].capacity \in Nat
               /\ Cardinality(A \cap resources[r].group) <= resources[r].capacity
    BY ResourceHolds DEF RegistryInv, ResourcesInv, IsResource
  <1>5. \A b \in DOMAIN boxes : boxes[b].group \subseteq Boxed
    BY DEF Boxed
  <1>6. \A b \in DOMAIN boxes : inst.reachable[b] \subseteq R
    BY <1>1, <1>5, ModelIsBuilt
  <1>7. \A b \in DOMAIN boxes : inst.demands[b] = boxes[b].demand
    BY <1>1
  <1>8. \A r \in R : inst.capacities[r] = resources[r].capacity
    BY <1>1
  <1>9. ProperInstance(inst)
    <2> HIDE DEF inst, R
    <2>1. QED
      BY <1>1, <1>2, <1>3, <1>4, <1>6, <1>7, <1>8 DEF ProperInstance
  <1>10. Allocates(A, inst)
    <2>1. \A b \in DOMAIN boxes : \A v \in A \cap boxes[b].group :
            ResourceOf(v) \in inst.reachable[b] /\ v \in resources[ResourceOf(v)].group
      BY <1>1, <1>5, ModelIsBuilt
    <2> HIDE DEF inst, R
    <2>2. QED
      BY <1>1, <1>3, <1>4, <1>7, <1>8, <2>1, ModelIsBuilt DEF Allocates, R
  <1>11. S \in SUBSET BoxesOf(inst)
    OBVIOUS
  <1> HIDE DEF inst
  <1>12. ~HallViolator(inst, S)
    BY <1>9, <1>10, <1>11, AllocationHasNoViolator
  <1>13. QED
    BY <1>12 DEF inst

(* A complete registry makes a model, and when that is infeasible the      *)
(* clauses have none, whatever their number and the size of the families.  *)
THEOREM RefutationHolds == Spec => []RefutationIsSound
  <1>1. RegistryInv => RefutationIsSound
    <2> SUFFICES ASSUME RegistryInv, outcome[1] = "COMPLETE"
                 PROVE  /\ ~ModelRejected
                        /\ ExhaustiveBoxTest(CapacityModel) = "UNSAT" => Models = {}
      BY DEF RefutationIsSound
    <2>0. Boxed = Resourced
      BY DEF RegistryInv, Covered
    <2>1. ASSUME ExhaustiveBoxTest(CapacityModel) = "UNSAT", NEW A \in Models
          PROVE  FALSE
      <3>1. PICK S \in SUBSET BoxesOf(CapacityModel) : HallViolator(CapacityModel, S)
        BY <2>1 DEF ExhaustiveBoxTest
      <3>2. QED
        BY <2>0, <3>1, ModelMeetsHall DEF Models
    <2>2. QED
      BY <2>0, <2>1, ModelIsBuilt
  <1>2. QED
    BY <1>1, AlwaysRegistered, PTL
=============================================================================
