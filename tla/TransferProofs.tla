--------------------------- MODULE TransferProofs ---------------------------
(***************************************************************************)
(* Theorems about LemmaBridge, for every recovery, budget and limit: what  *)
(* it adds to a formula follows from it, and the answer of the solver that *)
(* is given it is the answer of the formula.                               *)
(*                                                                         *)
(* A harvest takes the steps of the registry search, so the invariant and  *)
(* the step lemmas of RegistryProofs are those of the harvest; the engines *)
(* compared there play no part here.                                       *)
(***************************************************************************)
EXTENDS Transfer, RegistryProofs

---------------------------------------------------------------------------
(* Lists in order. *)

LEMMA SortedNumbers ==
    ASSUME NEW S, IsFiniteSet(S), S \subseteq Int
    PROVE  Sorted(S, <) \in [1 .. Cardinality(S) -> S]
  <1> DEFINE below == [x \in S |-> {y \in S : y < x}]
  <1>1. ASSUME NEW n \in 1 .. Cardinality(S)
        PROVE  \E x \in S : Cardinality({y \in S : y < x}) = n - 1
    <2>1. \A x \in S : below[x] = {y \in S : y < x}
      OBVIOUS
    <2>2. below \in [S -> SUBSET S]
      OBVIOUS
    <2>3. \A x, y \in S : x \in Int /\ (x \in below[y] <=> x < y)
      BY <2>1
    <2> HIDE DEF below
    <2>4. \A x \in S : x \notin below[x]
      BY <2>3
    <2>5. ASSUME NEW x \in S, NEW y \in S, x \in below[y]
          PROVE  below[x] \subseteq below[y]
      <3> SUFFICES ASSUME NEW z \in below[x]
                   PROVE  z \in below[y]
        OBVIOUS
      <3>1. z \in S
        BY <2>2
      <3>2. z < x /\ x < y
        BY <2>3, <2>5, <3>1
      <3>3. QED
        BY <2>3, <3>1, <3>2
    <2>6. ASSUME NEW x \in S, NEW y \in S
          PROVE  x = y \/ x \in below[y] \/ y \in below[x]
      <3>1. x \in Int /\ y \in Int
        OBVIOUS
      <3>2. QED
        BY <2>3, <3>1
    <2>7. Ranks(S, below)
      BY <2>2, <2>4, <2>5, <2>6, Zenon DEF Ranks
    <2>8. \E x \in S : Cardinality(below[x]) = n - 1
      BY <2>7, RankIsTaken
    <2>9. QED
      BY <2>1, <2>8
  <1>2. QED
    BY <1>1 DEF Sorted

LEMMA SortedGroups ==
    ASSUME NEW S, IsFiniteSet(S), \A g \in S : IsFiniteSet(g) /\ g \subseteq Int
    PROVE  Sorted(S, Earlier) \in [1 .. Cardinality(S) -> S]
  <1> DEFINE below == [x \in S |-> {y \in S : Earlier(y, x)}]
  <1>1. ASSUME NEW n \in 1 .. Cardinality(S)
        PROVE  \E x \in S : Cardinality({y \in S : Earlier(y, x)}) = n - 1
    <2>1. \A x \in S : below[x] = {y \in S : Earlier(y, x)}
      OBVIOUS
    <2>2. below \in [S -> SUBSET S] /\ \A x \in S : x \notin below[x]
      BY DEF Earlier
    <2>3. \A x, y \in S : x \in below[y] => below[x] \subseteq below[y]
      <3> SUFFICES ASSUME NEW x \in S, NEW y \in S, Earlier(x, y), NEW z \in S, Earlier(z, x)
                   PROVE  Earlier(z, y)
        BY <2>1
      <3>1. QED
        BY EarlierIsTransitive
    <2>4. \A x, y \in S : x = y \/ x \in below[y] \/ y \in below[x]
      BY EarlierIsTotal
    <2> HIDE DEF below
    <2>5. \E x \in S : Cardinality(below[x]) = n - 1
      BY <2>2, <2>3, <2>4, RankIsTaken DEF Ranks
    <2>6. QED
      BY <2>1, <2>5
  <1>2. QED
    BY <1>1 DEF Sorted

---------------------------------------------------------------------------
(* The database and its formula. *)

(* What satisfies the formula satisfies what was recovered from it, where  *)
(* a clause with complementary literals may take part in a resolution.     *)
LEMMA RecoveredHolds ==
    ASSUME recovery \in Databases, NEW A, SatisfiesAll(A, Formula)
    PROVE  SatisfiesAll(A, Clauses)
  <1> DEFINE cs == recovery.clauses
             bad == {i \in DOMAIN cs : ~Satisfies(A, cs[i])}
  <1>1. cs \in Seq(LiteralSet)
    BY DatabasesAssumption
  <1>2. \A i \in DOMAIN cs : Derives(recovery, i)
    BY RecoveriesAssumption
  <1>3. DOMAIN cs = 1 .. Len(cs) /\ Len(cs) \in Nat /\ \A i \in DOMAIN cs : cs[i] \in LiteralSet
    BY <1>1
  <1>4. IsFiniteSet(bad) /\ bad \subseteq Int /\ bad \subseteq DOMAIN cs
    <2>1. bad \in SUBSET DOMAIN cs
      OBVIOUS
    <2> HIDE DEF bad, cs
    <2>2. IsFiniteSet(DOMAIN cs)
      BY <1>3, FS_Interval
    <2>3. QED
      BY <1>3, <2>1, <2>2, FS_Subset
  <1>5. bad = {}
    <2> SUFFICES ASSUME bad # {}
                 PROVE  FALSE
      OBVIOUS
    <2> DEFINE i == Min(bad)
               r == recovery.steps[i]
    <2>1. i \in bad /\ \A j \in bad : i <= j
      <3> HIDE DEF bad
      <3>1. QED
        BY <1>4, MinIsThere
    <2>2. i \in DOMAIN cs /\ ~Satisfies(A, cs[i])
      BY <2>1
    <2> HIDE DEF i
    <2>3. CASE r.original
      <3>1. cs[i] \in Formula
        BY <1>2, <2>2, <2>3 DEF Derives, Formula
      <3>2. QED
        BY <2>2, <3>1 DEF SatisfiesAll
    <2>4. CASE ~r.original
      <3>1. /\ r.a \in 1 .. i - 1 /\ r.b \in 1 .. i - 1
            /\ Pivots(cs[r.a], cs[r.b]) = {r.pivot}
            /\ cs[i] = Resolvent(cs[r.a], cs[r.b], r.pivot)
        BY <1>2, <2>2, <2>4 DEF Derives
      <3>2. ASSUME NEW j \in 1 .. i - 1
            PROVE  Satisfies(A, cs[j]) /\ cs[j] \in SUBSET Literal
        <4>1. j \in DOMAIN cs /\ ~(i <= j)
          BY <1>3, <2>2
        <4>2. QED
          BY <1>3, <2>1, <4>1 DEF LiteralSet
      <3>3. r.pivot \in Literal
        BY <3>1, <3>2 DEF Pivots
      <3>4. Satisfies(A, cs[i])
        BY <3>1, <3>2, <3>3, ResolventHolds
      <3>5. QED
        BY <2>2, <3>4
    <2>5. QED
      BY <2>3, <2>4
  <1>6. QED
    BY <1>5 DEF SatisfiesAll, Clauses, ClausesOf

\* A clause that every assignment of the formula satisfies is entailed.
LEMMA EntailedBy ==
    ASSUME NEW K, \A A : SatisfiesAll(A, Formula) => Satisfies(A, K)
    PROVE  Entails(Formula, K)
  BY DEF Entails

(* Entailed clauses do not decide whether there is an assignment.          *)
LEMMA EntailedAddNothing ==
    ASSUME recovery \in Databases, NEW I, \A K \in I : Entails(Formula, K)
    PROVE  Satisfiable(Formula \cup I) <=> Satisfiable(Formula)
  <1> DEFINE V == UNION {VariablesOf(D) : D \in Formula}
             W == UNION {VariablesOf(D) : D \in Formula \cup I}
  <1>1. ASSUME NEW A \in SUBSET V, SatisfiesAll(A, Formula)
        PROVE  Satisfiable(Formula \cup I)
    <2>1. ASSUME NEW K \in I
          PROVE  Satisfies(A, K)
      <3>1. A \in SUBSET UNION {VariablesOf(D) : D \in Formula \cup {K}}
        OBVIOUS
      <3>2. QED
        BY <1>1, <3>1 DEF Entails
    <2>2. SatisfiesAll(A, Formula \cup I)
      BY <1>1, <2>1 DEF SatisfiesAll
    <2>3. A \in SUBSET W
      OBVIOUS
    <2>4. QED
      BY <2>2, <2>3 DEF Satisfiable
  <1>2. ASSUME NEW A \in SUBSET W, SatisfiesAll(A, Formula \cup I)
        PROVE  Satisfiable(Formula)
    <2>1. ASSUME NEW K \in Formula
          PROVE  Satisfies(A \cap V, K)
      <3>1. PICK l \in K : LiteralTrue(A, l)
        BY <1>2 DEF SatisfiesAll, Satisfies
      <3>2. K \in LiteralSet
        BY RecoveriesAssumption DEF Formula, ClausesOf
      <3>3. l \in Int /\ Variable(l) \in V
        BY <3>1, <3>2 DEF LiteralSet, Literal, VariablesOf
      <3>4. LiteralTrue(A \cap V, l)
        <4> HIDE DEF V
        <4>1. QED
          BY <3>1, <3>3 DEF LiteralTrue, Variable
      <3>5. QED
        BY <3>4 DEF Satisfies
    <2>2. A \cap V \in SUBSET V /\ SatisfiesAll(A \cap V, Formula)
      BY <2>1 DEF SatisfiesAll
    <2>3. QED
      BY <2>2 DEF Satisfiable
  <1>3. QED
    BY <1>1, <1>2 DEF Satisfiable

---------------------------------------------------------------------------
(* The lemmas of the families. *)

EntailedClauses == {K \in SUBSET Int : Entails(Formula, K)}

Origins == {"exact_r_family", "capacity_family", "bounded_resolution_resolvent",
            "conditional_capacity_conflict"}

LemmaRecord(cs) == [clause : cs, origin : Origins, support : SUBSET Int]

LEMMA EntailedFromClauses ==
    ASSUME RegistryInv
    PROVE  Clauses \subseteq EntailedClauses
  <1> SUFFICES ASSUME NEW K \in Clauses
               PROVE  K \in EntailedClauses
    OBVIOUS
  <1>1. RegTyped /\ recovery \in Databases
    BY DEF RegistryInv, RegTyped
  <1>2. K \in SUBSET Int
    BY <1>1, DatabaseTyped DEF LiteralSet, Literal
  <1>3. Entails(Formula, K)
    BY <1>1, RecoveredHolds, EntailedBy DEF SatisfiesAll
  <1>4. QED
    BY <1>2, <1>3 DEF EntailedClauses

LEMMA LemmasTyped ==
    ASSUME NEW S, NEW cs \in Seq(S), NEW origin \in Origins, NEW support \in SUBSET Int
    PROVE  Lemmas(cs, origin, support) \in Seq(LemmaRecord(S))
  <1>1. cs \in [1 .. Len(cs) -> S] /\ Len(cs) \in Nat /\ DOMAIN cs = 1 .. Len(cs)
    OBVIOUS
  <1>2. Lemmas(cs, origin, support) \in [1 .. Len(cs) -> LemmaRecord(S)]
    BY <1>1 DEF Lemmas, LemmaRecord
  <1> DEFINE list == Lemmas(cs, origin, support)
             n == Len(cs)
             T == LemmaRecord(S)
  <1>3. list \in [1 .. n -> T] /\ n \in Nat
    BY <1>1, <1>2
  <1> HIDE DEF list, n, T
  <1>4. list \in Seq(T)
    BY <1>3
  <1>5. QED
    BY <1>4 DEF list, T

LEMMA InOrderTyped ==
    ASSUME NEW g, VariableSet(g), NEW k, NEW sign
    PROVE  InOrder(g, k, sign) \in Seq(Combinations(g, k, sign))
  <1> DEFINE S == kSubset(k, g)
             groups == Sorted(S, Earlier)
             n == Cardinality(S)
  <1>1. IsFiniteSet(g) /\ g \subseteq Int
    BY DEF VariableSet
  <1>2. S \in SUBSET SUBSET g
    BY DEF kSubset
  <1>3. IsFiniteSet(S) /\ \A h \in S : IsFiniteSet(h) /\ h \subseteq Int
    BY <1>1, <1>2, FS_SUBSET, FS_Subset
  <1>4. DOMAIN groups = 1 .. n /\ \A i \in 1 .. n : groups[i] \in S
    <2> HIDE DEF S
    <2>1. QED
      BY <1>3, SortedGroups
  <1>5. n \in Nat
    BY <1>3, FS_CardinalityType
  <1>6. InOrder(g, k, sign) = [i \in 1 .. n |-> {sign * v : v \in groups[i]}]
    BY <1>4 DEF InOrder
  <1>7. \A i \in 1 .. n : {sign * v : v \in groups[i]} \in Combinations(g, k, sign)
    BY <1>4 DEF Combinations
  <1> HIDE DEF n, groups, S
  <1>8. QED
    BY <1>5, <1>6, <1>7

LEMMA ExactFamilyListed ==
    ASSUME RegistryInv, NEW f, IsExactBox(Clauses, f)
    PROVE  BoxLemmas(f) \in Seq(LemmaRecord(EntailedClauses))
  <1> DEFINE n == Cardinality(f.group)
             forbidding == InOrder(f.group, f.demand + 1, -1)
             forcing == InOrder(f.group, n - f.demand + 1, 1)
  <1>1. VariableSet(f.group) /\ f.group \in SUBSET Int
    BY DEF IsExactBox, VariableSet
  <1>2. /\ Combinations(f.group, f.demand + 1, -1) \subseteq EntailedClauses
        /\ Combinations(f.group, n - f.demand + 1, 1) \subseteq EntailedClauses
    BY EntailedFromClauses DEF IsExactBox, ExactFamily
  <1>3. /\ forbidding \in Seq(Combinations(f.group, f.demand + 1, -1))
        /\ forcing \in Seq(Combinations(f.group, n - f.demand + 1, 1))
    BY <1>1, InOrderTyped
  <1> HIDE DEF forbidding, forcing, n
  <1>4. forbidding \in Seq(EntailedClauses) /\ forcing \in Seq(EntailedClauses)
    BY <1>2, <1>3
  <1>5. forbidding \o forcing \in Seq(EntailedClauses)
    BY <1>4
  <1>6. Lemmas(forbidding \o forcing, "exact_r_family", f.group)
          \in Seq(LemmaRecord(EntailedClauses))
    BY <1>1, <1>5, LemmasTyped DEF Origins
  <1>7. QED
    BY <1>6 DEF BoxLemmas, forbidding, forcing, n

LEMMA ResourceFamilyListed ==
    ASSUME RegistryInv, NEW f, IsResource(Clauses, boxes, f)
    PROVE  ResourceLemmas(f) \in Seq(LemmaRecord(EntailedClauses))
  <1> DEFINE forbidding == InOrder(f.group, f.capacity + 1, -1)
  <1>1. VariableSet(f.group) /\ f.group \in SUBSET Int
    BY DEF IsResource, AcrossBoxes, VariableSet
  <1>2. Combinations(f.group, f.capacity + 1, -1) \subseteq EntailedClauses
    BY EntailedFromClauses DEF IsResource
  <1>3. forbidding \in Seq(Combinations(f.group, f.capacity + 1, -1))
    BY <1>1, InOrderTyped
  <1> HIDE DEF forbidding
  <1>4. forbidding \in Seq(EntailedClauses)
    BY <1>2, <1>3
  <1>5. Lemmas(forbidding, "capacity_family", f.group) \in Seq(LemmaRecord(EntailedClauses))
    BY <1>1, <1>4, LemmasTyped DEF Origins
  <1>6. QED
    BY <1>5 DEF ResourceLemmas, forbidding

LEMMA RecoveredListed ==
    ASSUME RegistryInv
    PROVE  RecoveredLemmas \in Seq(LemmaRecord(EntailedClauses))
  <1> DEFINE S == {i \in DOMAIN recovery.clauses : ~recovery.steps[i].original}
             n == Cardinality(S)
             list == [i \in DOMAIN Derived |-> recovery.clauses[Derived[i]]]
  <1>1. recovery.clauses \in Seq(LiteralSet) /\ DOMAIN recovery.clauses = 1 .. Len(recovery.clauses)
    BY DatabaseTyped DEF RegistryInv
  <1>2. S \in SUBSET DOMAIN recovery.clauses /\ IsFiniteSet(DOMAIN recovery.clauses)
    BY <1>1, FS_Interval
  <1>3. IsFiniteSet(S) /\ S \subseteq Int
    <2>1. IsFiniteSet(S)
      BY <1>2, FS_Subset
    <2>2. QED
      BY <1>1, <1>2, <2>1
  <1>4. DOMAIN Derived = 1 .. n /\ \A i \in 1 .. n : Derived[i] \in S
    <2>1. Derived = Sorted(S, <)
      BY DEF Derived
    <2> HIDE DEF S
    <2>2. QED
      BY <1>3, <2>1, SortedNumbers
  <1>5. n \in Nat
    BY <1>3, FS_CardinalityType
  <1>6. \A i \in 1 .. n : recovery.clauses[Derived[i]] \in EntailedClauses
    BY <1>2, <1>4, EntailedFromClauses DEF Clauses, ClausesOf
  <1>7. list \in [1 .. n -> EntailedClauses]
    BY <1>4, <1>6
  <1> HIDE DEF n, list, S
  <1>8. list \in Seq(EntailedClauses)
    BY <1>5, <1>7
  <1>9. Lemmas(list, "bounded_resolution_resolvent", {}) \in Seq(LemmaRecord(EntailedClauses))
    BY <1>8, LemmasTyped DEF Origins
  <1>10. QED
    BY <1>9 DEF RecoveredLemmas, list

AllExact == \A b \in DOMAIN boxes : IsExactBox(Clauses, boxes[b])

LEMMA KnownListed ==
    ASSUME RegistryInv, AllExact
    PROVE  Known \in Seq(LemmaRecord(EntailedClauses))
  <1>1. CASE family \in DOMAIN boxes
    BY <1>1, ExactFamilyListed DEF Known, AllExact
  <1>2. CASE family \notin DOMAIN boxes /\ family - Len(boxes) \in DOMAIN resources
    BY <1>2, ResourceFamilyListed DEF Known, RegistryInv, ResourcesInv
  <1>3. CASE family \notin DOMAIN boxes /\ family - Len(boxes) \notin DOMAIN resources
    BY <1>3, RecoveredListed DEF Known
  <1>4. QED
    BY <1>1, <1>2, <1>3

---------------------------------------------------------------------------
(* The sub-model. *)

LEMMA CoveredDraw ==
    ASSUME NEW b \in CoveredBoxes
    PROVE  /\ b \in DOMAIN boxes
           /\ \A v \in boxes[b].group : /\ ResourceOf(v) \in DOMAIN resources
                                       /\ v \in resources[ResourceOf(v)].group
                                       /\ ResourceOf(v) \in KeptResources
           /\ \A v, w \in boxes[b].group : ResourceOf(v) = ResourceOf(w) => v = w
  <1>1. /\ b \in DOMAIN boxes /\ boxes[b].group \subseteq Resourced
        /\ \A v, w \in boxes[b].group : ResourceOf(v) = ResourceOf(w) => v = w
    BY DEF CoveredBoxes
  <1>2. \A v \in Resourced : ResourceOf(v) \in DOMAIN resources
                              /\ v \in resources[ResourceOf(v)].group
    BY DEF Resourced, ResourceOf
  <1>3. \A v \in boxes[b].group : ResourceOf(v) \in KeptResources
    BY DEF KeptResources, CoveredVariables
  <1>4. QED
    BY <1>1, <1>2, <1>3

LEMMA KeptAreResources == KeptResources \subseteq DOMAIN resources
  <1>1. \A v \in CoveredVariables : ResourceOf(v) \in DOMAIN resources
    BY CoveredDraw DEF CoveredVariables
  <1>2. QED
    BY <1>1 DEF KeptResources

LEMMA CoveredIsFinite ==
    ASSUME RegistryInv
    PROVE  IsFiniteSet(CoveredVariables) /\ CoveredVariables \subseteq Nat \ {0}
  <1>1. IsFiniteSet(Boxed) /\ Boxed \subseteq Int
    BY BoxedIsFinite DEF RegistryInv
  <1>2. CoveredVariables \subseteq Boxed
    BY DEF CoveredVariables, CoveredBoxes, Boxed
  <1>3. IsFiniteSet(CoveredVariables)
    BY <1>1, <1>2, FS_Subset
  <1>4. \A b \in DOMAIN boxes : VariableSet(boxes[b].group)
    BY DEF RegistryInv, BoxesInv, IsExactBox, IsLowerBox
  <1>5. QED
    BY <1>3, <1>4 DEF CoveredVariables, CoveredBoxes, VariableSet

\* What is left of a set of true variables, once some are accounted for.
LEMMA LeftAfterAssuming ==
    ASSUME NEW A, NEW T \in SUBSET A, NEW g, VariableSet(g)
    PROVE  /\ Cardinality(A \cap g) \in Nat /\ Cardinality(T \cap g) \in Nat
           /\ Cardinality((A \ T) \cap g) = Cardinality(A \cap g) - Cardinality(T \cap g)
           /\ Cardinality(T \cap g) <= Cardinality(A \cap g)
  <1> DEFINE X == A \cap g
             Y == T \cap g
  <1>1. X \in SUBSET g /\ Y \in SUBSET X /\ X \cap Y = Y /\ X \ Y = (A \ T) \cap g
    OBVIOUS
  <1>2. IsFiniteSet(g)
    BY DEF VariableSet
  <1> HIDE DEF X, Y
  <1>3. IsFiniteSet(X) /\ IsFiniteSet(Y) /\ Cardinality(Y) <= Cardinality(X)
    BY <1>1, <1>2, FS_Subset
  <1>4. Cardinality(X) \in Nat /\ Cardinality(Y) \in Nat
    BY <1>3, FS_CardinalityType
  <1>5. Cardinality(X \ Y) = Cardinality(X) - Cardinality(Y)
    <2>1. Cardinality(X \ Y) = Cardinality(X) - Cardinality(X \cap Y)
      BY <1>3, FS_Difference
    <2>2. QED
      BY <1>1, <2>1
  <1>6. QED
    BY <1>1, <1>3, <1>4, <1>5 DEF X, Y

(* True variables of a model of the clauses, assumed, conflict with        *)
(* nothing: what is left of the model is an allocation of the residual.    *)
LEMMA ModelMeetsResidual ==
    ASSUME RegistryInv, AllExact, NEW A, SatisfiesAll(A, Clauses), NEW T \in SUBSET A
    PROVE  ~Conflicts(T)
  <1> DEFINE inst == Residual(T)
             needy == {b \in CoveredBoxes : DemandLeft(b, T) > 0}
             U == A \ T
  <1>1. ASSUME NEW b \in CoveredBoxes
        PROVE  /\ b \in DOMAIN boxes
               /\ DemandLeft(b, T) \in Nat
               /\ DemandLeft(b, T) = Cardinality(U \cap boxes[b].group)
    <2>1. b \in DOMAIN boxes
      BY CoveredDraw
    <2>2. IsExactBox(Clauses, boxes[b])
      BY <2>1 DEF AllExact
    <2>3. VariableSet(boxes[b].group)
      BY <2>2 DEF IsExactBox
    <2>4. Cardinality(A \cap boxes[b].group) = boxes[b].demand
      BY <2>2, ExactBoxHolds
    <2>5. /\ Cardinality(A \cap boxes[b].group) \in Nat
          /\ Cardinality(T \cap boxes[b].group) \in Nat
          /\ Cardinality(U \cap boxes[b].group)
               = Cardinality(A \cap boxes[b].group) - Cardinality(T \cap boxes[b].group)
          /\ Cardinality(T \cap boxes[b].group) <= Cardinality(A \cap boxes[b].group)
      <3> DEFINE g == boxes[b].group
      <3>1. VariableSet(g)
        BY <2>3
      <3> HIDE DEF g
      <3>2. /\ Cardinality(A \cap g) \in Nat /\ Cardinality(T \cap g) \in Nat
            /\ Cardinality((A \ T) \cap g) = Cardinality(A \cap g) - Cardinality(T \cap g)
            /\ Cardinality(T \cap g) <= Cardinality(A \cap g)
        BY <3>1, LeftAfterAssuming
      <3>3. QED
        BY <3>2 DEF g
    <2> HIDE DEF U
    <2>6. QED
      BY <2>1, <2>4, <2>5 DEF DemandLeft
  <1>2. ASSUME NEW r \in KeptResources
        PROVE  /\ CapacityLeft(r, T) \in Nat
               /\ Cardinality(U \cap resources[r].group) <= CapacityLeft(r, T)
    <2>1. IsResource(Clauses, boxes, resources[r])
      BY KeptAreResources DEF RegistryInv, ResourcesInv
    <2>2. VariableSet(resources[r].group) /\ resources[r].capacity \in Nat
      BY <2>1 DEF IsResource, AcrossBoxes
    <2>3. Cardinality(A \cap resources[r].group) <= resources[r].capacity
      BY <2>1, ResourceHolds
    <2>4. /\ Cardinality(A \cap resources[r].group) \in Nat
          /\ Cardinality(T \cap resources[r].group) \in Nat
          /\ Cardinality(U \cap resources[r].group)
               = Cardinality(A \cap resources[r].group) - Cardinality(T \cap resources[r].group)
          /\ Cardinality(T \cap resources[r].group) <= Cardinality(A \cap resources[r].group)
      <3> DEFINE g == resources[r].group
      <3>1. VariableSet(g)
        BY <2>2
      <3> HIDE DEF g
      <3>2. /\ Cardinality(A \cap g) \in Nat /\ Cardinality(T \cap g) \in Nat
            /\ Cardinality((A \ T) \cap g) = Cardinality(A \cap g) - Cardinality(T \cap g)
            /\ Cardinality(T \cap g) <= Cardinality(A \cap g)
        BY <3>1, LeftAfterAssuming
      <3>3. QED
        BY <3>2 DEF g
    <2> HIDE DEF U
    <2>5. QED
      BY <2>2, <2>3, <2>4 DEF CapacityLeft
  <1>3. ~Overcommitted(T)
    <2>1. \A n \in Nat : ~(n < 0)
      OBVIOUS
    <2>2. \A b \in CoveredBoxes : ~(DemandLeft(b, T) < 0)
      BY <1>1, <2>1
    <2>3. \A r \in KeptResources : ~(CapacityLeft(r, T) < 0)
      BY <1>2, <2>1
    <2>4. QED
      BY <2>2, <2>3 DEF Overcommitted
  <1>4. /\ BoxesOf(inst) = needy /\ ResourcesOf(inst) = KeptResources
        /\ \A b \in needy : /\ inst.demands[b] = DemandLeft(b, T)
                            /\ inst.reachable[b] = {ResourceOf(v) : v \in boxes[b].group \ T}
        /\ \A r \in KeptResources : inst.capacities[r] = CapacityLeft(r, T)
    BY DEF Residual, BoxesOf, ResourcesOf
  <1>5. needy \subseteq CoveredBoxes
    OBVIOUS
  <1> HIDE DEF inst, needy
  <1>6. IsFiniteSet(needy) /\ IsFiniteSet(KeptResources)
    <2>1. /\ DOMAIN boxes = 1 .. Len(boxes) /\ Len(boxes) \in Nat
          /\ DOMAIN resources = 1 .. Len(resources) /\ Len(resources) \in Nat
      BY DEF RegistryInv, RegTyped
    <2>2. IsFiniteSet(DOMAIN boxes) /\ IsFiniteSet(DOMAIN resources)
      BY <2>1, FS_Interval
    <2>3. needy \subseteq DOMAIN boxes
      BY <1>1, <1>5
    <2>4. QED
      BY <2>2, <2>3, KeptAreResources, FS_Subset
  <1>7. ProperInstance(inst)
    <2>1. \A b \in needy : inst.reachable[b] \subseteq KeptResources
      BY <1>4, <1>5, CoveredDraw
    <2>2. QED
      BY <1>1, <1>2, <1>4, <1>5, <1>6, <2>1 DEF ProperInstance
  <1>8. Allocates(U, inst)
    <2>1. ASSUME NEW b \in needy
          PROVE  /\ b \in DOMAIN boxes
                 /\ inst.demands[b] <= Cardinality(U \cap boxes[b].group)
                 /\ \A v \in U \cap boxes[b].group :
                      /\ ResourceOf(v) \in inst.reachable[b]
                      /\ v \in resources[ResourceOf(v)].group
                 /\ \A v, w \in boxes[b].group : ResourceOf(v) = ResourceOf(w) => v = w
      BY <1>1, <1>4, <1>5, CoveredDraw
    <2>2. QED
      BY <1>2, <1>4, <2>1, KeptAreResources DEF Allocates
  <1>9. ~Infeasible(inst)
    BY <1>7, <1>8, AllocationHasNoViolator DEF Infeasible, ExhaustiveBoxTest
  <1>10. QED
    BY <1>3, <1>9 DEF Conflicts, inst

BaseInfeasible == CoveredBoxes # {} /\ Infeasible(Residual({}))

(* The two refutations of the formula.                                     *)
LEMMA BaseRefutes ==
    ASSUME RegistryInv, AllExact, BaseInfeasible
    PROVE  ~Satisfiable(Formula)
  <1>1. ASSUME NEW A, SatisfiesAll(A, Formula)
        PROVE  FALSE
    <2>1. SatisfiesAll(A, Clauses)
      BY <1>1, RecoveredHolds DEF RegistryInv, RegTyped
    <2>2. ~Conflicts({})
      BY <2>1, ModelMeetsResidual
    <2>3. QED
      BY <2>2 DEF Conflicts, BaseInfeasible
  <1>2. QED
    BY <1>1 DEF Satisfiable

LEMMA StructureRefutes ==
    ASSUME RegistryInv, StructurallyRefuted
    PROVE  ~Satisfiable(Formula)
  <1>1. ASSUME NEW A, SatisfiesAll(A, Formula)
        PROVE  FALSE
    <2>1. SatisfiesAll(A, Clauses)
      BY <1>1, RecoveredHolds DEF RegistryInv, RegTyped
    <2>2. Boxed = Resourced /\ ExhaustiveBoxTest(CapacityModel) = "UNSAT"
      BY DEF StructurallyRefuted, RegistryComplete, Infeasible
    <2>3. PICK S \in SUBSET BoxesOf(CapacityModel) : HallViolator(CapacityModel, S)
      BY <2>2 DEF ExhaustiveBoxTest
    <2>4. QED
      BY <2>1, <2>2, <2>3, ModelMeetsHall
  <1>2. QED
    BY <1>1 DEF Satisfiable

(* The conditionings are sets of covered variables. *)
LEMMA ConditioningsTyped ==
    ASSUME RegistryInv
    PROVE  Conditionings \in Seq(SUBSET CoveredVariables)
  <1> DEFINE V == CoveredVariables
             pairs == {p \in kSubset(2, V) : \A v, w \in p : Local(v, w)}
             ones == [i \in DOMAIN Ascending |-> {Ascending[i]}]
  <1>1. IsFiniteSet(V) /\ V \subseteq Int
    BY CoveredIsFinite
  <1>2. pairs \in SUBSET SUBSET V
    BY DEF kSubset
  <1>3. Ascending = Sorted(V, <) /\ LocalPairs = Sorted(pairs, Earlier)
    BY DEF Ascending, LocalPairs
  <1> HIDE DEF V, pairs
  <1>4. /\ DOMAIN Ascending = 1 .. Cardinality(V) /\ Cardinality(V) \in Nat
        /\ \A i \in 1 .. Cardinality(V) : Ascending[i] \in V
    BY <1>1, <1>3, SortedNumbers, FS_CardinalityType
  <1>5. IsFiniteSet(pairs) /\ \A p \in pairs : IsFiniteSet(p) /\ p \subseteq Int
    BY <1>1, <1>2, FS_SUBSET, FS_Subset
  <1>6. LocalPairs \in [1 .. Cardinality(pairs) -> pairs] /\ Cardinality(pairs) \in Nat
    BY <1>3, <1>5, SortedGroups, FS_CardinalityType
  <1>7. ones \in [1 .. Cardinality(V) -> SUBSET V]
    BY <1>4
  <1> DEFINE n == Cardinality(V)
             m == Cardinality(pairs)
             more == LocalPairs
  <1>8. more \in [1 .. m -> SUBSET V]
    BY <1>2, <1>6
  <1>9. Conditionings = ones \o more
    BY DEF Conditionings
  <1>10. n \in Nat /\ m \in Nat /\ ones \in [1 .. n -> SUBSET V]
    BY <1>4, <1>6, <1>7
  <1> HIDE DEF n, m, ones, more
  <1>11. ones \in Seq(SUBSET V) /\ more \in Seq(SUBSET V)
    BY <1>8, <1>10
  <1>12. QED
    BY <1>9, <1>11 DEF V

(* A clause that forbids a conflict is entailed. *)
LEMMA ConflictEntailed ==
    ASSUME RegistryInv, AllExact, NEW T \in SUBSET CoveredVariables, Conflicts(T)
    PROVE  {-v : v \in T} \in EntailedClauses
  <1> DEFINE K == {-v : v \in T}
  <1>1. \A v \in T : v \in Int /\ v > 0 /\ -v \in Int /\ -v < 0 /\ -(-v) = v
    BY CoveredIsFinite
  <1>2. ASSUME NEW A, SatisfiesAll(A, Formula)
        PROVE  Satisfies(A, K)
    <2> SUFFICES ASSUME ~Satisfies(A, K)
                 PROVE  FALSE
      OBVIOUS
    <2>1. ASSUME NEW v \in T
          PROVE  v \in A
      <3>1. ~LiteralTrue(A, -v)
        BY DEF Satisfies
      <3>2. QED
        BY <1>1, <3>1 DEF LiteralTrue
    <2>2. SatisfiesAll(A, Clauses)
      BY <1>2, RecoveredHolds DEF RegistryInv, RegTyped
    <2>3. QED
      BY <2>1, <2>2, ModelMeetsResidual
  <1>3. K \in SUBSET Int
    BY <1>1
  <1>4. Entails(Formula, K)
    <2> HIDE DEF K
    <2>1. QED
      BY <1>2, EntailedBy
  <1>5. QED
    BY <1>3, <1>4 DEF EntailedClauses

---------------------------------------------------------------------------
(* The harvest.  It returns no status, and all of its boxes are exact.     *)

HarvestInv == RegistryInv /\ AllExact /\ outcome[1] = "RUNNING"

LEMMA QuietHarvest ==
    HarvestInv /\ (NotRecovered \/ CutPairs \/ NothingHarvested \/ Finish) => RegistryInv'
  <1> SUFFICES ASSUME HarvestInv, NotRecovered \/ CutPairs \/ NothingHarvested \/ Finish
               PROVE  RegistryInv'
    OBVIOUS
  <1>1. RegistryInv /\ pair \in Nat /\ size \in Nat \ {0} /\ outcome[1] = "RUNNING"
    BY DEF HarvestInv, RegistryInv, RegTyped
  <1>2. /\ UNCHANGED <<recovery, pair, candidates, boxes, size, untried, group, families,
                       resources, outcome>>
        /\ pc' = "done" \/ (pc = "pairs" /\ pc' = "boxes")
    BY DEF NotRecovered, CutPairs, NothingHarvested, Finish, search, growth, Scanning
  <1>3. QED
    BY <1>1, <1>2, QuietStep

LEMMA HarvestedGrowth == HarvestInv /\ (EndGrowth \/ CutGrowth) => RegistryInv'
  <1> SUFFICES ASSUME HarvestInv, EndGrowth \/ CutGrowth
               PROVE  RegistryInv'
    OBVIOUS
  <1> DEFINE f == [group |-> group, capacity |-> size - 1]
  <1>1. /\ pc = "grow" /\ pc' \in {"edges", "resources"} /\ untried' = untried
        /\ UNCHANGED <<recovery, pair, candidates, boxes, resources, outcome, size>>
        /\ families' = families
             \/ (families' = families \cup {f} /\ Combinations(group, size, -1) \subseteq Clauses)
    BY DEF EndGrowth, CutGrowth, RecordGroup, search
  <1>2. AcrossBoxes(boxes, group) /\ \A e \in untried : AcrossBoxes(boxes, e)
    BY <1>1 DEF HarvestInv, RegistryInv, ResourcesInv
  <1>3. RegistryInv /\ size \in Nat \ {0} /\ size - 1 \in Nat /\ (size - 1) + 1 = size
    BY DEF HarvestInv, RegistryInv, RegTyped
  <1>4. f \in ResourceRecord /\ f.group = group /\ f.capacity = size - 1
    BY <1>2, <1>3 DEF ResourceRecord, AcrossBoxes, VariableSet
  <1> HIDE DEF f
  <1>5. \A h \in families' : h \in families \/ IsResource(Clauses, boxes, h)
    BY <1>1, <1>2, <1>3, <1>4 DEF IsResource
  <1>6. QED
    BY <1>1, <1>2, <1>3, <1>5, GrowthStep

LEMMA HarvestStep == HarvestInv /\ pc # "done" /\ HarvestNext => HarvestInv' /\ recovery' = recovery
  <1> SUFFICES ASSUME HarvestInv, pc # "done", HarvestNext
               PROVE  HarvestInv' /\ recovery' = recovery
    OBVIOUS
  <1>1. RegistryInv'
    <2>1. RegistryInv /\ outcome[1] # "COMPLETE"
      BY DEF HarvestInv
    <2>2. QED
      BY <2>1, QuietActions, TestPairStep, SelectBoxStep, NextSizeStep, GrowStep,
         SelectResourceStep, QuietHarvest, HarvestedGrowth
         DEF HarvestNext, Same
  <1>2. /\ outcome' = outcome /\ recovery' = recovery
        /\ boxes' = boxes \/ SelectBox
    BY DEF HarvestNext, Same, NotRecovered, SkipPair, TestPair, CutPairs, PairsDone,
       NothingHarvested, BoxesDone, NextSize, SizeDone, TakeEdge, Grow, EndGrowth, CutGrowth,
       SizesDone, SelectResource, Finish, SelectBox, search
  <1>3. Clauses' = Clauses
    BY <1>2 DEF Clauses
  <1>4. AllExact'
    <2>1. CASE boxes' = boxes
      BY <1>3, <2>1 DEF HarvestInv, AllExact
    <2>2. CASE SelectBox
      <3>1. PICK f \in candidates : boxes' = Append(boxes, f)
        BY <2>2 DEF SelectBox
      <3>2. f \in BoxRecord /\ IsExactBox(Clauses, f) /\ boxes \in Seq(BoxRecord)
        BY DEF HarvestInv, RegistryInv, RegTyped, BoxesInv, IsExactBox
      <3>3. \A b \in DOMAIN boxes' : IsExactBox(Clauses, boxes'[b])
        BY <3>1, <3>2 DEF HarvestInv, AllExact
      <3>4. QED
        BY <1>3, <3>3 DEF AllExact
    <2>3. QED
      BY <1>2, <2>1, <2>2
  <1>5. QED
    BY <1>1, <1>2, <1>4 DEF HarvestInv

---------------------------------------------------------------------------
(* The lemmas and the note. *)

LemmasInv == tried \in Nat /\ lemmas \in Seq(LemmaRecord(EntailedClauses))

NoteInv ==
    /\ task # "done" => note = "none"
    /\ note = "structural_unsat" => ~Satisfiable(Formula)
    /\ task = "conditional" => ~BaseInfeasible
    /\ task = "done" => StructurallyRefuted \/ (note = "structural_unsat" <=> BaseInfeasible)

BridgeInv == HarvestInv /\ LemmasInv /\ NoteInv

\* After the harvest, what it found stays.
LEMMA HarvestStays ==
    ASSUME UNCHANGED <<harvestVars, registryBudget>>
    PROVE  /\ HarvestInv => HarvestInv'
           /\ recovery' = recovery /\ Formula' = Formula /\ EntailedClauses' = EntailedClauses
           /\ StructurallyRefuted' = StructurallyRefuted
           /\ BaseInfeasible' = BaseInfeasible
  <1>1. /\ UNCHANGED <<recovery, pc, pair, candidates, boxes, size, untried, group, families,
                       resources, outcome, checks, boxHit, resourceHit, registryBudget>>
        /\ UNCHANGED regVars
    BY DEF harvestVars, regVars, hits
  <1>2. HarvestInv => HarvestInv'
    <2>1. Clauses' = Clauses
      BY <1>1 DEF Clauses
    <2>2. QED
      BY <1>1, <2>1, StutterStep DEF HarvestInv, AllExact
  <1>3. Formula' = Formula
    BY <1>1 DEF Formula
  <1>4. EntailedClauses' = EntailedClauses
    BY <1>3 DEF EntailedClauses
  <1>5. StructurallyRefuted' = StructurallyRefuted
    BY <1>1 DEF StructurallyRefuted, RegistryComplete, Boxed, Resourced, CapacityModel,
       ResourceOf
  <1>6. BaseInfeasible' = BaseInfeasible
    BY <1>1 DEF BaseInfeasible, CoveredBoxes, Residual, Resourced, ResourceOf, DemandLeft,
       CapacityLeft, KeptResources, CoveredVariables
  <1>7. QED
    BY <1>1, <1>2, <1>3, <1>4, <1>5, <1>6

LEMMA LemmasEntailed ==
    ASSUME LemmasInv, NEW i \in DOMAIN lemmas
    PROVE  Entails(Formula, lemmas[i].clause)
  <1>1. lemmas[i] \in LemmaRecord(EntailedClauses)
    <2> DEFINE S == LemmaRecord(EntailedClauses)
    <2>1. lemmas \in Seq(S)
      BY DEF LemmasInv
    <2> HIDE DEF S
    <2>2. lemmas[i] \in S
      BY <2>1
    <2>3. QED
      BY <2>2 DEF S
  <1>2. lemmas[i].clause \in EntailedClauses
    <2> HIDE DEF EntailedClauses
    <2>1. QED
      BY <1>1 DEF LemmaRecord
  <1>3. QED
    BY <1>2 DEF EntailedClauses

LEMMA PushKeeps ==
    ASSUME NEW S, lemmas \in Seq(S), NEW l \in S, Push(l)
    PROVE  lemmas' \in Seq(S)
  BY DEF Push

LEMMA KnownPushed == BridgeInv /\ PushKnown => LemmasInv'
  <1> SUFFICES ASSUME BridgeInv, PushKnown
               PROVE  LemmasInv'
    OBVIOUS
  <1> DEFINE S == LemmaRecord(EntailedClauses)
             known == Known
  <1>1. known \in Seq(S) /\ tried \in Nat /\ lemmas \in Seq(S)
    BY KnownListed DEF BridgeInv, HarvestInv, LemmasInv
  <1>2. tried < Len(known) /\ Push(known[tried + 1]) /\ tried' = tried + 1
    BY DEF PushKnown
  <1>3. S' = S
    BY HarvestStays DEF PushKnown, LemmaRecord
  <1> HIDE DEF S, known
  <1>4. known[tried + 1] \in S
    BY <1>1, <1>2
  <1>5. lemmas' \in Seq(S)
    BY <1>1, <1>2, <1>4, PushKeeps
  <1>6. QED
    BY <1>1, <1>2, <1>3, <1>5 DEF LemmasInv, S

LEMMA ConflictPushed == BridgeInv /\ Condition => LemmasInv'
  <1> SUFFICES ASSUME BridgeInv, Condition
               PROVE  LemmasInv'
    OBVIOUS
  <1> DEFINE S == LemmaRecord(EntailedClauses)
             cond == Conditionings
             T == cond[tried + 1]
             l == [clause |-> {-v : v \in T}, origin |-> "conditional_capacity_conflict",
                   support |-> T]
  <1>1. /\ cond \in Seq(SUBSET CoveredVariables) /\ tried \in Nat /\ lemmas \in Seq(S)
        /\ RegistryInv /\ AllExact
    BY ConditioningsTyped DEF BridgeInv, HarvestInv, LemmasInv
  <1>2. /\ tried < Len(cond) /\ tried' = tried + 1
        /\ lemmas' = lemmas \/ (Conflicts(T) /\ Push(l))
    BY DEF Condition, PushConflict
  <1>3. S' = S
    BY HarvestStays DEF Condition, LemmaRecord
  <1>4. T \in SUBSET CoveredVariables
    <2> HIDE DEF cond
    <2>1. QED
      BY <1>1, <1>2
  <1>5. Conflicts(T) => l \in S
    <2>1. Conflicts(T) => {-v : v \in T} \in EntailedClauses
      <3> HIDE DEF T
      <3>1. QED
        BY <1>1, <1>4, ConflictEntailed
    <2>2. T \in SUBSET Int
      BY <1>1, <1>4, CoveredIsFinite
    <2> HIDE DEF T
    <2>3. QED
      BY <2>1, <2>2 DEF LemmaRecord, Origins
  <1> HIDE DEF S, l, T, cond
  <1>6. lemmas' \in Seq(S)
    BY <1>1, <1>2, <1>5, PushKeeps
  <1>7. QED
    BY <1>1, <1>2, <1>3, <1>6 DEF LemmasInv, S

LEMMA BridgeStep == BridgeInv /\ BridgeNext => BridgeInv' /\ recovery' = recovery
  <1> SUFFICES ASSUME BridgeInv, BridgeNext
               PROVE  BridgeInv' /\ recovery' = recovery
    OBVIOUS
  <1> USE DEF BridgeInv
  <1>1. CASE Harvesting
    <2>1. /\ HarvestInv' /\ recovery' = recovery
          /\ task = "harvest" /\ UNCHANGED <<task, tried, lemmas, note>>
      BY <1>1, HarvestStep DEF Harvesting, generatorVars
    <2>2. Formula' = Formula /\ EntailedClauses' = EntailedClauses
      BY <2>1 DEF Formula, EntailedClauses
    <2>3. LemmasInv'
      BY <2>1, <2>2 DEF LemmasInv, LemmaRecord
    <2>4. NoteInv'
      BY <2>1, <2>2 DEF NoteInv
    <2>5. QED
      BY <2>1, <2>3, <2>4
  <1>2. CASE ~Harvesting
    <2>1. UNCHANGED <<harvestVars, registryBudget>>
      BY <1>2 DEF BridgeNext, Answered, Harvested, PushKnown, NextFamily, NoSubModel,
         BaseRefuted, BaseFeasible, Condition, ConditionalDone
    <2>2. /\ HarvestInv' /\ recovery' = recovery
          /\ Formula' = Formula /\ EntailedClauses' = EntailedClauses
          /\ StructurallyRefuted' = StructurallyRefuted
          /\ BaseInfeasible' = BaseInfeasible
      BY <2>1, HarvestStays
    <2>3. LemmasInv'
      <3>1. CASE PushKnown \/ Condition
        BY <3>1, KnownPushed, ConflictPushed
      <3>2. CASE ~PushKnown /\ ~Condition
        <4>1. lemmas' = lemmas /\ (tried' = tried \/ tried' = 0)
          BY <1>2, <3>2 DEF BridgeNext, Answered, Harvested, NextFamily, NoSubModel,
             BaseRefuted, BaseFeasible, ConditionalDone
        <4>2. QED
          BY <2>2, <4>1 DEF LemmasInv, LemmaRecord
      <3>3. QED
        BY <3>1, <3>2
    <2>4. NoteInv'
      <3>1. CASE task' = task /\ note' = note
        BY <2>2, <3>1 DEF NoteInv
      <3>2. CASE Answered \/ Harvested
        BY <2>2, <3>2 DEF NoteInv, Answered, Harvested
      <3>3. CASE NoSubModel
        BY <2>2, <3>3 DEF NoteInv, NoSubModel, BaseInfeasible
      <3>4. CASE BaseRefuted
        <4>1. BaseInfeasible /\ task' = "done" /\ note' = "structural_unsat"
          BY <3>4 DEF BaseRefuted, BaseInfeasible
        <4>2. ~Satisfiable(Formula)
          BY <4>1, BaseRefutes DEF HarvestInv
        <4>3. QED
          BY <2>2, <4>1, <4>2 DEF NoteInv
      <3>5. CASE BaseFeasible
        <4>1. /\ ~BaseInfeasible /\ task' = "conditional" /\ note' = note
              /\ task = "known"
          BY <3>5 DEF BaseFeasible, BaseInfeasible, KnownDone
        <4>2. QED
          BY <2>2, <4>1 DEF NoteInv
      <3>6. CASE ConditionalDone
        BY <2>2, <3>6 DEF NoteInv, ConditionalDone
      <3>7. QED
        BY <1>2, <3>1, <3>2, <3>3, <3>4, <3>5, <3>6
           DEF BridgeNext, PushKnown, NextFamily, Condition
    <2>5. QED
      BY <2>2, <2>3, <2>4
  <1>3. QED
    BY <1>1, <1>2

---------------------------------------------------------------------------
(* What a fresh process starts with. *)

BridgeStart ==
    /\ recovery \in Databases
    /\ pc = "pairs" /\ pair = 0 /\ size = 1
    /\ candidates = {} /\ boxes = <<>> /\ families = {} /\ resources = <<>>
    /\ outcome[1] = "RUNNING"
    /\ task = "harvest" /\ tried = 0 /\ lemmas = <<>> /\ note = "none"

LEMMA StartHolds == BridgeStart => BridgeInv
  <1> SUFFICES ASSUME BridgeStart
               PROVE  BridgeInv
    OBVIOUS
  <1> USE DEF BridgeStart
  <1>1. RegTyped /\ Ordered
    BY DEF RegTyped, Ordered
  <1>2. BoxesInv /\ ResourcesInv /\ Apart /\ Covered /\ AllExact
    BY DEF BoxesInv, ResourcesInv, Apart, Disjoint, Covered, AllExact
  <1>3. LemmasInv /\ NoteInv
    BY DEF LemmasInv, NoteInv
  <1>4. QED
    BY <1>1, <1>2, <1>3 DEF BridgeInv, HarvestInv, RegistryInv

LEMMA NextStartHolds == BridgeStart' => BridgeInv'
  BY StartHolds, PTL

LEMMA BridgeStays ==
    ASSUME BridgeInv, UNCHANGED bridgeVars
    PROVE  /\ BridgeInv' /\ Formula' = Formula
           /\ task' = task /\ StructurallyRefuted' = StructurallyRefuted /\ Document' = Document
  <1>1. /\ UNCHANGED <<harvestVars, registryBudget, task, tried, lemmas, note>>
        /\ UNCHANGED <<recovery, boxes, resources>>
    BY DEF bridgeVars, generatorVars, harvestVars, regVars
  <1>2. /\ HarvestInv => HarvestInv'
        /\ recovery' = recovery /\ Formula' = Formula /\ EntailedClauses' = EntailedClauses
        /\ StructurallyRefuted' = StructurallyRefuted
        /\ BaseInfeasible' = BaseInfeasible
    BY <1>1, HarvestStays
  <1>3. LemmasInv' /\ NoteInv'
    BY <1>1, <1>2 DEF BridgeInv, LemmasInv, NoteInv, LemmaRecord
  <1>4. Document' = Document
    BY <1>1 DEF Document, Records, Numbered
  <1>5. QED
    BY <1>1, <1>2, <1>3, <1>4 DEF BridgeInv

---------------------------------------------------------------------------
(* The two runs of the binary. *)

Right(answer) ==
    /\ answer = "SATISFIABLE" => Satisfiable(Formula)
    /\ answer = "UNSATISFIABLE" => ~Satisfiable(Formula)

AnswersInv ==
    /\ \A D \in injected : Entails(Formula, D)
    /\ Right(final) /\ Right(status)

DocumentInv ==
    stage = "verify" => task = "done" /\ ~StructurallyRefuted /\ document = Document

TransferInv == BridgeInv /\ AnswersInv /\ DocumentInv

LEMMA TransferStarts == TransferInit => TransferInv
  <1> SUFFICES ASSUME TransferInit
               PROVE  TransferInv
    OBVIOUS
  <1>1. BridgeInv
    BY StartHolds
       DEF TransferInit, BridgeInit, BridgeFresh, HarvestFresh, Fresh, BridgeStart
  <1>2. AnswersInv /\ DocumentInv
    BY DEF TransferInit, AnswersInv, DocumentInv, Right
  <1>3. QED
    BY <1>1, <1>2 DEF TransferInv

\* A second run starts afresh, on the same formula.
LEMMA RerunStep == TransferInv /\ Rerun => TransferInv'
  <1> SUFFICES ASSUME TransferInv, NEW d \in Databases, d.formula = recovery.formula, Start(d)
               PROVE  TransferInv'
    BY DEF Rerun
  <1>1. BridgeStart'
    BY DEF Start, BridgeStart, TransferInv, BridgeInv, HarvestInv
  <1>2. Formula' = Formula
    BY DEF Start, Formula
  <1>3. AnswersInv'
    BY <1>2 DEF Start, TransferInv, AnswersInv, Right
  <1>4. DocumentInv'
    BY DEF Start, DocumentInv
  <1>5. QED
    BY <1>1, <1>3, <1>4, NextStartHolds DEF TransferInv

\* The verifier does not change what it verifies.
LEMMA DocumentStays == C!Verify => document' = document
  BY DEF C!Verify, C!Parsed, C!RaiseOnFormula, C!ProveRecord, C!ComplainAboutRecord,
     C!RaiseOnRecord, C!ReplayDone, C!JudgeBox, C!RaiseOnBox, C!BoxesDone, C!JudgeResource,
     C!RaiseOnResource, C!ResourcesDone, C!RaiseOnLemma, C!AcceptLemma, C!RejectLemma,
     C!RefuteLemma, C!VerificationBudget, C!LemmasDone, C!Raise, C!Proceed, C!subject

LEMMA SolverIsRight ==
    ASSUME TransferInv, NEW code \in Returned \cup {127, -1}
    PROVE  Right(Reading(code))
  <1>1. Satisfiable(Formula \cup injected) <=> Satisfiable(Formula)
    BY EntailedAddNothing
       DEF TransferInv, AnswersInv, BridgeInv, HarvestInv, RegistryInv, RegTyped
  <1>2. /\ code = 10 => Satisfiable(Formula \cup injected)
        /\ code = 20 => ~Satisfiable(Formula \cup injected)
    BY DEF Returned, Formula
  <1>3. QED
    BY <1>1, <1>2 DEF Reading, Right

LEMMA TransferStep == TransferInv /\ [TransferNext]_transferVars => TransferInv'
  <1> SUFFICES ASSUME TransferInv, [TransferNext]_transferVars
               PROVE  TransferInv'
    OBVIOUS
  <1> USE DEF TransferInv
  <1>1. CASE Run
    <2>1. BridgeInv' /\ Formula' = Formula
      BY <1>1, BridgeStep DEF Run, Formula
    <2>2. AnswersInv' /\ DocumentInv'
      BY <1>1, <2>1 DEF Run, secondRun, AnswersInv, Right, DocumentInv
    <2>3. QED
      BY <2>1, <2>2
  <1>2. CASE NoDocument \/ Verified
    BY <1>2, RerunStep DEF NoDocument, Verified
  <1>3. CASE UNCHANGED bridgeVars
    <2>1. /\ BridgeInv' /\ Formula' = Formula
          /\ task' = task /\ StructurallyRefuted' = StructurallyRefuted /\ Document' = Document
      BY <1>3, BridgeStays
    <2>2. ASSUME UNCHANGED injected, Right(final'), Right(status')
          PROVE  AnswersInv'
      BY <2>1, <2>2 DEF AnswersInv, Right
    <2>3. CASE Write \/ TornDocument \/ Verifying \/ Stopped
      <3>1. AnswersInv'
        BY <2>2, <2>3 DEF Write, TornDocument, Verifying, Stopped, secondRun, AnswersInv
      <3>2. DocumentInv'
        BY <2>1, <2>3, DocumentStays
           DEF Write, TornDocument, Verifying, Stopped, DocumentInv
      <3>3. QED
        BY <2>1, <3>1, <3>2
    <2>4. CASE AnswerStructurally
      <3>1. ~Satisfiable(Formula)
        BY <2>4, StructureRefutes DEF AnswerStructurally, BridgeInv, HarvestInv
      <3>2. AnswersInv'
        BY <2>2, <2>4, <3>1 DEF AnswerStructurally, AnswersInv, Right
      <3>3. QED
        BY <2>1, <2>4, <3>2 DEF AnswerStructurally, DocumentInv
    <2>5. CASE Inject
      <3>1. \A i \in DOMAIN lemmas : Entails(Formula, lemmas[i].clause)
        BY LemmasEntailed DEF BridgeInv
      <3>2. \A D \in injected' : Entails(Formula, D)
        BY <2>5, <3>1 DEF Inject
      <3>3. AnswersInv'
        BY <2>1, <2>5, <3>2 DEF Inject, AnswersInv, Right
      <3>4. QED
        BY <2>1, <2>5, <3>3 DEF Inject, DocumentInv
    <2>6. CASE RunCadical \/ RunKissat
      <3>1. PICK code \in Returned \cup {127, -1} : final' = Reading(code)
        BY <2>6 DEF RunCadical, RunKissat
      <3>2. Right(final')
        BY <3>1, SolverIsRight
      <3>3. AnswersInv'
        BY <2>2, <2>6, <3>2 DEF RunCadical, RunKissat, AnswersInv
      <3>4. QED
        BY <2>1, <2>6, <3>3 DEF RunCadical, RunKissat, DocumentInv
    <2>7. CASE ForkFails \/ Killed
      <3>1. AnswersInv'
        BY <2>2, <2>7 DEF ForkFails, Killed, AnswersInv, Right
      <3>2. QED
        BY <2>1, <2>7, <3>1 DEF ForkFails, Killed, DocumentInv
    <2>8. CASE Report
      BY <2>1, <2>2, <2>8 DEF Report, AnswersInv, DocumentInv
    <2>9. CASE UNCHANGED transferVars
      BY <2>1, <2>2, <2>9 DEF transferVars, secondRun, AnswersInv, DocumentInv
    <2>10. QED
      BY <1>1, <1>2, <2>3, <2>4, <2>5, <2>6, <2>7, <2>8, <2>9 DEF TransferNext, Progress, Over
  <1>4. QED
    BY <1>1, <1>2, <1>3
       DEF TransferNext, Progress, Over, transferVars, Write, TornDocument, Verifying, Stopped,
           AnswerStructurally, Inject, RunCadical, RunKissat, ForkFails, Killed, Report

LEMMA AlwaysTransferred == TransferSpec => []TransferInv
  BY TransferStarts, TransferStep, PTL DEF TransferSpec

(* LemmaBridge does not change the answer, for every formula, recovery,    *)
(* budget and limit: a run that is given lemmas answers what the formula   *)
(* is or nothing.  That needs nothing of the verifier, as the generated    *)
(* lemmas are entailed by themselves.                                      *)
THEOREM AnswersHold == TransferSpec => []AnswerUnchanged
  <1>1. TransferInv => AnswerUnchanged
    BY DEF TransferInv, AnswersInv, Right, AnswerUnchanged
  <1>2. QED
    BY <1>1, AlwaysTransferred, PTL

---------------------------------------------------------------------------
(* Generator and verifier on the same families. *)

(* The verifier's operators are copies of the generator's.                 *)
LEMMA SameMax == \A S : C!Max(S) = Max(S)
  BY DEF C!Max, Max

LEMMA SameCardinality == \A S : C!Cardinality(S) = Cardinality(S)
  BY DEF C!Cardinality, Cardinality

LEMMA SameTest == \A inst : C!ExhaustiveBoxTest(inst) = ExhaustiveBoxTest(inst)
  BY DEF C!ExhaustiveBoxTest, ExhaustiveBoxTest, C!HallViolator, HallViolator, C!BoxesOf, BoxesOf,
     C!ResourcesOf, ResourcesOf, C!SumFunctionOnSet, SumFunctionOnSet, C!SumFunction, SumFunction,
     C!FoldFunctionOnSet, FoldFunctionOnSet, C!FoldFunction, FoldFunction,
     C!MapThenFoldSet, MapThenFoldSet, C!Supply, Supply, C!Cardinality, Cardinality

(* What a document says of the families.                                   *)
LEMMA FamiliesWritten ==
    ASSUME document = Document, resources \in Seq(ResourceRecord)
    PROVE  /\ document.boxes = boxes
           /\ DOMAIN document.resources = DOMAIN resources
           /\ Len(document.resources) = Len(resources)
           /\ \A r \in DOMAIN resources :
                /\ document.resources[r].id = r - 1
                /\ document.resources[r].group = resources[r].group
                /\ document.resources[r].capacity = resources[r].capacity
  <1>1. document.boxes = boxes /\ document.resources = Numbered
    BY DEF Document
  <1>2. DOMAIN Numbered = 1 .. Len(resources) /\ Len(resources) \in Nat
    BY DEF Numbered
  <1>3. Len(Numbered) = Len(resources)
    <2> DEFINE N == Numbered
               S == {N[r] : r \in 1 .. Len(resources)}
    <2>1. N = [r \in 1 .. Len(resources) |-> N[r]]
      BY <1>2 DEF Numbered
    <2> HIDE DEF N
    <2>2. N \in Seq(S)
      BY <1>2, <2>1
    <2>3. QED
      BY <1>2, <2>2 DEF N
  <1>4. QED
    BY <1>1, <1>2, <1>3 DEF Numbered

(* A variable has one resource, so the last one that holds it is the first, *)
(* and of the resources with its id that one is the only one.               *)
LEMMA CoverIsResource ==
    ASSUME RegistryInv, document = Document, NEW v \in Resourced
    PROVE  /\ C!Holding(document.resources, v) = {ResourceOf(v)}
           /\ C!Cover(v) = ResourceOf(v) - 1
           /\ C!Charged(v) = ResourceOf(v)
           /\ ResourceOf(v) \in DOMAIN resources
  <1> DEFINE r == ResourceOf(v)
  <1>1. /\ DOMAIN document.resources = DOMAIN resources
        /\ \A q \in DOMAIN resources : /\ document.resources[q].id = q - 1
                                      /\ document.resources[q].group = resources[q].group
    BY FamiliesWritten DEF RegistryInv, RegTyped
  <1>2. r \in DOMAIN resources /\ v \in resources[r].group
    BY DEF Resourced, ResourceOf
  <1> HIDE DEF r
  <1>3. C!Holding(document.resources, v) = {r}
    BY <1>1, <1>2 DEF RegistryInv, Apart, Disjoint, C!Holding
  <1>4. r \in Int /\ \A q \in DOMAIN resources : q \in Int
    BY <1>2 DEF RegistryInv, RegTyped
  <1>5. Max({r}) = r
    <2>1. IsFiniteSet({r}) /\ {r} \subseteq Int /\ {r} # {}
      BY <1>4, FS_Singleton
    <2>2. Max({r}) \in {r}
      BY <2>1, MaxIsThere
    <2>3. QED
      BY <2>2
  <1>6. C!Cover(v) = r - 1
    BY <1>1, <1>2, <1>3, <1>5, SameMax DEF C!Cover
  <1>7. {q \in DOMAIN document.resources : document.resources[q].id = C!Cover(v)} = {r}
    BY <1>1, <1>2, <1>4, <1>6
  <1>8. C!Charged(v) = r
    BY <1>5, <1>7, SameMax DEF C!Charged
  <1>9. QED
    BY <1>2, <1>3, <1>6, <1>8 DEF r

LEMMA SameSubModel ==
    ASSUME RegistryInv, AllExact, document = Document
    PROVE  /\ C!Rebuilt = CoveredBoxes /\ C!RebuiltVariables = CoveredVariables
           /\ C!UsedResources = KeptResources
           /\ \A b \in CoveredBoxes : \A v \in boxes[b].group :
                C!Charged(v) = ResourceOf(v) /\ C!Owner(v) = b
  <1>1. /\ document.boxes = boxes /\ DOMAIN document.resources = DOMAIN resources
        /\ \A r \in DOMAIN resources : /\ document.resources[r].id = r - 1
                                      /\ document.resources[r].group = resources[r].group
        /\ \A r \in DOMAIN resources : r \in Int
    BY FamiliesWritten DEF RegistryInv, RegTyped
  <1>2. ASSUME NEW v
        PROVE  C!Holding(document.resources, v) # {} <=> v \in Resourced
    BY <1>1 DEF C!Holding, Resourced
  <1>3. ASSUME NEW b \in DOMAIN boxes
        PROVE  C!Survives(boxes[b]) <=> b \in CoveredBoxes
    <2>1. boxes[b].demand > 0
      BY DEF AllExact, IsExactBox, VariableSet
    <2>2. (\A v \in boxes[b].group : C!Holding(document.resources, v) # {})
            <=> boxes[b].group \subseteq Resourced
      BY <1>2
    <2>3. \A v \in Resourced : C!Cover(v) = ResourceOf(v) - 1 /\ ResourceOf(v) \in Int
      BY <1>1, CoverIsResource
    <2>4. \A v, w \in Resourced : C!Cover(v) = C!Cover(w) <=> ResourceOf(v) = ResourceOf(w)
      BY <2>3
    <2>5. QED
      BY <1>1, <2>1, <2>2, <2>4 DEF C!Survives, CoveredBoxes
  <1>4. C!Rebuilt = CoveredBoxes
    BY <1>1, <1>3 DEF C!Rebuilt, CoveredBoxes
  <1>5. \A b \in CoveredBoxes : \A v \in boxes[b].group :
           /\ C!Charged(v) = ResourceOf(v) /\ C!Cover(v) = ResourceOf(v) - 1
           /\ ResourceOf(v) \in DOMAIN resources
    BY CoverIsResource DEF CoveredBoxes
  <1>6. C!RebuiltVariables = CoveredVariables
    BY <1>1, <1>4 DEF C!RebuiltVariables, CoveredVariables
  <1>7. \A v \in CoveredVariables :
           C!Cover(v) = ResourceOf(v) - 1 /\ ResourceOf(v) \in DOMAIN resources
    BY <1>5 DEF CoveredVariables
  <1>8. C!UsedResources = KeptResources
    <2>1. \A r \in DOMAIN resources : \A v \in CoveredVariables :
             document.resources[r].id = C!Cover(v) <=> r = ResourceOf(v)
      BY <1>1, <1>7
    <2>2. QED
      BY <1>1, <1>6, <1>7, <2>1 DEF C!UsedResources, KeptResources
  <1>9. ASSUME NEW b \in CoveredBoxes, NEW v \in boxes[b].group
        PROVE  C!Owner(v) = b
    <2>1. b \in DOMAIN boxes /\ b \in Int
      BY DEF CoveredBoxes, RegistryInv, RegTyped
    <2>2. C!Holding(boxes, v) \cap C!Rebuilt = {b}
      BY <1>4, <2>1 DEF RegistryInv, Apart, Disjoint, C!Holding
    <2>3. Max({b}) = b
      <3>1. IsFiniteSet({b}) /\ {b} \subseteq Int /\ {b} # {}
        BY <2>1, FS_Singleton
      <3>2. Max({b}) \in {b}
        BY <3>1, MaxIsThere
      <3>3. QED
        BY <3>2
    <2>4. QED
      BY <1>1, <2>2, <2>3, SameMax DEF C!Owner
  <1>10. QED
    BY <1>4, <1>5, <1>6, <1>8, <1>9

(* Under any assumption about covered variables, both take the same from   *)
(* the demands and the capacities, and build the same instance of what is  *)
(* left.                                                                   *)
LEMMA SameInstance ==
    ASSUME RegistryInv, AllExact, document = Document, NEW T \in SUBSET CoveredVariables
    PROVE  /\ C!SubModelInstance(T) = Residual(T)
           /\ C!Exceeds(T) <=> Overcommitted(T)
  <1>1. /\ document.boxes = boxes
        /\ \A r \in DOMAIN resources : document.resources[r].capacity = resources[r].capacity
    BY FamiliesWritten DEF RegistryInv, RegTyped
  <1>2. /\ C!Rebuilt = CoveredBoxes /\ C!UsedResources = KeptResources
        /\ \A b \in CoveredBoxes : \A v \in boxes[b].group :
             C!Charged(v) = ResourceOf(v) /\ C!Owner(v) = b
    BY SameSubModel
  <1>3. \A v \in T : \E b \in CoveredBoxes : v \in boxes[b].group
    BY DEF CoveredVariables
  <1>4. ASSUME NEW b \in CoveredBoxes
        PROVE  C!RemainingDemand(b, T) = DemandLeft(b, T)
    <2>1. {v \in T : C!Owner(v) = b} = T \cap boxes[b].group
      BY <1>2, <1>3
    <2>2. QED
      BY <1>1, <2>1, SameCardinality DEF C!RemainingDemand, DemandLeft
  <1>5. ASSUME NEW r \in KeptResources
        PROVE  C!RemainingCapacity(r, T) = CapacityLeft(r, T)
    <2>1. ASSUME NEW v \in T
          PROVE  C!Charged(v) = r <=> v \in resources[r].group
      <3>1. PICK b \in CoveredBoxes : v \in boxes[b].group
        BY <1>3
      <3>2. /\ ResourceOf(v) \in DOMAIN resources /\ v \in resources[ResourceOf(v)].group
            /\ C!Charged(v) = ResourceOf(v) /\ r \in DOMAIN resources
        BY <1>2, <3>1, CoveredDraw, KeptAreResources
      <3>3. QED
        BY <3>2 DEF RegistryInv, Apart, Disjoint
    <2>2. {v \in T : C!Charged(v) = r} = T \cap resources[r].group
      BY <2>1
    <2>3. QED
      BY <1>1, <2>2, KeptAreResources, SameCardinality DEF C!RemainingCapacity, CapacityLeft
  <1>6. C!Exceeds(T) <=> Overcommitted(T)
    BY <1>2, <1>4, <1>5 DEF C!Exceeds, Overcommitted
  <1>7. C!SubModelInstance(T) = Residual(T)
    <2> DEFINE needy == {b \in CoveredBoxes : DemandLeft(b, T) > 0}
               reach(b) == {ResourceOf(v) : v \in boxes[b].group \ T}
    <2>1. {b \in C!Rebuilt : C!RemainingDemand(b, T) > 0} = needy
      BY <1>2, <1>4
    <2>2. [b \in needy |-> C!RemainingDemand(b, T)] = [b \in needy |-> DemandLeft(b, T)]
      BY <1>4
    <2>3. [r \in C!UsedResources |-> C!RemainingCapacity(r, T)]
            = [r \in KeptResources |-> CapacityLeft(r, T)]
      BY <1>2, <1>5
    <2>4. \A b \in needy :
            {C!Charged(v) : v \in {w \in document.boxes[b].group : ~(w \in T /\ C!Owner(w) = b)}}
              = reach(b)
      BY <1>1, <1>2
    <2>5. QED
      BY <2>1, <2>2, <2>3, <2>4 DEF C!SubModelInstance, Residual
  <1>8. QED
    BY <1>6, <1>7

LEMMA NothingOvercommitted ==
    ASSUME RegistryInv, AllExact
    PROVE  ~Overcommitted({})
  <1>1. Cardinality({}) = 0 /\ \A S : {} \cap S = {}
    BY FS_EmptySet
  <1>2. \A b \in CoveredBoxes : DemandLeft(b, {}) = boxes[b].demand - 0 /\ boxes[b].demand \in Nat
    BY <1>1, CoveredDraw DEF DemandLeft, AllExact, IsExactBox, VariableSet
  <1>3. \A r \in KeptResources : /\ CapacityLeft(r, {}) = resources[r].capacity - 0
                                  /\ resources[r].capacity \in Nat
    BY <1>1, KeptAreResources DEF CapacityLeft, RegistryInv, ResourcesInv, IsResource
  <1>4. \A n \in Nat : ~(n - 0 < 0)
    OBVIOUS
  <1>5. QED
    BY <1>2, <1>3, <1>4 DEF Overcommitted

LEMMA SameResult ==
    ASSUME RegistryInv, AllExact, document = Document
    PROVE  /\ C!StructuralResult = "UNSAT" <=> BaseInfeasible
           /\ CoveredBoxes # {} /\ ~Infeasible(Residual({})) => C!StructuralResult = "FEASIBLE"
  <1>1. /\ C!Rebuilt = CoveredBoxes /\ C!SubModelInstance({}) = Residual({}) /\ ~C!Exceeds({})
    BY SameSubModel, SameInstance, NothingOvercommitted
  <1>2. C!ExhaustiveBoxTest(C!SubModelInstance({})) = ExhaustiveBoxTest(Residual({}))
    BY <1>1, SameTest
  <1>3. ExhaustiveBoxTest(Residual({})) \in {"UNSAT", "FEASIBLE"}
    BY DEF ExhaustiveBoxTest
  <1>4. QED
    BY <1>1, <1>2, <1>3 DEF C!StructuralResult, BaseInfeasible, Infeasible

(* What LemmaBridge concludes follows from the formula: each lemma, at     *)
(* every point of the generation, and the refutation of the sub-model,     *)
(* which generator and verifier reach on the same instances.               *)
THEOREM ConclusionsHold == TransferSpec => []ConclusionsImplied
  <1>1. TransferInv => ConclusionsImplied
    <2> SUFFICES ASSUME TransferInv
                 PROVE  ConclusionsImplied
      OBVIOUS
    <2>1. \A i \in DOMAIN lemmas : Entails(Formula, lemmas[i].clause)
      BY LemmasEntailed DEF TransferInv, BridgeInv
    <2>2. note = "structural_unsat" => ~Satisfiable(Formula)
      BY DEF TransferInv, BridgeInv, NoteInv
    <2>3. stage = "verify" => (note = "structural_unsat" <=> C!StructuralResult = "UNSAT")
      BY SameResult DEF TransferInv, BridgeInv, HarvestInv, NoteInv, DocumentInv
    <2>4. QED
      BY <2>1, <2>2, <2>3 DEF ConclusionsImplied
  <1>2. QED
    BY <1>1, AlwaysTransferred, PTL

---------------------------------------------------------------------------
(* What the lemmas are, for the verifier. *)

\* The formula is one that parse_cnf takes.
Clean == ~(\E D \in Formula : Tautology(D))

(* Resolution on the only clashing pair of literals makes no tautology.    *)
LEMMA CleanClauses ==
    ASSUME recovery \in Databases, Clean, NEW K \in Clauses
    PROVE  ~Tautology(K)
  <1> DEFINE cs == recovery.clauses
             bad == {i \in DOMAIN cs : Tautology(cs[i])}
  <1>1. cs \in Seq(LiteralSet) /\ \A i \in DOMAIN cs : Derives(recovery, i)
    BY DatabasesAssumption, RecoveriesAssumption
  <1>2. DOMAIN cs = 1 .. Len(cs) /\ Len(cs) \in Nat /\ \A i \in DOMAIN cs : cs[i] \in LiteralSet
    BY <1>1
  <1>3. IsFiniteSet(bad) /\ bad \subseteq Int /\ bad \subseteq DOMAIN cs
    <2>1. bad \in SUBSET DOMAIN cs
      OBVIOUS
    <2> HIDE DEF bad, cs
    <2>2. IsFiniteSet(DOMAIN cs)
      BY <1>2, FS_Interval
    <2>3. QED
      BY <1>2, <2>1, <2>2, FS_Subset
  <1>4. bad = {}
    <2> SUFFICES ASSUME bad # {}
                 PROVE  FALSE
      OBVIOUS
    <2> DEFINE i == Min(bad)
               r == recovery.steps[i]
    <2>1. i \in bad /\ \A j \in bad : i <= j
      <3> HIDE DEF bad
      <3>1. QED
        BY <1>3, MinIsThere
    <2>2. i \in DOMAIN cs /\ Tautology(cs[i])
      BY <2>1
    <2> HIDE DEF i
    <2>3. CASE r.original
      <3>1. cs[i] \in Formula
        BY <1>1, <2>2, <2>3 DEF Derives, Formula
      <3>2. QED
        BY <2>2, <3>1 DEF Clean
    <2>4. CASE ~r.original
      <3>1. /\ r.a \in 1 .. i - 1 /\ r.b \in 1 .. i - 1
            /\ Pivots(cs[r.a], cs[r.b]) = {r.pivot}
            /\ cs[i] = Resolvent(cs[r.a], cs[r.b], r.pivot)
        BY <1>1, <2>2, <2>4 DEF Derives
      <3>2. ASSUME NEW j \in 1 .. i - 1
            PROVE  ~Tautology(cs[j]) /\ cs[j] \in SUBSET Literal
        <4>1. j \in DOMAIN cs /\ ~(i <= j)
          BY <1>2, <2>2
        <4>2. QED
          BY <1>2, <2>1, <4>1 DEF LiteralSet
      <3> DEFINE P == cs[r.a]
                 N == cs[r.b]
      <3>3. ~Tautology(P) /\ ~Tautology(N) /\ P \in SUBSET Literal /\ N \in SUBSET Literal
        BY <3>1, <3>2
      <3>4. PICK l \in cs[i] : -l \in cs[i]
        BY <2>2 DEF Tautology
      <3>5. /\ \A k \in P : -k \in N => k = r.pivot
            /\ cs[i] = (P \ {r.pivot}) \cup (N \ {-r.pivot})
        BY <3>1 DEF Pivots, Resolvent
      <3> HIDE DEF P, N
      <3>6. \A k \in P \cup N : k \in Int /\ -(-k) = k
        BY <3>3 DEF Literal
      <3>7. QED
        BY <3>3, <3>4, <3>5, <3>6 DEF Tautology
    <2>5. QED
      BY <2>3, <2>4
  <1>5. QED
    BY <1>4 DEF Clauses, ClausesOf

BoxClauses(b) == ExactFamily(boxes[b].group, boxes[b].demand)

ResourceClauses(r) == Combinations(resources[r].group, resources[r].capacity + 1, -1)

FamilyClauses ==
    (UNION {BoxClauses(b) : b \in DOMAIN boxes})
      \cup UNION {ResourceClauses(r) : r \in DOMAIN resources}

\* What the origin of a lemma says of it.
Grounded(l) ==
    /\ l.origin \in {"exact_r_family", "capacity_family"} => l.clause \in FamilyClauses
    /\ l.origin = "bounded_resolution_resolvent" => l.clause \in Clauses
    /\ l.origin = "conditional_capacity_conflict" =>
         /\ l.clause = {-v : v \in l.support} /\ l.support \subseteq CoveredVariables
         /\ Conflicts(l.support)
         /\ CoveredBoxes # {} /\ ~Infeasible(Residual({}))

OriginInv ==
    /\ task = "harvest" => lemmas = <<>>
    /\ task = "conditional" => CoveredBoxes # {} /\ ~Infeasible(Residual({}))
    /\ \A i \in DOMAIN lemmas : Grounded(lemmas[i])

LEMMA BoxGrounded ==
    ASSUME RegistryInv, AllExact, NEW b \in DOMAIN boxes, NEW i \in DOMAIN BoxLemmas(boxes[b])
    PROVE  Grounded(BoxLemmas(boxes[b])[i])
  <1> DEFINE f == boxes[b]
             n == Cardinality(f.group)
             forbidding == InOrder(f.group, f.demand + 1, -1)
             forcing == InOrder(f.group, n - f.demand + 1, 1)
             cs == forbidding \o forcing
  <1>1. VariableSet(f.group)
    BY DEF AllExact, IsExactBox
  <1>2. /\ forbidding \in Seq(Combinations(f.group, f.demand + 1, -1))
        /\ forcing \in Seq(Combinations(f.group, n - f.demand + 1, 1))
    BY <1>1, InOrderTyped
  <1>3. BoxClauses(b) = Combinations(f.group, f.demand + 1, -1)
                          \cup Combinations(f.group, n - f.demand + 1, 1)
    BY DEF BoxClauses, ExactFamily
  <1>4. BoxLemmas(f) = Lemmas(cs, "exact_r_family", f.group)
    BY DEF BoxLemmas
  <1> HIDE DEF forbidding, forcing, n
  <1>5. forbidding \in Seq(BoxClauses(b)) /\ forcing \in Seq(BoxClauses(b))
    BY <1>2, <1>3
  <1>6. cs \in Seq(BoxClauses(b))
    BY <1>5
  <1> HIDE DEF cs
  <1>7. i \in DOMAIN cs /\ BoxLemmas(f)[i] = [clause |-> cs[i], origin |-> "exact_r_family",
                                             support |-> f.group]
    BY <1>4 DEF Lemmas
  <1>8. cs[i] \in FamilyClauses
    BY <1>6, <1>7 DEF FamilyClauses
  <1>9. QED
    BY <1>7, <1>8 DEF Grounded

LEMMA ResourceGrounded ==
    ASSUME RegistryInv, NEW r \in DOMAIN resources, NEW i \in DOMAIN ResourceLemmas(resources[r])
    PROVE  Grounded(ResourceLemmas(resources[r])[i])
  <1> DEFINE f == resources[r]
             cs == InOrder(f.group, f.capacity + 1, -1)
  <1>1. VariableSet(f.group)
    BY DEF RegistryInv, ResourcesInv, IsResource, AcrossBoxes
  <1>2. cs \in Seq(ResourceClauses(r))
    BY <1>1, InOrderTyped DEF ResourceClauses
  <1>3. ResourceLemmas(f) = Lemmas(cs, "capacity_family", f.group)
    BY DEF ResourceLemmas
  <1> HIDE DEF cs
  <1>4. i \in DOMAIN cs /\ ResourceLemmas(f)[i] = [clause |-> cs[i], origin |-> "capacity_family",
                                                  support |-> f.group]
    BY <1>3 DEF Lemmas
  <1>5. cs[i] \in FamilyClauses
    <2>1. cs[i] \in ResourceClauses(r)
      BY <1>2, <1>4
    <2>2. QED
      BY <2>1 DEF FamilyClauses
  <1>6. QED
    BY <1>4, <1>5 DEF Grounded

LEMMA RecoveredGrounded ==
    ASSUME RegistryInv, NEW i \in DOMAIN RecoveredLemmas
    PROVE  Grounded(RecoveredLemmas[i])
  <1> DEFINE S == {k \in DOMAIN recovery.clauses : ~recovery.steps[k].original}
             n == Cardinality(S)
             list == [k \in DOMAIN Derived |-> recovery.clauses[Derived[k]]]
  <1>1. recovery.clauses \in Seq(LiteralSet) /\ DOMAIN recovery.clauses = 1 .. Len(recovery.clauses)
    BY DatabaseTyped DEF RegistryInv
  <1>2. S \in SUBSET DOMAIN recovery.clauses /\ IsFiniteSet(DOMAIN recovery.clauses)
    BY <1>1, FS_Interval
  <1>3. IsFiniteSet(S) /\ S \subseteq Int
    <2>1. IsFiniteSet(S)
      BY <1>2, FS_Subset
    <2>2. QED
      BY <1>1, <1>2, <2>1
  <1>4. DOMAIN Derived = 1 .. n /\ \A k \in 1 .. n : Derived[k] \in S
    <2>1. Derived = Sorted(S, <)
      BY DEF Derived
    <2> HIDE DEF S
    <2>2. QED
      BY <1>3, <2>1, SortedNumbers
  <1>5. RecoveredLemmas = Lemmas(list, "bounded_resolution_resolvent", {})
    BY DEF RecoveredLemmas
  <1>6. \A k \in DOMAIN list : list[k] \in Clauses
    BY <1>2, <1>4 DEF Clauses, ClausesOf
  <1> HIDE DEF list, S, n
  <1>7. /\ i \in DOMAIN list
        /\ RecoveredLemmas[i] = [clause |-> list[i], origin |-> "bounded_resolution_resolvent",
                                 support |-> {}]
    BY <1>5 DEF Lemmas
  <1>8. QED
    BY <1>6, <1>7 DEF Grounded

LEMMA KnownGrounded ==
    ASSUME RegistryInv, AllExact, NEW i \in DOMAIN Known
    PROVE  Grounded(Known[i])
  <1>1. CASE family \in DOMAIN boxes
    <2>1. boxes \in Seq(BoxRecord) /\ resources \in Seq(ResourceRecord)
      BY DEF RegistryInv, RegTyped
    <2>2. family - Len(boxes) \notin DOMAIN resources
      BY <1>1, <2>1
    <2>3. Known = BoxLemmas(boxes[family])
      BY <1>1, <2>2 DEF Known
    <2>4. QED
      BY <1>1, <2>3, BoxGrounded
  <1>2. CASE family \notin DOMAIN boxes /\ family - Len(boxes) \in DOMAIN resources
    BY <1>2, ResourceGrounded DEF Known
  <1>3. CASE family \notin DOMAIN boxes /\ family - Len(boxes) \notin DOMAIN resources
    BY <1>3, RecoveredGrounded DEF Known
  <1>4. QED
    BY <1>1, <1>2, <1>3

LEMMA PushGrounded ==
    ASSUME LemmasInv, OriginInv, NEW l, Grounded(l), Push(l)
    PROVE  \A i \in DOMAIN lemmas' : Grounded(lemmas'[i])
  <1> DEFINE S == LemmaRecord(EntailedClauses)
             R == {lemmas[i] : i \in DOMAIN lemmas} \cup {l}
  <1>1. lemmas \in Seq(S)
    BY DEF LemmasInv
  <1> HIDE DEF S
  <1>2. lemmas \in Seq(R) /\ l \in R
    BY <1>1
  <1>3. \A k \in R : Grounded(k)
    BY DEF OriginInv
  <1> HIDE DEF R
  <1>4. lemmas' \in Seq(R)
    BY <1>2, PushKeeps
  <1>5. \A i \in DOMAIN lemmas' : lemmas'[i] \in R
    BY <1>4
  <1>6. QED
    BY <1>3, <1>5

LEMMA GroundedStays ==
    ASSUME UNCHANGED <<recovery, boxes, resources>>
    PROVE  /\ CoveredBoxes' = CoveredBoxes
           /\ Infeasible(Residual({}))' <=> Infeasible(Residual({}))
           /\ \A l : Grounded(l) => Grounded(l)'
  <1>1. FamilyClauses' = FamilyClauses /\ Clauses' = Clauses
    BY DEF FamilyClauses, BoxClauses, ResourceClauses, Clauses
  <1>2. /\ CoveredBoxes' = CoveredBoxes /\ CoveredVariables' = CoveredVariables
        /\ KeptResources' = KeptResources
    BY DEF CoveredBoxes, CoveredVariables, KeptResources, Resourced, ResourceOf
  <1>3. ASSUME NEW T
        PROVE  Overcommitted(T)' = Overcommitted(T) /\ Residual(T)' = Residual(T)
    BY <1>2 DEF Overcommitted, Residual, DemandLeft, CapacityLeft, ResourceOf
  <1>4. QED
    BY <1>1, <1>2, <1>3 DEF Grounded, Conflicts, Infeasible

LEMMA OriginStep == BridgeInv /\ OriginInv /\ BridgeNext => OriginInv'
  <1> SUFFICES ASSUME BridgeInv, OriginInv, BridgeNext
               PROVE  OriginInv'
    OBVIOUS
  <1>1. RegistryInv /\ AllExact /\ LemmasInv
    BY DEF BridgeInv, HarvestInv
  <1>2. CASE Harvesting
    <2>1. task = "harvest" /\ UNCHANGED <<task, lemmas>> /\ lemmas = <<>>
      BY <1>2 DEF Harvesting, generatorVars, OriginInv
    <2>2. QED
      BY <2>1 DEF OriginInv
  <1>3. CASE ~Harvesting
    <2>1. UNCHANGED <<recovery, boxes, resources>>
      BY <1>3 DEF BridgeNext, Answered, Harvested, PushKnown, NextFamily, NoSubModel,
         BaseRefuted, BaseFeasible, Condition, ConditionalDone, harvestVars, regVars
    <2>2. /\ CoveredBoxes' = CoveredBoxes
          /\ Infeasible(Residual({}))' <=> Infeasible(Residual({}))
          /\ \A l : Grounded(l) => Grounded(l)'
      BY <2>1, GroundedStays
    <2>3. CASE PushKnown
      <3>1. tried < Len(Known) /\ Push(Known[tried + 1]) /\ task = "known" /\ task' = task
        BY <2>3 DEF PushKnown
      <3>2. tried + 1 \in DOMAIN Known
        <4> DEFINE S == LemmaRecord(EntailedClauses)
                   known == Known
        <4>1. known \in Seq(S) /\ tried \in Nat /\ tried < Len(known)
          BY <1>1, <3>1, KnownListed DEF LemmasInv
        <4> HIDE DEF S, known
        <4>2. tried + 1 \in DOMAIN known
          BY <4>1
        <4>3. QED
          BY <4>2 DEF known
      <3>3. Grounded(Known[tried + 1])
        BY <1>1, <3>2, KnownGrounded
      <3>4. \A i \in DOMAIN lemmas' : Grounded(lemmas'[i])
        BY <1>1, <3>1, <3>3, PushGrounded
      <3>5. QED
        BY <2>2, <3>1, <3>4 DEF OriginInv
    <2>4. CASE Condition
      <3> DEFINE cond == Conditionings
                 T == cond[tried + 1]
                 l == [clause |-> {-v : v \in T}, origin |-> "conditional_capacity_conflict",
                       support |-> T]
      <3>1. /\ tried < Len(cond) /\ task = "conditional" /\ task' = task
            /\ lemmas' = lemmas \/ (Conflicts(T) /\ Push(l))
        BY <2>4 DEF Condition, PushConflict
      <3>2. cond \in Seq(SUBSET CoveredVariables) /\ tried \in Nat
        BY <1>1, ConditioningsTyped DEF LemmasInv
      <3> HIDE DEF cond
      <3>3. T \in SUBSET CoveredVariables
        BY <3>1, <3>2
      <3> HIDE DEF T
      <3>4. Conflicts(T) => Grounded(l)
        BY <3>1, <3>3 DEF Grounded, OriginInv
      <3> HIDE DEF l
      <3>5. \A i \in DOMAIN lemmas' : Grounded(lemmas'[i])
        BY <1>1, <3>1, <3>4, PushGrounded DEF OriginInv
      <3>6. QED
        BY <2>2, <3>1, <3>5 DEF OriginInv
    <2>5. CASE ~PushKnown /\ ~Condition
      <3>1. /\ lemmas' = lemmas
            /\ \/ task' \in {"known", "done"}
               \/ task' = "conditional" /\ CoveredBoxes # {} /\ ~Infeasible(Residual({}))
        BY <1>3, <2>5 DEF BridgeNext, Answered, Harvested, NextFamily, NoSubModel,
           BaseRefuted, BaseFeasible, ConditionalDone
      <3>2. QED
        BY <2>2, <3>1 DEF OriginInv
    <2>6. QED
      BY <2>3, <2>4, <2>5
  <1>4. QED
    BY <1>2, <1>3

---------------------------------------------------------------------------
(* The verification of a document the generator wrote. *)

LEMMA SameClauses ==
    /\ \A K : C!Tautology(K) <=> Tautology(K)
    /\ \A f : C!ClausesOf(f) = ClausesOf(f)
    /\ \A F, K : C!Entails(F, K) <=> Entails(F, K)
  <1>1. \A f : C!ClausesOf(f) = ClausesOf(f)
    BY DEF C!ClausesOf, ClausesOf
  <1>2. \A K : C!Tautology(K) <=> Tautology(K)
    BY DEF C!Tautology, Tautology
  <1>3. \A F, K : C!Entails(F, K) <=> Entails(F, K)
    BY DEF C!Entails, Entails, C!VariablesOf, VariablesOf, C!Variable, Variable,
       C!SatisfiesAll, SatisfiesAll, C!Satisfies, Satisfies, C!LiteralTrue, LiteralTrue
  <1>4. QED
    BY <1>1, <1>2, <1>3

LEMMA SameFamilies ==
    ASSUME document = Document
    PROVE  /\ \A b \in DOMAIN boxes :
                C!ExactRFamily(boxes[b].group, boxes[b].demand) = BoxClauses(b)
           /\ \A r \in DOMAIN resources :
                C!CapacityFamily(resources[r].group, resources[r].capacity) = ResourceClauses(r)
  <1>1. \A g, k, sign : C!Combinations(g, k, sign) = Combinations(g, k, sign)
    BY SameCardinality DEF C!Combinations, Combinations, C!kSubset, kSubset
  <1>2. QED
    BY <1>1, SameCardinality
       DEF C!ExactRFamily, C!CapacityFamily, BoxClauses, ResourceClauses, ExactFamily

\* What is true at each point of a verification without complaints.
CheckInv ==
    /\ checkPc \in {"parse", "replay", "boxes", "resources", "lemmas", "done"}
    /\ replayErrors = {} /\ familyErrors = {} /\ refuted = {}
    /\ checked \in Nat
    /\ checkPc = "replay" => \A i \in 1 .. checked : recovery.clauses[i] \in proven
    /\ checkPc \in {"boxes", "resources", "lemmas"} => Clauses \subseteq proven
    /\ checkPc = "boxes" => \A b \in 1 .. checked : BoxClauses(b) \subseteq supported
    /\ checkPc \in {"resources", "lemmas"} => \A b \in DOMAIN boxes : BoxClauses(b) \subseteq supported
    /\ checkPc = "resources" => \A r \in 1 .. checked : ResourceClauses(r) \subseteq supported
    /\ checkPc = "lemmas" => \A r \in DOMAIN resources : ResourceClauses(r) \subseteq supported

VerifyInv ==
    /\ stage = "generate" => C!Fresh
    /\ stage = "verify" /\ Clean => CheckInv

\* The state a document is verified in.
Subject == TransferInv /\ OriginInv /\ document = Document /\ Clean /\ CheckInv

LEMMA FamiliesRecovered ==
    ASSUME RegistryInv, AllExact
    PROVE  FamilyClauses \subseteq Clauses
  <1>1. \A b \in DOMAIN boxes : BoxClauses(b) \subseteq Clauses
    BY DEF AllExact, IsExactBox, BoxClauses
  <1>2. \A r \in DOMAIN resources : ResourceClauses(r) \subseteq Clauses
    BY DEF RegistryInv, ResourcesInv, IsResource, ResourceClauses
  <1>3. QED
    BY <1>1, <1>2 DEF FamilyClauses

LEMMA SameLength ==
    ASSUME NEW cs, NEW R, cs \in Seq(R), DOMAIN Records = DOMAIN cs
    PROVE  Len(Records) = Len(cs)
  <1> DEFINE n == Len(cs)
             recs == Records
             S == {recs[k] : k \in DOMAIN cs}
  <1>1. recs = [k \in 1 .. n |-> recs[k]] /\ n \in Nat /\ DOMAIN cs = 1 .. n
    BY DEF Records
  <1>2. \A k \in 1 .. n : recs[k] \in S
    BY <1>1
  <1> HIDE DEF recs, S, n
  <1>3. recs \in Seq(S)
    BY <1>1, <1>2
  <1>4. Len(recs) \in Nat /\ DOMAIN recs = 1 .. Len(recs) /\ DOMAIN recs = 1 .. n
    BY <1>1, <1>3
  <1>5. QED
    BY <1>1, <1>4 DEF recs, n

\* A step of the recovery replays.
LEMMA StepReplays ==
    ASSUME Subject, C!Replaying
    PROVE  /\ C!Rederived(C!Record) /\ ~C!Tautology(C!Record.clause)
           /\ C!Record.clause = recovery.clauses[checked + 1]
  <1> DEFINE i == checked + 1
             cs == recovery.clauses
             s == recovery.steps[i]
  <1>1. recovery \in Databases /\ document.database = Records /\ checked \in Nat
    BY DEF Subject, TransferInv, BridgeInv, HarvestInv, RegistryInv, RegTyped, Document, CheckInv
  <1>2. cs \in Seq(LiteralSet) /\ DOMAIN Records = DOMAIN cs
    BY <1>1, DatabasesAssumption DEF Records
  <1>3. checked < Len(Records)
    BY <1>1 DEF C!Replaying
  <1>4. Len(Records) = Len(cs)
    BY <1>2, SameLength
  <1>5. i \in DOMAIN cs /\ \A j \in 1 .. checked : j \in DOMAIN cs
    BY <1>1, <1>2, <1>3, <1>4
  <1>6. \A k \in DOMAIN cs :
          /\ document.database[k].clause = cs[k]
          /\ document.database[k].original = recovery.steps[k].original
          /\ document.database[k].parentA = recovery.steps[k].a
          /\ document.database[k].parentB = recovery.steps[k].b
          /\ document.database[k].pivot = recovery.steps[k].pivot
    BY <1>1 DEF Records
  <1>7. C!Record = document.database[i]
    BY DEF C!Record
  <1>8. cs[i] \in Clauses
    BY <1>5 DEF Clauses, ClausesOf
  <1>9. ~Tautology(cs[i])
    BY <1>1, <1>8, CleanClauses DEF Subject
  <1>10. C!Rederived(C!Record)
    <2>1. Derives(recovery, i)
      BY <1>1, <1>5, RecoveriesAssumption
    <2> HIDE DEF i, cs
    <2>2. CASE s.original
      <3>1. cs[i] \in ClausesOf(recovery.formula)
        BY <2>1, <2>2 DEF Derives, cs
      <3>2. QED
        BY <1>5, <1>6, <1>7, <2>2, <3>1, SameClauses DEF C!Rederived
    <2>3. CASE ~s.original
      <3>1. /\ s.a \in 1 .. i - 1 /\ s.b \in 1 .. i - 1
            /\ Pivots(cs[s.a], cs[s.b]) = {s.pivot}
            /\ cs[i] = Resolvent(cs[s.a], cs[s.b], s.pivot)
        BY <2>1, <2>3 DEF Derives, cs
      <3>2. s.a \in 1 .. checked /\ s.b \in 1 .. checked
        BY <1>1, <3>1 DEF i
      <3>3. s.pivot \in cs[s.a] /\ -s.pivot \in cs[s.b]
        BY <3>1 DEF Pivots
      <3>4. C!IsResolvent(document.database[i])
        BY <1>5, <1>6, <3>1, <3>2, <3>3 DEF C!IsResolvent, C!Resolvent, Resolvent
      <3>5. QED
        BY <1>5, <1>6, <1>7, <2>3, <3>4 DEF C!Rederived
    <2>4. QED
      BY <2>2, <2>3
  <1>11. QED
    BY <1>5, <1>6, <1>7, <1>9, <1>10, SameClauses

\* No family makes itertools or as_clause raise, and all are proven.
LEMMA FamiliesJudged ==
    ASSUME Subject, Clauses \subseteq proven
    PROVE  /\ \A b \in DOMAIN boxes : BoxClauses(b) \subseteq proven /\ ~C!BoxRaises(boxes[b])
           /\ \A r \in DOMAIN resources :
                ResourceClauses(r) \subseteq proven /\ ~C!ResourceRaises(resources[r])
  <1>1. /\ RegistryInv /\ AllExact /\ recovery \in Databases /\ Clean /\ document = Document
        /\ FamilyClauses \subseteq Clauses
    BY FamiliesRecovered
       DEF Subject, TransferInv, BridgeInv, HarvestInv, RegistryInv, RegTyped
  <1>2. /\ \A b \in DOMAIN boxes : BoxClauses(b) \subseteq Clauses
        /\ \A r \in DOMAIN resources : ResourceClauses(r) \subseteq Clauses
    BY <1>1 DEF FamilyClauses
  <1>3. \A K \in Clauses : ~C!Tautology(K)
    BY <1>1, CleanClauses, SameClauses
  <1>4. ASSUME NEW b \in DOMAIN boxes
        PROVE  ~C!BoxRaises(boxes[b])
    <2>1. boxes[b].demand \in 1 .. Cardinality(boxes[b].group) - 1 /\ VariableSet(boxes[b].group)
      BY <1>1 DEF AllExact, IsExactBox
    <2>2. Cardinality(boxes[b].group) \in Nat
      BY <2>1, FS_CardinalityType DEF VariableSet
    <2>3. ~(boxes[b].demand < -1) /\ ~(boxes[b].demand > Cardinality(boxes[b].group) + 1)
      BY <2>1, <2>2
    <2>4. QED
      BY <1>1, <1>2, <1>3, <2>3, SameFamilies, SameCardinality DEF C!BoxRaises
  <1>5. ASSUME NEW r \in DOMAIN resources
        PROVE  ~C!ResourceRaises(resources[r])
    <2>1. ~(resources[r].capacity < -1)
      BY <1>1 DEF RegistryInv, ResourcesInv, IsResource
    <2>2. QED
      BY <1>1, <1>2, <1>3, <2>1, SameFamilies DEF C!ResourceRaises
  <1>6. QED
    BY <1>2, <1>4, <1>5

\* No lemma makes as_clause raise, and the solver refutes none.
LEMMA LemmasJudged ==
    ASSUME Subject, NEW i \in DOMAIN lemmas
    PROVE  ~C!Tautology(lemmas[i].clause) /\ C!Implied(lemmas[i].clause)
  <1>1. /\ RegistryInv /\ AllExact /\ recovery \in Databases /\ Clean /\ LemmasInv
        /\ Grounded(lemmas[i])
    BY DEF Subject, TransferInv, BridgeInv, HarvestInv, RegistryInv, RegTyped, OriginInv
  <1>2. Entails(Formula, lemmas[i].clause)
    BY <1>1, LemmasEntailed
  <1>3. lemmas[i].origin \in Origins
    <2> DEFINE S == LemmaRecord(EntailedClauses)
    <2>1. lemmas \in Seq(S)
      BY <1>1 DEF LemmasInv
    <2> HIDE DEF S
    <2>2. lemmas[i] \in S
      BY <2>1
    <2>3. QED
      BY <2>2 DEF S, LemmaRecord
  <1>4. CASE lemmas[i].origin # "conditional_capacity_conflict"
    <2>1. lemmas[i].clause \in Clauses
      BY <1>1, <1>3, <1>4, FamiliesRecovered DEF Grounded, Origins
    <2>2. ~Tautology(lemmas[i].clause)
      BY <1>1, <2>1, CleanClauses
    <2>3. QED
      BY <1>2, <2>2, SameClauses DEF C!Implied, Formula
  <1>5. CASE lemmas[i].origin = "conditional_capacity_conflict"
    <2> DEFINE T == lemmas[i].support
    <2>1. lemmas[i].clause = {-v : v \in T} /\ T \subseteq Nat \ {0}
      BY <1>1, <1>5, CoveredIsFinite DEF Grounded
    <2> HIDE DEF T
    <2>2. \A l \in {-v : v \in T} : l \in Int /\ l < 0 /\ ~(-l < 0)
      BY <2>1
    <2>3. ~Tautology(lemmas[i].clause)
      BY <2>1, <2>2 DEF Tautology
    <2>4. QED
      BY <1>2, <2>3, SameClauses DEF C!Implied, Formula
  <1>6. QED
    BY <1>4, <1>5

LEMMA CheckStep ==
    ASSUME Subject, Verifying
    PROVE  CheckInv'
  <1>1. /\ UNCHANGED <<recovery, boxes, resources>> /\ document' = document
        /\ C!Verify
    BY DocumentStays DEF Verifying, bridgeVars, harvestVars, regVars
  <1>2. /\ Clauses' = Clauses
        /\ \A b : BoxClauses(b)' = BoxClauses(b)
        /\ \A r : ResourceClauses(r)' = ResourceClauses(r)
    BY <1>1 DEF Clauses, BoxClauses, ResourceClauses
  <1>3. /\ document.boxes = boxes /\ Len(document.resources) = Len(resources)
        /\ \A r \in DOMAIN resources :
             /\ document.resources[r].group = resources[r].group
             /\ document.resources[r].capacity = resources[r].capacity
        /\ document.lemmas = lemmas /\ document = Document
        /\ CheckInv /\ Clean
        /\ recovery \in Databases /\ boxes \in Seq(BoxRecord) /\ resources \in Seq(ResourceRecord)
        /\ recovery.clauses \in Seq(LiteralSet)
    BY DatabasesAssumption, FamiliesWritten
       DEF Subject, TransferInv, BridgeInv, HarvestInv, RegistryInv, RegTyped, Document
  <1>4. lemmas \in Seq({lemmas[i] : i \in DOMAIN lemmas})
    <2> DEFINE S == LemmaRecord(EntailedClauses)
    <2>1. lemmas \in Seq(S)
      BY DEF Subject, TransferInv, BridgeInv, LemmasInv
    <2> HIDE DEF S
    <2>2. QED
      BY <2>1
  <1>5. CASE C!Parsed
    BY <1>1, <1>2, <1>3, <1>5 DEF CheckInv, C!Parsed, C!Proceed, C!replayed, C!familied, C!verdicts
  <1>6. CASE C!RaiseOnFormula
    <2>1. \E D \in ClausesOf(recovery.formula) : Tautology(D)
      BY <1>6, SameClauses DEF C!RaiseOnFormula
    <2>2. QED
      BY <1>3, <2>1 DEF Clean, Formula
  <1>7. CASE C!ProveRecord \/ C!ComplainAboutRecord \/ C!RaiseOnRecord
    <2>1. C!Replaying
      BY <1>7 DEF C!ProveRecord, C!ComplainAboutRecord, C!RaiseOnRecord
    <2>2. /\ C!Rederived(C!Record) /\ ~C!Tautology(C!Record.clause)
          /\ C!Record.clause = recovery.clauses[checked + 1]
      BY <2>1, StepReplays
    <2>3. C!ProveRecord
      BY <1>7, <2>2 DEF C!ComplainAboutRecord, C!RaiseOnRecord
    <2>4. /\ checkPc = "replay" /\ checkPc' = checkPc /\ checked' = checked + 1
          /\ proven' = proven \cup {recovery.clauses[checked + 1]}
          /\ UNCHANGED <<replayErrors, familyErrors, refuted, supported>>
      BY <2>1, <2>2, <2>3 DEF C!ProveRecord, C!Replaying, C!familied, C!verdicts
    <2>5. QED
      BY <1>1, <1>2, <1>3, <2>4 DEF CheckInv
  <1>8. CASE C!ReplayDone
    <2>1. /\ checkPc = "replay" /\ checkPc' = "boxes" /\ checked' = 0
          /\ checked = Len(document.database)
          /\ UNCHANGED <<proven, replayErrors, familyErrors, refuted, supported>>
      BY <1>8 DEF C!ReplayDone, C!Proceed, C!replayed, C!familied, C!verdicts
    <2>2. Clauses \subseteq proven
      <3>1. DOMAIN document.database = DOMAIN recovery.clauses
        BY <1>3 DEF Document, Records
      <3>2. Len(document.database) = Len(recovery.clauses)
        BY <1>3, <3>1, SameLength DEF Document
      <3>3. DOMAIN recovery.clauses = 1 .. checked
        BY <1>3, <2>1, <3>2
      <3>4. QED
        BY <1>3, <2>1, <3>3 DEF CheckInv, Clauses, ClausesOf
    <2>3. QED
      BY <1>1, <1>2, <1>3, <2>1, <2>2 DEF CheckInv
  <1>9. CASE C!JudgeBox \/ C!RaiseOnBox
    <2>1. checkPc = "boxes" /\ checked < Len(boxes) /\ checked \in Nat /\ Clauses \subseteq proven
      BY <1>3, <1>9 DEF C!JudgeBox, C!RaiseOnBox, C!Boxing, CheckInv
    <2>2. checked + 1 \in DOMAIN boxes
      BY <1>3, <2>1
    <2>3. BoxClauses(checked + 1) \subseteq proven /\ ~C!BoxRaises(boxes[checked + 1])
      BY <2>1, <2>2, FamiliesJudged
    <2>4. C!ExactRFamily(boxes[checked + 1].group, boxes[checked + 1].demand)
            = BoxClauses(checked + 1)
      BY <1>3, <2>2, SameFamilies
    <2>5. /\ checkPc' = checkPc /\ checked' = checked + 1
          /\ supported' = supported \cup BoxClauses(checked + 1)
          /\ UNCHANGED <<proven, replayErrors, familyErrors, refuted>>
      BY <1>3, <1>9, <2>3, <2>4
         DEF C!JudgeBox, C!RaiseOnBox, C!JudgeFamily, C!replayed, C!verdicts
    <2>6. QED
      BY <1>1, <1>2, <1>3, <2>1, <2>5 DEF CheckInv
  <1>10. CASE C!BoxesDone
    <2>1. /\ checkPc = "boxes" /\ checkPc' = "resources" /\ checked' = 0
          /\ checked = Len(boxes)
          /\ UNCHANGED <<proven, replayErrors, familyErrors, refuted, supported>>
      BY <1>3, <1>10 DEF C!BoxesDone, C!Proceed, C!replayed, C!familied, C!verdicts
    <2>2. DOMAIN boxes = 1 .. checked
      BY <1>3, <2>1
    <2>3. QED
      BY <1>1, <1>2, <1>3, <2>1, <2>2 DEF CheckInv
  <1>11. CASE C!JudgeResource \/ C!RaiseOnResource
    <2>1. checkPc = "resources" /\ checked < Len(resources) /\ checked \in Nat /\ Clauses \subseteq proven
      BY <1>3, <1>11 DEF C!JudgeResource, C!RaiseOnResource, C!Resourcing, CheckInv
    <2>2. checked + 1 \in DOMAIN resources
      BY <1>3, <2>1
    <2>3. ResourceClauses(checked + 1) \subseteq proven /\ ~C!ResourceRaises(resources[checked + 1])
      BY <2>1, <2>2, FamiliesJudged
    <2>4. C!CapacityFamily(resources[checked + 1].group, resources[checked + 1].capacity)
            = ResourceClauses(checked + 1)
      BY <1>3, <2>2, SameFamilies
    <2>5. /\ document.resources[checked + 1].group = resources[checked + 1].group
          /\ document.resources[checked + 1].capacity = resources[checked + 1].capacity
      BY <1>3, <2>2
    <2>6. ~C!ResourceRaises(document.resources[checked + 1])
      BY <2>3, <2>5 DEF C!ResourceRaises
    <2>7. C!JudgeResource
      BY <1>11, <2>6 DEF C!RaiseOnResource
    <2>8. /\ checkPc' = checkPc /\ checked' = checked + 1
          /\ supported' = supported \cup ResourceClauses(checked + 1)
          /\ UNCHANGED <<proven, replayErrors, familyErrors, refuted>>
      BY <2>3, <2>4, <2>5, <2>7 DEF C!JudgeResource, C!JudgeFamily, C!replayed, C!verdicts
    <2>9. QED
      BY <1>1, <1>2, <1>3, <2>1, <2>8 DEF CheckInv
  <1>12. CASE C!ResourcesDone
    <2>1. /\ checkPc = "resources" /\ checkPc' = "lemmas" /\ checked' = 0
          /\ checked = Len(resources)
          /\ UNCHANGED <<proven, replayErrors, familyErrors, refuted, supported>>
      BY <1>3, <1>12 DEF C!ResourcesDone, C!Proceed, C!replayed, C!familied, C!verdicts
    <2>2. DOMAIN resources = 1 .. checked
      BY <1>3, <2>1
    <2>3. QED
      BY <1>1, <1>2, <1>3, <2>1, <2>2 DEF CheckInv
  <1>13. CASE C!RaiseOnLemma \/ C!AcceptLemma \/ C!RejectLemma \/ C!RefuteLemma
    <2>1. checkPc = "lemmas" /\ checked < Len(lemmas) /\ checked \in Nat
      BY <1>3, <1>13
         DEF C!RaiseOnLemma, C!AcceptLemma, C!RejectLemma, C!RefuteLemma, C!Judging, CheckInv
    <2>2. checked + 1 \in DOMAIN lemmas
      BY <1>4, <2>1
    <2>3. ~C!Tautology(lemmas[checked + 1].clause) /\ C!Implied(lemmas[checked + 1].clause)
      BY <2>2, LemmasJudged
    <2>4. C!Lemma = lemmas[checked + 1]
      BY <1>3 DEF C!Lemma
    <2>5. /\ checkPc' = checkPc /\ checked' = checked + 1
          /\ UNCHANGED <<proven, replayErrors, familyErrors, refuted, supported>>
      BY <1>13, <2>3, <2>4
         DEF C!RaiseOnLemma, C!AcceptLemma, C!RejectLemma, C!RefuteLemma, C!replayed, C!familied,
             C!verdicts
    <2>6. QED
      BY <1>1, <1>2, <1>3, <2>1, <2>5 DEF CheckInv
  <1>14. CASE C!VerificationBudget \/ C!LemmasDone
    <2>1. checkPc = "lemmas" /\ checked \in Nat
      BY <1>3, <1>14 DEF C!VerificationBudget, C!LemmasDone, C!Judging, CheckInv
    <2>2. \A i \in checked + 1 .. Len(lemmas) : ~C!Tautology(lemmas[i].clause)
      <3>1. \A i \in checked + 1 .. Len(lemmas) : i \in DOMAIN lemmas
        BY <1>4, <2>1
      <3>2. QED
        BY <3>1, LemmasJudged
    <2>3. /\ checkPc' = "done" /\ checked' = 0
          /\ UNCHANGED <<proven, replayErrors, familyErrors, refuted, supported>>
      BY <1>3, <1>14, <2>2
         DEF C!VerificationBudget, C!LemmasDone, C!Proceed, C!replayed, C!familied, C!verdicts
    <2>4. QED
      BY <1>1, <1>2, <1>3, <2>3 DEF CheckInv
  <1>15. QED
    BY <1>1, <1>5, <1>6, <1>7, <1>8, <1>9, <1>10, <1>11, <1>12, <1>13, <1>14 DEF C!Verify

\* Each lemma is confirmed for its origin.
LEMMA LemmasConfirmed ==
    ASSUME Subject, checkPc = "lemmas", NEW i \in DOMAIN lemmas
    PROVE  C!StructurallyOk(lemmas[i])
  <1> DEFINE l == lemmas[i]
  <1>1. /\ RegistryInv /\ AllExact /\ LemmasInv /\ Grounded(l) /\ document = Document
        /\ FamilyClauses \subseteq Clauses
    BY FamiliesRecovered DEF Subject, TransferInv, BridgeInv, HarvestInv, OriginInv
  <1>2. Clauses \subseteq proven /\ FamilyClauses \subseteq supported
    <2>1. /\ Clauses \subseteq proven
          /\ \A b \in DOMAIN boxes : BoxClauses(b) \subseteq supported
          /\ \A r \in DOMAIN resources : ResourceClauses(r) \subseteq supported
      BY DEF Subject, CheckInv
    <2>2. QED
      BY <2>1 DEF FamilyClauses
  <1>3. l.origin \in Origins
    <2> DEFINE S == LemmaRecord(EntailedClauses)
    <2>1. lemmas \in Seq(S)
      BY <1>1 DEF LemmasInv
    <2> HIDE DEF S
    <2>2. lemmas[i] \in S
      BY <2>1
    <2>3. QED
      BY <2>2 DEF S, LemmaRecord
  <1> HIDE DEF l
  <1>4. CASE l.origin \in {"exact_r_family", "capacity_family"}
    <2>1. l.clause \in proven /\ l.clause \in supported /\ l.origin # "conditional_capacity_conflict"
      BY <1>1, <1>2, <1>4 DEF Grounded
    <2>2. C!StructurallyOk(l)
      BY <1>4, <2>1 DEF C!StructurallyOk
    <2>3. QED
      BY <2>2 DEF l
  <1>5. CASE l.origin = "bounded_resolution_resolvent"
    <2>1. l.clause \in proven
      BY <1>1, <1>2, <1>5 DEF Grounded
    <2>2. C!StructurallyOk(l)
      BY <1>5, <2>1 DEF C!StructurallyOk
    <2>3. QED
      BY <2>2 DEF l
  <1>6. CASE l.origin = "conditional_capacity_conflict"
    <2> DEFINE T == l.support
    <2>1. /\ l.clause = {-v : v \in T} /\ T \in SUBSET CoveredVariables /\ Conflicts(T)
          /\ CoveredBoxes # {} /\ ~Infeasible(Residual({}))
      BY <1>1, <1>6 DEF Grounded
    <2>2. C!StructuralResult = "FEASIBLE" /\ C!Applicable(T)
      BY <1>1, <2>1, SameResult, SameSubModel DEF C!Applicable
    <2>3. C!Exceeds(T) \/ C!ExhaustiveBoxTest(C!SubModelInstance(T)) = "UNSAT"
      <3> HIDE DEF T
      <3>1. /\ C!SubModelInstance(T) = Residual(T)
            /\ C!Exceeds(T) <=> Overcommitted(T)
        BY <1>1, <2>1, SameInstance
      <3>2. C!ExhaustiveBoxTest(C!SubModelInstance(T)) = ExhaustiveBoxTest(Residual(T))
        BY <3>1, SameTest
      <3>3. QED
        BY <2>1, <3>1, <3>2 DEF Conflicts, Infeasible
    <2>4. C!Confirmed(l)
      BY <2>1, <2>2, <2>3 DEF C!Confirmed
    <2>5. C!StructurallyOk(l)
      BY <1>6, <2>4 DEF C!StructurallyOk
    <2>6. QED
      BY <2>5 DEF l
  <1>7. QED
    BY <1>3, <1>4, <1>5, <1>6 DEF Origins

---------------------------------------------------------------------------
(* The two processes. *)

ConfirmInv == TransferInv /\ OriginInv /\ VerifyInv

LEMMA ConfirmStarts == TransferInit => ConfirmInv
  <1> SUFFICES ASSUME TransferInit
               PROVE  ConfirmInv
    OBVIOUS
  <1>1. TransferInv
    BY TransferStarts
  <1>2. OriginInv
    BY DEF TransferInit, BridgeInit, BridgeFresh, OriginInv
  <1>3. VerifyInv
    BY DEF TransferInit, VerifyInv
  <1>4. QED
    BY <1>1, <1>2, <1>3 DEF ConfirmInv

LEMMA OriginStays ==
    ASSUME OriginInv, UNCHANGED bridgeVars
    PROVE  OriginInv'
  <1>1. UNCHANGED <<recovery, boxes, resources, task, lemmas>>
    BY DEF bridgeVars, harvestVars, regVars, generatorVars
  <1>2. /\ CoveredBoxes' = CoveredBoxes
        /\ Infeasible(Residual({}))' <=> Infeasible(Residual({}))
        /\ \A l : Grounded(l) => Grounded(l)'
    BY <1>1, GroundedStays
  <1>3. QED
    BY <1>1, <1>2 DEF OriginInv

LEMMA FreshChecks ==
    ASSUME C!Fresh, UNCHANGED checkVars
    PROVE  C!Fresh' /\ CheckInv'
  <1>1. C!Fresh'
    BY DEF C!Fresh, checkVars
  <1>2. /\ checkPc' = "parse" /\ checked' = 0
        /\ replayErrors' = {} /\ familyErrors' = {} /\ refuted' = {}
    BY DEF C!Fresh, checkVars
  <1>3. CheckInv'
    BY <1>2 DEF CheckInv
  <1>4. QED
    BY <1>1, <1>3

LEMMA ConfirmStep == ConfirmInv /\ [TransferNext]_transferVars => ConfirmInv'
  <1> SUFFICES ASSUME ConfirmInv, [TransferNext]_transferVars
               PROVE  ConfirmInv'
    OBVIOUS
  <1>1. TransferInv /\ OriginInv /\ VerifyInv /\ TransferInv'
    BY TransferStep DEF ConfirmInv
  <1>2. CASE Run
    <2>1. BridgeNext /\ stage' = stage /\ stage # "verify" /\ UNCHANGED checkVars
      BY <1>2 DEF Run
    <2>2. OriginInv'
      BY <1>1, <2>1, OriginStep DEF TransferInv
    <2>3. VerifyInv'
      BY <1>1, <2>1, FreshChecks DEF VerifyInv
    <2>4. QED
      BY <1>1, <2>2, <2>3 DEF ConfirmInv
  <1>3. CASE NoDocument \/ Verified
    <2>1. PICK d : Start(d)
      BY <1>3 DEF NoDocument, Verified, Rerun
    <2>2. stage' = "rerun" /\ task' = "harvest" /\ lemmas' = <<>>
      BY <2>1 DEF Start
    <2>3. OriginInv' /\ VerifyInv'
      BY <2>2 DEF OriginInv, VerifyInv
    <2>4. QED
      BY <1>1, <2>3 DEF ConfirmInv
  <1>4. CASE Verifying
    <2>1. UNCHANGED bridgeVars /\ stage' = "verify" /\ stage = "verify"
      BY <1>4 DEF Verifying
    <2>2. OriginInv'
      BY <1>1, <2>1, OriginStays
    <2>3. Clean' <=> Clean
      BY <2>1 DEF bridgeVars, harvestVars, regVars, Clean, Formula
    <2>4. ASSUME Clean
          PROVE  CheckInv'
      <3>1. Subject
        BY <1>1, <2>1, <2>4 DEF Subject, VerifyInv, TransferInv, DocumentInv
      <3>2. QED
        BY <1>4, <3>1, CheckStep
    <2>5. VerifyInv'
      BY <2>1, <2>3, <2>4 DEF VerifyInv
    <2>6. QED
      BY <1>1, <2>2, <2>5 DEF ConfirmInv
  <1>5. CASE Write
    <2>1. UNCHANGED <<bridgeVars, checkVars>> /\ stage' = "verify" /\ C!Fresh
      BY <1>1, <1>5 DEF Write, VerifyInv
    <2>2. OriginInv' /\ CheckInv'
      BY <1>1, <2>1, OriginStays, FreshChecks
    <2>3. QED
      BY <1>1, <2>1, <2>2 DEF ConfirmInv, VerifyInv
  <1>6. CASE \/ TornDocument \/ Stopped \/ AnswerStructurally \/ Inject \/ RunCadical
             \/ RunKissat \/ ForkFails \/ Killed \/ Report
    <2>1. UNCHANGED bridgeVars /\ stage' \notin {"generate", "verify"}
      BY <1>6 DEF TornDocument, Stopped, AnswerStructurally, Inject, RunCadical, RunKissat,
         ForkFails, Killed, Report
    <2>2. OriginInv'
      BY <1>1, <2>1, OriginStays
    <2>3. QED
      BY <1>1, <2>1, <2>2 DEF ConfirmInv, VerifyInv
  <1>7. CASE UNCHANGED transferVars
    <2>1. UNCHANGED <<bridgeVars, checkVars>> /\ stage' = stage
      BY <1>7 DEF transferVars
    <2>2. OriginInv'
      BY <1>1, <2>1, OriginStays
    <2>3. Clean' <=> Clean
      BY <2>1 DEF bridgeVars, harvestVars, regVars, Clean, Formula
    <2>4. CheckInv' <=> CheckInv
      BY <2>1 DEF bridgeVars, harvestVars, regVars, checkVars, CheckInv, Clauses, BoxClauses,
         ResourceClauses
    <2>5. C!Fresh' <=> C!Fresh
      BY <2>1 DEF checkVars, C!Fresh
    <2>6. QED
      BY <1>1, <2>1, <2>2, <2>3, <2>4, <2>5 DEF ConfirmInv, VerifyInv
  <1>8. QED
    BY <1>2, <1>3, <1>4, <1>5, <1>6, <1>7 DEF TransferNext, Progress, Over

(* Generator and verifier agree, for every formula parse_cnf takes, every  *)
(* recovery of it, budget and limit: the verification of a document the    *)
(* generator wrote goes without a complaint, and its structural checks     *)
(* confirm every lemma, of whatever origin.                                *)
THEOREM VerifierAgrees == TransferSpec => []VerifierConfirms
  <1>1. ConfirmInv => VerifierConfirms
    <2> SUFFICES ASSUME ConfirmInv, stage = "verify", ~(\E D \in Formula : Tautology(D))
                 PROVE  /\ replayErrors = {} /\ familyErrors = {} /\ refuted = {}
                        /\ checkPc # "raised"
                        /\ checkPc = "lemmas" =>
                             \A i \in DOMAIN document.lemmas : C!StructurallyOk(document.lemmas[i])
      BY DEF VerifierConfirms
    <2>1. Subject
      BY DEF Subject, ConfirmInv, VerifyInv, Clean, TransferInv, DocumentInv
    <2>2. document.lemmas = lemmas
      BY <2>1 DEF Subject, Document
    <2>3. QED
      BY <2>1, <2>2, LemmasConfirmed DEF Subject, CheckInv
  <1>2. QED
    BY <1>1, ConfirmStarts, ConfirmStep, PTL DEF TransferSpec

=============================================================================
