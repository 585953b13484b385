----------------------------- MODULE BasicLemmas -----------------------------
(***************************************************************************)
(* Facts about resolution and cardinality clauses, about sums over finite  *)
(* sets, and about what these say of a capacity instance.                  *)
(*                                                                         *)
(* The sums of the community modules are folds, defined by recursion over  *)
(* subsets.  That the recursion has a solution is shown by naming one,     *)
(* which counts units instead of adding numbers (Units), and that it has   *)
(* no other one by induction; SumAdd, SumEmpty and SumInt are all that is  *)
(* used of it afterwards.                                                  *)
(***************************************************************************)
EXTENDS CNF, Capacity, FiniteSetTheorems, WellFoundedInduction, TLAPS

---------------------------------------------------------------------------
(* Resolution. *)

(* The resolvent of two canonical clauses is canonical unless it is a      *)
(* tautology, which canonical_clause reports.                              *)
LEMMA ResolventIsClause ==
    ASSUME NEW C \in Clause, NEW D \in Clause, NEW p,
           ~Tautology(Resolvent(C, D, p))
    PROVE  Resolvent(C, D, p) \in Clause
  <1>1. IsFiniteSet(C \ {p}) /\ IsFiniteSet(D \ {-p})
    BY FS_Subset DEF Clause
  <1>2. IsFiniteSet(Resolvent(C, D, p))
    BY <1>1, FS_Union DEF Resolvent
  <1>3. Resolvent(C, D, p) \in SUBSET Literal
    BY DEF Resolvent, Clause
  <1>4. QED
    BY <1>2, <1>3 DEF Clause

(* An assignment that satisfies two clauses satisfies their resolvent: the *)
(* pivot and its negation are not both true.                               *)
LEMMA ResolventHolds ==
    ASSUME NEW A, NEW C \in SUBSET Literal, NEW D \in SUBSET Literal, NEW p \in Literal,
           Satisfies(A, C), Satisfies(A, D)
    PROVE  Satisfies(A, Resolvent(C, D, p))
  <1>1. PICK c \in C : LiteralTrue(A, c)
    BY DEF Satisfies
  <1>2. PICK d \in D : LiteralTrue(A, d)
    BY DEF Satisfies
  <1>3. c \in Int /\ d \in Int /\ p \in Int /\ p # 0
    BY DEF Literal
  <1>4. ~(c = p /\ d = -p)
    BY <1>1, <1>2, <1>3 DEF LiteralTrue
  <1>5. CASE c # p
    BY <1>1, <1>5 DEF Satisfies, Resolvent
  <1>6. CASE d # -p
    BY <1>2, <1>6 DEF Satisfies, Resolvent
  <1>7. QED
    BY <1>4, <1>5, <1>6

---------------------------------------------------------------------------
(* Cardinality clauses. *)

LEMMA IntervalFinite == \A a, b \in Int : IsFiniteSet(a .. b)
  BY FS_Interval

(* A finite set has a subset of every smaller size. *)
LEMMA SubsetOfSize ==
    ASSUME NEW S, IsFiniteSet(S), NEW k \in Nat, k <= Cardinality(S)
    PROVE  \E T \in SUBSET S : Cardinality(T) = k
  <1> DEFINE n == Cardinality(S)
  <1>1. n \in Nat /\ ExistsBijection(1 .. n, S)
    BY FS_CardinalityType
  <1>2. PICK f \in Bijection(1 .. n, S) : TRUE
    BY <1>1 DEF ExistsBijection
  <1> DEFINE T == {f[i] : i \in 1 .. k}
             g == [i \in 1 .. k |-> f[i]]
  <1>3. 1 .. k \subseteq 1 .. n
    BY <1>1
  <1>4. /\ f \in [1 .. n -> S]
        /\ \A i, j \in 1 .. n : f[i] = f[j] => i = j
    BY <1>2 DEF Bijection, Injection, Surjection, IsInjective
  <1>5. g \in Bijection(1 .. k, T)
    BY <1>3, <1>4 DEF Bijection, Injection, Surjection, IsInjective
  <1>6. IsFiniteSet(1 .. k) /\ Cardinality(1 .. k) = k
    BY FS_Interval
  <1>7. Cardinality(T) = k
    BY <1>5, <1>6, FS_Bijection DEF ExistsBijection
  <1>8. T \in SUBSET S
    BY <1>3, <1>4
  <1>9. QED
    BY <1>7, <1>8

(* The true literals of a finite set can be counted. *)
LEMMA CountType ==
    ASSUME NEW A, NEW g, IsFiniteSet(g)
    PROVE  Count(A, g) \in Nat
  <1>1. {l \in g : LiteralTrue(A, l)} \in SUBSET g
    OBVIOUS
  <1>2. QED
    BY <1>1, FS_Subset, FS_CardinalityType DEF Count

(* Every subset of the right size gives one of the clauses. *)
LEMMA CombinationOf ==
    ASSUME NEW g, NEW k, NEW sign, NEW S \in SUBSET g, Cardinality(S) = k
    PROVE  {sign * v : v \in S} \in Combinations(g, k, sign)
  BY Zenon DEF Combinations, kSubset

(* The clauses that forbid c + 1 true literals bound their number.         *)
LEMMA UpperBoundHolds ==
    ASSUME NEW A, NEW g \in SUBSET Literal, IsFiniteSet(g), NEW c \in Int, c >= -1,
           \A C \in Combinations(g, c + 1, -1) : Satisfies(A, C)
    PROVE  Count(A, g) <= c
  <1> DEFINE T == {l \in g : LiteralTrue(A, l)}
  <1>1. IsFiniteSet(T) /\ Cardinality(T) \in Nat
    BY FS_Subset, FS_CardinalityType
  <1>2. SUFFICES ASSUME Cardinality(T) > c
                 PROVE  FALSE
    BY <1>1 DEF Count
  <1>3. PICK S \in SUBSET T : Cardinality(S) = c + 1
    BY <1>1, <1>2, SubsetOfSize
  <1>4. {(-1) * v : v \in S} \in Combinations(g, c + 1, -1)
    BY <1>3, CombinationOf
  <1>5. PICK v \in S : LiteralTrue(A, (-1) * v)
    BY <1>4 DEF Satisfies
  <1>6. LiteralTrue(A, v) /\ v \in Int /\ v # 0
    BY <1>3, <1>5 DEF Literal
  <1>7. (-1) * v = -v /\ -(-v) = v
    BY <1>6
  <1>8. QED
    BY <1>5, <1>6, <1>7 DEF LiteralTrue

(* The clauses over all but d - 1 literals of a group force d true ones.   *)
LEMMA LowerBoundHolds ==
    ASSUME NEW A, NEW g \in SUBSET Literal, IsFiniteSet(g), NEW d \in Int,
           d <= Cardinality(g) + 1,
           \A C \in Combinations(g, Cardinality(g) - d + 1, 1) : Satisfies(A, C)
    PROVE  Count(A, g) >= d
  <1> DEFINE T == {l \in g : LiteralTrue(A, l)}
             F == g \ T
  <1>1. /\ IsFiniteSet(T) /\ Cardinality(T) \in Nat
        /\ Cardinality(g) \in Nat
    BY FS_Subset, FS_CardinalityType
  <1>2. IsFiniteSet(F) /\ Cardinality(F) = Cardinality(g) - Cardinality(T)
    <2>1. g \cap T = T
      OBVIOUS
    <2>2. QED
      BY <2>1, FS_Difference
  <1>3. SUFFICES ASSUME Cardinality(T) < d
                 PROVE  FALSE
    BY <1>1 DEF Count
  <1>4. PICK S \in SUBSET F : Cardinality(S) = Cardinality(g) - d + 1
    BY <1>1, <1>2, <1>3, SubsetOfSize
  <1>5. {1 * v : v \in S} \in Combinations(g, Cardinality(g) - d + 1, 1)
    BY <1>4, CombinationOf
  <1>6. PICK v \in S : LiteralTrue(A, 1 * v)
    BY <1>5 DEF Satisfies
  <1>7. v \in F /\ v \in Int
    BY <1>4, <1>6 DEF Literal
  <1>8. QED
    BY <1>6, <1>7

---------------------------------------------------------------------------
(* Induction over finite sets, for sets of sets: what holds of the empty   *)
(* set and is kept when an element is added holds of every finite set.     *)
LEMMA FiniteInduction ==
    ASSUME NEW S, IsFiniteSet(S), NEW G, {} \in G,
           \A T \in SUBSET S : \A x \in S \ T : T \in G => T \cup {x} \in G
    PROVE  S \in G
  <1> DEFINE bad == (SUBSET S) \ G
  <1>1. SUFFICES ASSUME S \notin G
                 PROVE  FALSE
    OBVIOUS
  <1>2. bad \subseteq FiniteSubsetsOf(S) /\ bad # {}
    BY <1>1, FS_FiniteSubsetsOfFinite
  <1>3. IsWellFoundedOn(StrictSubsetOrdering(S), FiniteSubsetsOf(S))
    BY FS_StrictSubsetOrderingWellFounded
  <1>4. PICK T \in bad : \A U \in bad : <<U, T>> \notin StrictSubsetOrdering(S)
    <2> HIDE DEF bad
    <2>1. QED
      BY <1>2, <1>3, WFMin
  <1>5. PICK x \in T : TRUE
    OBVIOUS
  <1>6. T \ {x} \notin bad
    BY <1>4, <1>5 DEF StrictSubsetOrdering
  <1>7. T \ {x} \in SUBSET S /\ x \in S \ (T \ {x}) /\ (T \ {x}) \cup {x} = T
    BY <1>5
  <1>8. QED
    BY <1>4, <1>6, <1>7

\* A finite set of integers that has a member has a largest one and a smallest.
LEMMA MaxIsThere ==
    ASSUME NEW S, IsFiniteSet(S), S \subseteq Int, S # {}
    PROVE  Max(S) \in S /\ \A y \in S : Max(S) >= y
  <1> DEFINE G == {T \in SUBSET S : T # {} => \E m \in T : \A y \in T : m >= y}
  <1>1. {} \in G
    OBVIOUS
  <1>2. ASSUME NEW T \in SUBSET S, NEW x \in S \ T, T \in G
        PROVE  T \cup {x} \in G
    <2>1. CASE T = {}
      BY <2>1
    <2>2. CASE T # {}
      <3>1. PICK m \in T : \A y \in T : m >= y
        BY <1>2, <2>2
      <3>2. CASE m >= x
        BY <3>1, <3>2
      <3>3. CASE ~(m >= x)
        BY <3>1, <3>3
      <3>4. QED
        BY <3>2, <3>3
    <2>3. QED
      BY <2>1, <2>2
  <1>3. S \in G
    <2> HIDE DEF G
    <2>1. QED
      BY <1>1, <1>2, FiniteInduction
  <1>4. QED
    BY <1>3 DEF Max

LEMMA MinIsThere ==
    ASSUME NEW S, IsFiniteSet(S), S \subseteq Int, S # {}
    PROVE  Min(S) \in S /\ \A y \in S : Min(S) <= y
  <1> DEFINE G == {T \in SUBSET S : T # {} => \E m \in T : \A y \in T : m <= y}
  <1>1. {} \in G
    OBVIOUS
  <1>2. ASSUME NEW T \in SUBSET S, NEW x \in S \ T, T \in G
        PROVE  T \cup {x} \in G
    <2>1. CASE T = {}
      BY <2>1
    <2>2. CASE T # {}
      <3>1. PICK m \in T : \A y \in T : m <= y
        BY <1>2, <2>2
      <3>2. CASE m <= x
        BY <3>1, <3>2
      <3>3. CASE ~(m <= x)
        BY <3>1, <3>3
      <3>4. QED
        BY <3>2, <3>3
    <2>3. QED
      BY <2>1, <2>2
  <1>3. S \in G
    <2> HIDE DEF G
    <2>1. QED
      BY <1>1, <1>2, FiniteInduction
  <1>4. QED
    BY <1>3 DEF Min

---------------------------------------------------------------------------
(* Sums. *)

\* The units of f over S that are of this sign: f[i] of them for an i where
\* f[i] has it, none for any other.
Units(sign, f, S) == UNION {{i} \X (1 .. sign * f[i]) : i \in S}

Share(sign, f, x) == IF sign * f[x] > 0 THEN sign * f[x] ELSE 0

\* The units of the positive numbers less those of the negative ones.
Balance(f, S) == Cardinality(Units(1, f, S)) - Cardinality(Units(-1, f, S))

LEMMA UnitsAdd ==
    ASSUME NEW sign \in {1, -1}, NEW f, NEW S, NEW x, x \notin S,
           IsFiniteSet(Units(sign, f, S)), f[x] \in Int
    PROVE  /\ IsFiniteSet(Units(sign, f, S \cup {x}))
           /\ Cardinality(Units(sign, f, S \cup {x}))
                = Cardinality(Units(sign, f, S)) + Share(sign, f, x)
  <1> DEFINE k == sign * f[x]
             mine == {x} \X (1 .. k)
             n == Share(sign, f, x)
             all == Units(sign, f, S)
  <1>1. k \in Int /\ n = IF k > 0 THEN k ELSE 0
    BY DEF Share
  <1>2. all \cap mine = {}
    BY DEF Units
  <1>3. Units(sign, f, S \cup {x}) = all \cup mine
    BY DEF Units
  <1> HIDE DEF k, all, n
  <1>4. IsFiniteSet(1 .. k) /\ Cardinality(1 .. k) = n
    BY <1>1, FS_Interval
  <1>5. IsFiniteSet({x}) /\ Cardinality({x}) = 1
    BY FS_Singleton
  <1>6. IsFiniteSet(mine) /\ Cardinality(mine) = n
    <2>1. IsFiniteSet(mine) /\ Cardinality(mine) = 1 * Cardinality(1 .. k)
      BY <1>4, <1>5, FS_Product
    <2>2. QED
      BY <1>1, <1>4, <2>1
  <1>7. IsFiniteSet(all) /\ Cardinality(all) \in Nat /\ n \in Nat
    BY <1>1, FS_CardinalityType DEF all
  <1> HIDE DEF mine
  <1>8. Cardinality(all \cap mine) = 0
    BY <1>2, FS_EmptySet
  <1>9. /\ IsFiniteSet(all \cup mine)
        /\ Cardinality(all \cup mine) = Cardinality(all) + n
    BY <1>6, <1>7, <1>8, FS_Union
  <1>10. QED
    BY <1>3, <1>9 DEF all, n, k

LEMMA UnitsFinite ==
    ASSUME NEW sign \in {1, -1}, NEW f, NEW S, IsFiniteSet(S), \A i \in S : f[i] \in Int
    PROVE  /\ IsFiniteSet(Units(sign, f, S))
           /\ Cardinality(Units(sign, f, S)) \in Nat
  <1> DEFINE G == {T \in SUBSET S : IsFiniteSet(Units(sign, f, T))}
  <1>1. {} \in G
    BY FS_EmptySet DEF Units
  <1>2. ASSUME NEW T \in SUBSET S, NEW x \in S \ T, T \in G
        PROVE  T \cup {x} \in G
    BY <1>2, UnitsAdd
  <1>3. S \in G
    <2> HIDE DEF G
    <2>1. QED
      BY <1>1, <1>2, FiniteInduction
  <1>4. QED
    BY <1>3, FS_CardinalityType

LEMMA BalanceAdd ==
    ASSUME NEW f, NEW S, IsFiniteSet(S), \A i \in S : f[i] \in Int,
           NEW x, x \notin S, f[x] \in Int
    PROVE  Balance(f, S \cup {x}) = f[x] + Balance(f, S)
  <1>1. ASSUME NEW sign \in {1, -1}
        PROVE  /\ Cardinality(Units(sign, f, S)) \in Nat
               /\ Cardinality(Units(sign, f, S \cup {x}))
                    = Cardinality(Units(sign, f, S)) + Share(sign, f, x)
    <2>1. IsFiniteSet(Units(sign, f, S)) /\ Cardinality(Units(sign, f, S)) \in Nat
      BY UnitsFinite
    <2>2. QED
      BY <2>1, UnitsAdd
  <1>2. /\ Cardinality(Units(1, f, S)) \in Nat
        /\ Cardinality(Units(1, f, S \cup {x})) = Cardinality(Units(1, f, S)) + Share(1, f, x)
    BY <1>1
  <1>3. /\ Cardinality(Units(-1, f, S)) \in Nat
        /\ Cardinality(Units(-1, f, S \cup {x})) = Cardinality(Units(-1, f, S)) + Share(-1, f, x)
    BY <1>1
  <1>4. QED
    BY <1>2, <1>3 DEF Balance, Share

LEMMA BalanceEmpty == \A f : Balance(f, {}) = 0
  BY FS_EmptySet DEF Balance, Units

LEMMA BalanceInt ==
    ASSUME NEW f, NEW S, IsFiniteSet(S), \A i \in S : f[i] \in Int
    PROVE  Balance(f, S) \in Int
  <1>1. Cardinality(Units(1, f, S)) \in Nat /\ Cardinality(Units(-1, f, S)) \in Nat
    BY UnitsFinite
  <1>2. QED
    BY <1>1 DEF Balance

---------------------------------------------------------------------------
(* The recursion behind a sum, which takes an element of s at a time.      *)
Picked(s) == CHOOSE y \in s : TRUE

IsFold(g, f, S) ==
    g = [s \in SUBSET S |-> IF s = {} THEN 0 ELSE f[Picked(s)] + g[s \ {Picked(s)}]]

LEMMA BalanceIsFold ==
    ASSUME NEW f, NEW S, IsFiniteSet(S), \A i \in S : f[i] \in Int
    PROVE  IsFold([s \in SUBSET S |-> Balance(f, s)], f, S)
  <1> DEFINE g == [s \in SUBSET S |-> Balance(f, s)]
  <1>1. ASSUME NEW s \in SUBSET S, s # {}
        PROVE  g[s] = f[Picked(s)] + g[s \ {Picked(s)}]
    <2> DEFINE x == Picked(s)
               t == s \ {x}
    <2>1. x \in s
      BY <1>1 DEF Picked
    <2> HIDE DEF x
    <2>2. t \in SUBSET S /\ x \notin t /\ t \cup {x} = s
      BY <2>1
    <2>3. IsFiniteSet(t)
      BY FS_Subset
    <2>4. \A i \in t : f[i] \in Int
      BY <2>2
    <2>5. Balance(f, t \cup {x}) = f[x] + Balance(f, t)
      BY <2>1, <2>2, <2>3, <2>4, BalanceAdd
    <2>6. QED
      BY <2>2, <2>5 DEF x
  <1>2. g[{}] = 0
    BY BalanceEmpty
  <1>3. QED
    BY <1>1, <1>2 DEF IsFold

LEMMA FoldIsBalance ==
    ASSUME NEW f, NEW S, IsFiniteSet(S), \A i \in S : f[i] \in Int,
           NEW g, IsFold(g, f, S)
    PROVE  \A s \in SUBSET S : g[s] = Balance(f, s)
  <1> DEFINE h == [s \in SUBSET S |-> Balance(f, s)]
             bad == {s \in SUBSET S : g[s] # h[s]}
  <1>1. IsFold(h, f, S)
    BY BalanceIsFold
  <1>2. SUFFICES ASSUME bad # {}
                 PROVE  FALSE
    OBVIOUS
  <1>3. bad \subseteq FiniteSubsetsOf(S)
    BY FS_FiniteSubsetsOfFinite
  <1>4. IsWellFoundedOn(StrictSubsetOrdering(S), FiniteSubsetsOf(S))
    BY FS_StrictSubsetOrderingWellFounded
  <1>5. PICK s \in bad : \A t \in bad : <<t, s>> \notin StrictSubsetOrdering(S)
    <2> HIDE DEF bad
    <2>1. QED
      BY <1>2, <1>3, <1>4, WFMin
  <1> HIDE DEF h
  <1>6. CASE s = {}
    BY <1>1, <1>5, <1>6 DEF IsFold
  <1>7. CASE s # {}
    <2> DEFINE x == Picked(s)
    <2>1. x \in s
      BY <1>7 DEF Picked
    <2>2. s \ {x} \notin bad
      <3> HIDE DEF x
      <3>1. <<s \ {x}, s>> \in StrictSubsetOrdering(S)
        BY <1>5, <2>1 DEF StrictSubsetOrdering
      <3>2. QED
        BY <1>5, <3>1
    <2>3. g[s] = f[x] + g[s \ {x}]
      BY <1>5, <1>7 DEF IsFold
    <2>4. h[s] = f[x] + h[s \ {x}]
      BY <1>1, <1>5, <1>7 DEF IsFold
    <2>5. QED
      BY <1>5, <2>2, <2>3, <2>4
  <1>8. QED
    BY <1>6, <1>7

---------------------------------------------------------------------------
(* What sums do; from here on nothing else is known of them. *)

LEMMA SumIsBalance ==
    ASSUME NEW f, NEW S, IsFiniteSet(S), \A i \in S : f[i] \in Int
    PROVE  SumFunctionOnSet(f, S) = Balance(f, S)
  <1> DEFINE G(g) == g = [s \in SUBSET S |->
                            IF s = {} THEN 0
                            ELSE LET x == CHOOSE y \in s : TRUE IN f[x] + g[s \ {x}]]
  <1>1. ASSUME NEW g
        PROVE  G(g) <=> IsFold(g, f, S)
    BY DEF IsFold, Picked
  <1>2. G([s \in SUBSET S |-> Balance(f, s)])
    <2>1. IsFold([s \in SUBSET S |-> Balance(f, s)], f, S)
      BY BalanceIsFold
    <2> HIDE DEF G
    <2>2. QED
      BY <1>1, <2>1
  <1>3. SumFunctionOnSet(f, S) = (CHOOSE g : G(g))[S]
    BY DEF SumFunctionOnSet, FoldFunctionOnSet, MapThenFoldSet
  <1>4. QED
    <2> DEFINE c == CHOOSE g : G(g)
    <2> HIDE DEF G
    <2>1. G(c)
      BY <1>2
    <2>2. IsFold(c, f, S)
      BY <1>1, <2>1
    <2> HIDE DEF c
    <2>3. c[S] = Balance(f, S)
      BY <2>2, FoldIsBalance
    <2>4. QED
      BY <1>3, <2>3 DEF c

LEMMA SumEmpty == \A f : SumFunctionOnSet(f, {}) = 0
  BY SumIsBalance, BalanceEmpty, FS_EmptySet

LEMMA SumInt ==
    ASSUME NEW f, NEW S, IsFiniteSet(S), \A i \in S : f[i] \in Int
    PROVE  SumFunctionOnSet(f, S) \in Int
  BY SumIsBalance, BalanceInt

LEMMA SumAdd ==
    ASSUME NEW f, NEW S, IsFiniteSet(S), NEW x, x \notin S, \A i \in S \cup {x} : f[i] \in Int
    PROVE  SumFunctionOnSet(f, S \cup {x}) = f[x] + SumFunctionOnSet(f, S)
  <1>1. IsFiniteSet(S \cup {x})
    BY FS_AddElement
  <1>2. Balance(f, S \cup {x}) = f[x] + Balance(f, S)
    BY BalanceAdd
  <1>3. QED
    BY <1>1, <1>2, SumIsBalance

\* Sums are monotone in their terms.
LEMMA SumMonotone ==
    ASSUME NEW f, NEW g, NEW S, IsFiniteSet(S),
           \A i \in S : f[i] \in Int /\ g[i] \in Int /\ f[i] <= g[i]
    PROVE  SumFunctionOnSet(f, S) <= SumFunctionOnSet(g, S)
  <1> DEFINE G == {T \in SUBSET S : SumFunctionOnSet(f, T) <= SumFunctionOnSet(g, T)}
  <1>1. {} \in G
    BY SumEmpty
  <1>2. ASSUME NEW T \in SUBSET S, NEW x \in S \ T, T \in G
        PROVE  T \cup {x} \in G
    <2>1. IsFiniteSet(T)
      BY FS_Subset
    <2>2. /\ SumFunctionOnSet(f, T \cup {x}) = f[x] + SumFunctionOnSet(f, T)
          /\ SumFunctionOnSet(g, T \cup {x}) = g[x] + SumFunctionOnSet(g, T)
      BY <2>1, SumAdd
    <2>3. SumFunctionOnSet(f, T) \in Int /\ SumFunctionOnSet(g, T) \in Int
      BY <2>1, SumInt
    <2>4. QED
      BY <1>2, <2>2, <2>3
  <1>3. S \in G
    <2> HIDE DEF G
    <2>1. QED
      BY <1>1, <1>2, FiniteInduction
  <1>4. QED
    BY <1>3

\* Two sums over one set are the sum of their terms.
LEMMA SumOfSum ==
    ASSUME NEW f, NEW g, NEW h, NEW S, IsFiniteSet(S),
           \A i \in S : f[i] \in Int /\ g[i] \in Int /\ h[i] = f[i] + g[i]
    PROVE  SumFunctionOnSet(h, S) = SumFunctionOnSet(f, S) + SumFunctionOnSet(g, S)
  <1> DEFINE G == {T \in SUBSET S : SumFunctionOnSet(h, T)
                                       = SumFunctionOnSet(f, T) + SumFunctionOnSet(g, T)}
  <1>1. {} \in G
    BY SumEmpty
  <1>2. ASSUME NEW T \in SUBSET S, NEW x \in S \ T, T \in G
        PROVE  T \cup {x} \in G
    <2>1. IsFiniteSet(T) /\ \A i \in T \cup {x} : h[i] \in Int
      BY FS_Subset
    <2>2. /\ SumFunctionOnSet(f, T \cup {x}) = f[x] + SumFunctionOnSet(f, T)
          /\ SumFunctionOnSet(g, T \cup {x}) = g[x] + SumFunctionOnSet(g, T)
          /\ SumFunctionOnSet(h, T \cup {x}) = h[x] + SumFunctionOnSet(h, T)
      BY <2>1, SumAdd
    <2>3. SumFunctionOnSet(f, T) \in Int /\ SumFunctionOnSet(g, T) \in Int
      BY <2>1, SumInt
    <2>4. QED
      BY <1>2, <2>2, <2>3
  <1>3. S \in G
    <2> HIDE DEF G
    <2>1. QED
      BY <1>1, <1>2, FiniteInduction
  <1>4. QED
    BY <1>3

\* A sum of natural numbers is one.
LEMMA SumNat ==
    ASSUME NEW f, NEW S, IsFiniteSet(S), \A i \in S : f[i] \in Nat
    PROVE  SumFunctionOnSet(f, S) \in Nat
  <1> DEFINE zero == [i \in S |-> 0]
  <1>1. \A i \in S : zero[i] \in Int /\ f[i] \in Int /\ zero[i] <= f[i] /\ zero[i] = zero[i] + zero[i]
    OBVIOUS
  <1> HIDE DEF zero
  <1>2. SumFunctionOnSet(zero, S) \in Int /\ SumFunctionOnSet(f, S) \in Int
    BY <1>1, SumInt
  <1>3. SumFunctionOnSet(zero, S) = SumFunctionOnSet(zero, S) + SumFunctionOnSet(zero, S)
    BY <1>1, SumOfSum
  <1>4. SumFunctionOnSet(zero, S) <= SumFunctionOnSet(f, S)
    BY <1>1, SumMonotone
  <1>5. QED
    BY <1>2, <1>3, <1>4

\* A sum over two disjoint sets.
LEMMA SumSplit ==
    ASSUME NEW f, NEW S, IsFiniteSet(S), NEW R \in SUBSET S, \A i \in S : f[i] \in Int
    PROVE  SumFunctionOnSet(f, S) = SumFunctionOnSet(f, R) + SumFunctionOnSet(f, S \ R)
  <1> DEFINE P == S \ R
             G == {T \in SUBSET P : SumFunctionOnSet(f, R \cup T)
                                       = SumFunctionOnSet(f, R) + SumFunctionOnSet(f, T)}
  <1>0. IsFiniteSet(R) /\ IsFiniteSet(P)
    BY FS_Subset
  <1>1. {} \in G
    <2>1. R \cup {} = R /\ SumFunctionOnSet(f, R) \in Int
      BY <1>0, SumInt
    <2>2. QED
      BY <2>1, SumEmpty
  <1>2. ASSUME NEW T \in SUBSET P, NEW x \in P \ T, T \in G
        PROVE  T \cup {x} \in G
    <2>1. R \cup T \in SUBSET S /\ x \notin R \cup T /\ (R \cup T) \cup {x} = R \cup (T \cup {x})
      OBVIOUS
    <2>2. IsFiniteSet(T) /\ IsFiniteSet(R \cup T)
      BY <2>1, FS_Subset
    <2>3. /\ SumFunctionOnSet(f, T \cup {x}) = f[x] + SumFunctionOnSet(f, T)
          /\ SumFunctionOnSet(f, (R \cup T) \cup {x}) = f[x] + SumFunctionOnSet(f, R \cup T)
      BY <2>1, <2>2, SumAdd
    <2>4. SumFunctionOnSet(f, R) \in Int /\ SumFunctionOnSet(f, T) \in Int
      BY <1>0, <2>2, SumInt
    <2>5. SumFunctionOnSet(f, R \cup (T \cup {x})) = f[x] + SumFunctionOnSet(f, R \cup T)
      BY <2>1, <2>3, Zenon
    <2>6. f[x] \in Int /\ T \cup {x} \in SUBSET P
      OBVIOUS
    <2>7. SumFunctionOnSet(f, R \cup T) = SumFunctionOnSet(f, R) + SumFunctionOnSet(f, T)
      BY <1>2
    <2> HIDE DEF P
    <2>8. QED
      BY <2>3, <2>4, <2>5, <2>6, <2>7
  <1>3. P \in G
    <2> HIDE DEF G, P
    <2>1. QED
      BY <1>0, <1>1, <1>2, FiniteInduction
  <1>4. R \cup P = S
    OBVIOUS
  <1>5. QED
    BY <1>3, <1>4

\* A sum depends on the terms alone.
LEMMA SumSame ==
    ASSUME NEW f, NEW g, NEW S, IsFiniteSet(S), \A i \in S : f[i] \in Int /\ f[i] = g[i]
    PROVE  SumFunctionOnSet(f, S) = SumFunctionOnSet(g, S)
  <1>1. \A i \in S : f[i] \in Int /\ g[i] \in Int /\ f[i] <= g[i] /\ g[i] <= f[i]
    OBVIOUS
  <1>2. /\ SumFunctionOnSet(f, S) <= SumFunctionOnSet(g, S)
        /\ SumFunctionOnSet(g, S) <= SumFunctionOnSet(f, S)
        /\ SumFunctionOnSet(f, S) \in Int /\ SumFunctionOnSet(g, S) \in Int
    BY <1>1, SumMonotone, SumInt
  <1>3. QED
    BY <1>2

LEMMA OnlyZero == \A n \in Int : n = n + n => n = 0
  OBVIOUS

\* Terms that are 0 do not count.
LEMMA SumSupport ==
    ASSUME NEW f, NEW S, IsFiniteSet(S), \A i \in S : f[i] \in Int,
           NEW R \in SUBSET S, \A i \in S \ R : f[i] = 0
    PROVE  SumFunctionOnSet(f, S) = SumFunctionOnSet(f, R)
  <1> DEFINE P == S \ R
  <1>1. IsFiniteSet(P) /\ IsFiniteSet(R)
    BY FS_Subset
  <1>2. \A i \in P : f[i] \in Int /\ f[i] = f[i] + f[i]
    OBVIOUS
  <1> HIDE DEF P
  <1>3. /\ SumFunctionOnSet(f, P) = SumFunctionOnSet(f, P) + SumFunctionOnSet(f, P)
        /\ SumFunctionOnSet(f, P) \in Int
    BY <1>1, <1>2, SumOfSum, SumInt
  <1>4. SumFunctionOnSet(f, P) = 0
    BY <1>3, OnlyZero, Zenon
  <1>5. SumFunctionOnSet(f, S) = SumFunctionOnSet(f, R) + SumFunctionOnSet(f, P)
    BY SumSplit DEF P
  <1>6. SumFunctionOnSet(f, R) \in Int
    BY <1>1, SumInt
  <1>7. QED
    BY <1>4, <1>5, <1>6

LEMMA SumSingle ==
    ASSUME NEW f, NEW x, f[x] \in Int
    PROVE  SumFunctionOnSet(f, {x}) = f[x]
  <1>1. {} \cup {x} = {x} /\ IsFiniteSet({})
    BY FS_EmptySet
  <1>2. SumFunctionOnSet(f, {} \cup {x}) = f[x] + SumFunctionOnSet(f, {})
    BY <1>1, SumAdd
  <1>3. QED
    BY <1>1, <1>2, SumEmpty

\* Two sums whose terms are no larger, and whose value is no smaller, agree.
LEMMA SumTight ==
    ASSUME NEW f, NEW g, NEW S, IsFiniteSet(S),
           \A i \in S : f[i] \in Int /\ g[i] \in Int /\ f[i] <= g[i],
           SumFunctionOnSet(f, S) >= SumFunctionOnSet(g, S),
           NEW x \in S
    PROVE  f[x] = g[x]
  <1> DEFINE R == S \ {x}
  <1>1. IsFiniteSet(R) /\ R \cup {x} = S /\ x \notin R
    BY FS_Subset
  <1>2. /\ SumFunctionOnSet(f, S) = f[x] + SumFunctionOnSet(f, R)
        /\ SumFunctionOnSet(g, S) = g[x] + SumFunctionOnSet(g, R)
    <2> HIDE DEF R
    <2>1. /\ SumFunctionOnSet(f, R \cup {x}) = f[x] + SumFunctionOnSet(f, R)
          /\ SumFunctionOnSet(g, R \cup {x}) = g[x] + SumFunctionOnSet(g, R)
      BY <1>1, SumAdd
    <2>2. QED
      BY <1>1, <2>1
  <1>3. /\ SumFunctionOnSet(f, R) <= SumFunctionOnSet(g, R)
        /\ SumFunctionOnSet(f, R) \in Int /\ SumFunctionOnSet(g, R) \in Int
    BY <1>1, SumMonotone, SumInt
  <1> HIDE DEF R
  <1>4. QED
    BY <1>2, <1>3

\* The image of a finite set is finite.
LEMMA ImageFinite ==
    ASSUME NEW h, NEW S, IsFiniteSet(S)
    PROVE  IsFiniteSet({h[x] : x \in S})
  <1> DEFINE Im(T) == {h[x] : x \in T}
             G == {T \in SUBSET S : IsFiniteSet(Im(T))}
  <1>1. {} \in G
    <2>1. Im({}) = {}
      OBVIOUS
    <2>2. QED
      BY <2>1, FS_EmptySet
  <1>2. ASSUME NEW T \in SUBSET S, NEW x \in S \ T, T \in G
        PROVE  T \cup {x} \in G
    <2>1. Im(T \cup {x}) = Im(T) \cup {h[x]} /\ IsFiniteSet(Im(T))
      BY <1>2
    <2>2. IsFiniteSet(Im(T) \cup {h[x]})
      BY <2>1, FS_AddElement
    <2>3. QED
      BY <2>1, <2>2
  <1>3. S \in G
    <2> HIDE DEF G
    <2>1. QED
      BY <1>1, <1>2, FiniteInduction
  <1>4. QED
    BY <1>3

\* The terms of a sum may be renamed.
LEMMA SumImage ==
    ASSUME NEW f, NEW h, NEW S, IsFiniteSet(S),
           \A x, y \in S : h[x] = h[y] => x = y,
           \A x \in S : f[h[x]] \in Int
    PROVE  SumFunctionOnSet(f, {h[x] : x \in S}) = SumFunctionOnSet([x \in S |-> f[h[x]]], S)
  <1> DEFINE g == [x \in S |-> f[h[x]]]
             Im(T) == {h[x] : x \in T}
             G == {T \in SUBSET S : SumFunctionOnSet(f, Im(T)) = SumFunctionOnSet(g, T)}
  <1>0. \A x \in S : g[x] \in Int /\ g[x] = f[h[x]]
    OBVIOUS
  <1>1. {} \in G
    <2>1. Im({}) = {}
      OBVIOUS
    <2>2. QED
      BY <2>1, SumEmpty
  <1> HIDE DEF g
  <1>2. ASSUME NEW T \in SUBSET S, NEW x \in S \ T, T \in G
        PROVE  T \cup {x} \in G
    <2>1. IsFiniteSet(T) /\ IsFiniteSet(Im(T))
      <3>1. IsFiniteSet(T)
        BY FS_Subset
      <3>2. IsFiniteSet(Im(T))
        BY <3>1, ImageFinite
      <3>3. QED
        BY <3>1, <3>2
    <2>2. Im(T \cup {x}) = Im(T) \cup {h[x]} /\ h[x] \notin Im(T)
      OBVIOUS
    <2>3. \A y \in Im(T) \cup {h[x]} : f[y] \in Int
      OBVIOUS
    <2>4. SumFunctionOnSet(g, T \cup {x}) = g[x] + SumFunctionOnSet(g, T)
      BY <1>0, <2>1, SumAdd
    <2>5. SumFunctionOnSet(f, Im(T) \cup {h[x]}) = f[h[x]] + SumFunctionOnSet(f, Im(T))
      <3> HIDE DEF Im
      <3>1. QED
        BY <2>1, <2>2, <2>3, SumAdd
    <2>6. SumFunctionOnSet(f, Im(T)) = SumFunctionOnSet(g, T) /\ g[x] = f[h[x]]
      BY <1>0, <1>2
    <2>7. SumFunctionOnSet(f, Im(T \cup {x})) = SumFunctionOnSet(g, T \cup {x})
      <3> HIDE DEF Im
      <3>1. QED
        BY <2>2, <2>4, <2>5, <2>6
    <2>8. QED
      BY <2>7
  <1>3. S \in G
    <2> HIDE DEF G
    <2>1. QED
      BY <1>1, <1>2, FiniteInduction
  <1>4. QED
    BY <1>3 DEF g

\* A sum over pairs, row by row.
LEMMA SumRows ==
    ASSUME NEW f, NEW A, IsFiniteSet(A), NEW B, IsFiniteSet(B),
           \A e \in A \X B : f[e] \in Int
    PROVE  SumFunctionOnSet(f, A \X B)
             = SumFunctionOnSet([a \in A |-> SumFunctionOnSet(f, {a} \X B)], A)
  <1> DEFINE row == [a \in A |-> SumFunctionOnSet(f, {a} \X B)]
             G == {T \in SUBSET A : SumFunctionOnSet(f, T \X B) = SumFunctionOnSet(row, T)}
  <1>0. \A a \in A : row[a] \in Int /\ row[a] = SumFunctionOnSet(f, {a} \X B)
    <2> SUFFICES ASSUME NEW a \in A
                 PROVE  SumFunctionOnSet(f, {a} \X B) \in Int
      OBVIOUS
    <2>1. IsFiniteSet({a} \X B) /\ \A e \in {a} \X B : f[e] \in Int
      BY FS_Product, FS_Singleton
    <2>2. QED
      BY <2>1, SumInt
  <1>1. {} \in G
    <2>1. {} \X B = {}
      OBVIOUS
    <2>2. QED
      BY <2>1, SumEmpty
  <1> HIDE DEF row
  <1>2. ASSUME NEW T \in SUBSET A, NEW x \in A \ T, T \in G
        PROVE  T \cup {x} \in G
    <2> DEFINE all == (T \cup {x}) \X B
               mine == {x} \X B
    <2>1. IsFiniteSet(T) /\ IsFiniteSet(T \cup {x})
      BY FS_Subset, FS_AddElement
    <2>2. IsFiniteSet(all) /\ mine \in SUBSET all /\ all \ mine = T \X B
          /\ \A e \in all : f[e] \in Int
      BY <2>1, FS_Product
    <2>3. SumFunctionOnSet(row, T \cup {x}) = row[x] + SumFunctionOnSet(row, T)
      BY <1>0, <2>1, SumAdd
    <2>4. SumFunctionOnSet(f, all) = SumFunctionOnSet(f, mine) + SumFunctionOnSet(f, all \ mine)
      <3> HIDE DEF all, mine
      <3>1. QED
        BY <2>2, SumSplit
    <2>5. row[x] = SumFunctionOnSet(f, mine)
      BY <1>0
    <2>6. SumFunctionOnSet(f, T \X B) = SumFunctionOnSet(row, T)
      BY <1>2
    <2>7. SumFunctionOnSet(f, all) = SumFunctionOnSet(row, T \cup {x})
      <3> HIDE DEF all, mine
      <3>1. QED
        BY <2>2, <2>3, <2>4, <2>5, <2>6
    <2>8. QED
      BY <2>7
  <1>3. A \in G
    <2> HIDE DEF G
    <2>1. QED
      BY <1>1, <1>2, FiniteInduction
  <1>4. QED
    BY <1>3 DEF row

\* The row of a in a function of pairs.
Row(f, a, B) == [b \in B |-> f[<<a, b>>]]

LEMMA SumRow ==
    ASSUME NEW f, NEW a, NEW B, IsFiniteSet(B), \A b \in B : f[<<a, b>>] \in Int
    PROVE  SumFunctionOnSet(f, {a} \X B) = SumFunctionOnSet(Row(f, a, B), B)
  <1> DEFINE h == [b \in B |-> <<a, b>>]
             k == [b \in B |-> f[h[b]]]
             g == [b \in B |-> f[<<a, b>>]]
  <1>1. {h[b] : b \in B} = {a} \X B /\ \A x, y \in B : h[x] = h[y] => x = y
    OBVIOUS
  <1>2. \A b \in B : h[b] = <<a, b>> /\ f[h[b]] \in Int
    OBVIOUS
  <1> HIDE DEF h
  <1>3. SumFunctionOnSet(f, {h[b] : b \in B}) = SumFunctionOnSet(k, B)
    BY <1>1, <1>2, SumImage
  <1>4. \A b \in B : k[b] \in Int /\ k[b] = g[b]
    BY <1>2
  <1> HIDE DEF k, g
  <1>5. SumFunctionOnSet(k, B) = SumFunctionOnSet(g, B)
    BY <1>4, SumSame
  <1>6. QED
    BY <1>1, <1>3, <1>5 DEF g, Row

\* The pairs may be turned round.
LEMMA SumTurned ==
    ASSUME NEW f, NEW g, NEW A, IsFiniteSet(A), NEW B, IsFiniteSet(B),
           \A x \in A, y \in B : f[<<x, y>>] \in Int /\ g[<<y, x>>] = f[<<x, y>>]
    PROVE  SumFunctionOnSet(f, A \X B) = SumFunctionOnSet(g, B \X A)
  <1> DEFINE h == [e \in B \X A |-> <<e[2], e[1]>>]
  <1>1. {h[e] : e \in B \X A} = A \X B
    <2>1. ASSUME NEW e \in A \X B
          PROVE  \E d \in B \X A : h[d] = e
      <3>1. <<e[2], e[1]>> \in B \X A /\ h[<<e[2], e[1]>>] = e
        OBVIOUS
      <3>2. QED
        BY <3>1
    <2>2. QED
      BY <2>1
  <1>2. \A x, y \in B \X A : h[x] = h[y] => x = y
    OBVIOUS
  <1>3. IsFiniteSet(B \X A)
    BY FS_Product
  <1>4. \A e \in B \X A : f[h[e]] \in Int /\ f[h[e]] = g[e]
    <2> SUFFICES ASSUME NEW y \in B, NEW x \in A
                 PROVE  f[h[<<y, x>>]] \in Int /\ f[h[<<y, x>>]] = g[<<y, x>>]
      OBVIOUS
    <2>1. h[<<y, x>>] = <<x, y>>
      OBVIOUS
    <2>2. QED
      BY <2>1
  <1> DEFINE k == [e \in B \X A |-> f[h[e]]]
  <1> HIDE DEF h
  <1>5. SumFunctionOnSet(f, {h[e] : e \in B \X A}) = SumFunctionOnSet(k, B \X A)
    BY <1>2, <1>3, <1>4, SumImage
  <1>6. \A e \in B \X A : k[e] \in Int /\ k[e] = g[e]
    BY <1>4
  <1> HIDE DEF k
  <1>7. SumFunctionOnSet(k, B \X A) = SumFunctionOnSet(g, B \X A)
    BY <1>3, <1>6, SumSame
  <1>8. QED
    BY <1>1, <1>5, <1>7

\* What flows both ways between the members of a set cancels out.
LEMMA SumCancels ==
    ASSUME NEW f, NEW S, IsFiniteSet(S),
           \A x, y \in S : f[<<x, y>>] \in Int /\ f[<<y, x>>] = -f[<<x, y>>]
    PROVE  SumFunctionOnSet(f, S \X S) = 0
  <1> DEFINE E == S \X S
             g == [e \in E |-> f[<<e[2], e[1]>>]]
             zero == [e \in E |-> 0]
  <1>1. \A e \in E : f[e] \in Int /\ g[e] = -f[e]
    <2> SUFFICES ASSUME NEW x \in S, NEW y \in S
                 PROVE  f[<<x, y>>] \in Int /\ g[<<x, y>>] = -f[<<x, y>>]
      OBVIOUS
    <2>1. QED
      OBVIOUS
  <1>2. IsFiniteSet(E) /\ SumFunctionOnSet(f, E) = SumFunctionOnSet(g, E)
    <2>1. \A x \in S, y \in S : f[<<x, y>>] \in Int /\ g[<<y, x>>] = f[<<x, y>>]
      OBVIOUS
    <2>2. IsFiniteSet(E)
      BY FS_Product
    <2> HIDE DEF g
    <2>3. SumFunctionOnSet(f, S \X S) = SumFunctionOnSet(g, S \X S)
      BY <2>1, SumTurned
    <2>4. QED
      BY <2>2, <2>3
  <1>3. \A e \in E : /\ f[e] \in Int /\ g[e] \in Int /\ zero[e] = f[e] + g[e]
                     /\ zero[e] \in Int /\ zero[e] = zero[e] + zero[e]
    BY <1>1
  <1> HIDE DEF E, g, zero
  <1>4. SumFunctionOnSet(zero, E) = SumFunctionOnSet(f, E) + SumFunctionOnSet(g, E)
    BY <1>2, <1>3, SumOfSum
  <1>5. SumFunctionOnSet(zero, E) = SumFunctionOnSet(zero, E) + SumFunctionOnSet(zero, E)
    BY <1>2, <1>3, SumOfSum
  <1>6. SumFunctionOnSet(zero, E) \in Int /\ SumFunctionOnSet(f, E) \in Int
    BY <1>2, <1>3, SumInt
  <1>7. SumFunctionOnSet(zero, E) = 0
    BY <1>5, <1>6, OnlyZero, Zenon
  <1>8. SumFunctionOnSet(f, E) = 0
    BY <1>2, <1>4, <1>6, <1>7
  <1>9. QED
    BY <1>8 DEF E

\* A sum of ones and zeros counts the ones.
LEMMA SumCounts ==
    ASSUME NEW f, NEW S, IsFiniteSet(S), \A i \in S : f[i] \in {0, 1}
    PROVE  SumFunctionOnSet(f, S) = Cardinality({i \in S : f[i] = 1})
  <1> DEFINE Ones(T) == {i \in T : f[i] = 1}
             G == {T \in SUBSET S : SumFunctionOnSet(f, T) = Cardinality(Ones(T))}
  <1>1. {} \in G
    <2>1. Ones({}) = {}
      OBVIOUS
    <2>2. QED
      BY <2>1, SumEmpty, FS_EmptySet
  <1>2. ASSUME NEW T \in SUBSET S, NEW x \in S \ T, T \in G
        PROVE  T \cup {x} \in G
    <2>1. IsFiniteSet(T) /\ IsFiniteSet(Ones(T)) /\ Cardinality(Ones(T)) \in Nat
      BY FS_Subset, FS_CardinalityType
    <2>2. SumFunctionOnSet(f, T \cup {x}) = f[x] + SumFunctionOnSet(f, T)
      <3>1. \A i \in T \cup {x} : f[i] \in Int
        OBVIOUS
      <3>2. QED
        BY <2>1, <3>1, SumAdd
    <2>3. Cardinality(Ones(T \cup {x})) = f[x] + Cardinality(Ones(T))
      <3>1. CASE f[x] = 1
        <4>1. Ones(T \cup {x}) = Ones(T) \cup {x} /\ x \notin Ones(T)
          BY <3>1
        <4>2. Cardinality(Ones(T) \cup {x}) = Cardinality(Ones(T)) + 1
          BY <2>1, <4>1, FS_AddElement
        <4>3. QED
          BY <2>1, <3>1, <4>1, <4>2
      <3>2. CASE f[x] = 0
        <4>1. Ones(T \cup {x}) = Ones(T)
          BY <3>2
        <4>2. QED
          BY <2>1, <3>2, <4>1
      <3>3. QED
        BY <3>1, <3>2
    <2>4. SumFunctionOnSet(f, T) = Cardinality(Ones(T))
      BY <1>2
    <2>5. SumFunctionOnSet(f, T \cup {x}) = Cardinality(Ones(T \cup {x}))
      BY <2>2, <2>3, <2>4
    <2>6. QED
      BY <2>5
  <1>3. S \in G
    <2> HIDE DEF G
    <2>1. QED
      BY <1>1, <1>2, FiniteInduction
  <1>4. QED
    BY <1>3

\* Terms may be renamed and those that are 0 left out.
Renames(f, N, g, A, h) ==
    /\ \A i \in N : f[i] \in Int
    /\ \A a \in A : h[a] \in N /\ g[a] = f[h[a]]
    /\ \A a, b \in A : h[a] = h[b] => a = b
    /\ \A i \in N : (\A a \in A : h[a] # i) => f[i] = 0

LEMMA SumRenamed ==
    ASSUME NEW f, NEW N, IsFiniteSet(N), NEW g, NEW A, IsFiniteSet(A), NEW h,
           Renames(f, N, g, A, h)
    PROVE  SumFunctionOnSet(f, N) = SumFunctionOnSet(g, A)
  <1> DEFINE I == {h[a] : a \in A}
             k == [a \in A |-> f[h[a]]]
  <1>1. I \in SUBSET N /\ \A i \in N \ I : f[i] = 0
    BY DEF Renames
  <1>2. SumFunctionOnSet(f, N) = SumFunctionOnSet(f, I)
    <2>1. \A i \in N : f[i] \in Int
      BY DEF Renames
    <2> HIDE DEF I
    <2>2. QED
      BY <1>1, <2>1, SumSupport
  <1>3. \A a \in A : k[a] \in Int /\ k[a] = g[a]
    BY DEF Renames
  <1>4. SumFunctionOnSet(f, I) = SumFunctionOnSet(k, A)
    <2>1. \A a \in A : f[h[a]] \in Int
      BY DEF Renames
    <2>2. \A a, b \in A : h[a] = h[b] => a = b
      BY DEF Renames
    <2>3. QED
      BY <2>1, <2>2, SumImage
  <1> HIDE DEF k
  <1>5. SumFunctionOnSet(k, A) = SumFunctionOnSet(g, A)
    BY <1>3, SumSame
  <1>6. QED
    BY <1>2, <1>4, <1>5

\* A sum over pairs is the sum of its rows.
Rows(f, A, B, row) ==
    /\ \A a \in A, b \in B : f[<<a, b>>] \in Int
    /\ \A a \in A : row[a] = SumFunctionOnSet(Row(f, a, B), B)

LEMMA SumTable ==
    ASSUME NEW f, NEW A, IsFiniteSet(A), NEW B, IsFiniteSet(B),
           NEW row, Rows(f, A, B, row)
    PROVE  SumFunctionOnSet(f, A \X B) = SumFunctionOnSet(row, A)
  <1> DEFINE R == [a \in A |-> SumFunctionOnSet(f, {a} \X B)]
  <1>1. \A e \in A \X B : f[e] \in Int
    BY DEF Rows
  <1>2. SumFunctionOnSet(f, A \X B) = SumFunctionOnSet(R, A)
    BY <1>1, SumRows
  <1>3. ASSUME NEW a \in A
        PROVE  R[a] = row[a] /\ R[a] \in Int
    <2>1. \A b \in B : f[<<a, b>>] \in Int /\ Row(f, a, B)[b] \in Int
      BY DEF Row, Rows
    <2>2. SumFunctionOnSet(f, {a} \X B) = SumFunctionOnSet(Row(f, a, B), B)
      BY <2>1, SumRow
    <2>3. SumFunctionOnSet(Row(f, a, B), B) \in Int
      BY <2>1, SumInt
    <2>4. QED
      BY <2>2, <2>3 DEF Rows
  <1> HIDE DEF R
  <1>4. QED
    BY <1>2, <1>3, SumSame

\* The pairs of a relation are counted from either side.
Outgoing(Rel, A, B, outs) == \A a \in A : outs[a] = Cardinality({b \in B : <<a, b>> \in Rel})

Incoming(Rel, A, B, ins) == \A b \in B : ins[b] = Cardinality({a \in A : <<a, b>> \in Rel})

LEMMA CountBothWays ==
    ASSUME NEW X, IsFiniteSet(X), NEW Y, IsFiniteSet(Y), NEW Rel,
           NEW outs, Outgoing(Rel, X, Y, outs), NEW ins, Incoming(Rel, X, Y, ins)
    PROVE  SumFunctionOnSet(outs, X) = SumFunctionOnSet(ins, Y)
  <1> DEFINE fw == [e \in X \X Y |-> IF e \in Rel THEN 1 ELSE 0]
             bw == [e \in Y \X X |-> IF <<e[2], e[1]>> \in Rel THEN 1 ELSE 0]
  <1>1. \A a \in X, b \in Y : /\ fw[<<a, b>>] \in Int /\ bw[<<b, a>>] \in Int
                              /\ bw[<<b, a>>] = fw[<<a, b>>]
    OBVIOUS
  <1>2. ASSUME NEW a \in X
        PROVE  outs[a] = SumFunctionOnSet(Row(fw, a, Y), Y)
    <2> DEFINE k == [b \in Y |-> fw[<<a, b>>]]
    <2>1. {b \in Y : k[b] = 1} = {b \in Y : <<a, b>> \in Rel} /\ \A b \in Y : k[b] \in {0, 1}
      OBVIOUS
    <2> HIDE DEF k
    <2>2. SumFunctionOnSet(k, Y) = Cardinality({b \in Y : k[b] = 1})
      BY <2>1, SumCounts
    <2>3. SumFunctionOnSet(k, Y) = outs[a]
      BY <2>1, <2>2 DEF Outgoing, Incoming
    <2>4. QED
      BY <2>3 DEF k, Row
  <1>3. ASSUME NEW b \in Y
        PROVE  ins[b] = SumFunctionOnSet(Row(bw, b, X), X)
    <2> DEFINE k == [a \in X |-> bw[<<b, a>>]]
    <2>1. {a \in X : k[a] = 1} = {a \in X : <<a, b>> \in Rel} /\ \A a \in X : k[a] \in {0, 1}
      OBVIOUS
    <2> HIDE DEF k
    <2>2. SumFunctionOnSet(k, X) = Cardinality({a \in X : k[a] = 1})
      BY <2>1, SumCounts
    <2>3. SumFunctionOnSet(k, X) = ins[b]
      BY <2>1, <2>2 DEF Outgoing, Incoming
    <2>4. QED
      BY <2>3 DEF k, Row
  <1> HIDE DEF fw, bw
  <1>4. SumFunctionOnSet(fw, X \X Y) = SumFunctionOnSet(bw, Y \X X)
    BY <1>1, SumTurned
  <1>5. SumFunctionOnSet(fw, X \X Y) = SumFunctionOnSet(outs, X)
    <2>1. Rows(fw, X, Y, outs)
      BY <1>1, <1>2 DEF Rows
    <2>2. QED
      BY <2>1, SumTable, SMTT(30)
  <1>6. SumFunctionOnSet(bw, Y \X X) = SumFunctionOnSet(ins, Y)
    <2>1. Rows(bw, Y, X, ins)
      BY <1>1, <1>3 DEF Rows
    <2>2. QED
      BY <2>1, SumTable
  <1>7. QED
    BY <1>4, <1>5, <1>6

---------------------------------------------------------------------------
(* Sums of cardinalities. *)

\* The elements that the sets F[i] have are no more than their sizes say.
LEMMA UnionIsBounded ==
    ASSUME NEW F, NEW S, IsFiniteSet(S), \A i \in S : IsFiniteSet(F[i])
    PROVE  /\ IsFiniteSet(UNION {F[i] : i \in S})
           /\ Cardinality(UNION {F[i] : i \in S})
                <= SumFunctionOnSet([i \in S |-> Cardinality(F[i])], S)
  <1> DEFINE f == [i \in S |-> Cardinality(F[i])]
             U(T) == UNION {F[i] : i \in T}
             G == {T \in SUBSET S : /\ IsFiniteSet(U(T))
                                    /\ Cardinality(U(T)) <= SumFunctionOnSet(f, T)}
  <1>0. \A i \in S : f[i] \in Nat
    BY FS_CardinalityType
  <1>1. {} \in G
    <2>1. U({}) = {}
      OBVIOUS
    <2>2. QED
      BY <2>1, SumEmpty, FS_EmptySet
  <1>2. ASSUME NEW T \in SUBSET S, NEW x \in S \ T, T \in G
        PROVE  T \cup {x} \in G
    <2>1. U(T \cup {x}) = U(T) \cup F[x]
      OBVIOUS
    <2>2. IsFiniteSet(T) /\ \A i \in T \cup {x} : f[i] \in Int
      BY <1>0, FS_Subset
    <2> HIDE DEF U
    <2>3. /\ IsFiniteSet(U(T) \cup F[x])
          /\ Cardinality(U(T) \cup F[x])
               = Cardinality(U(T)) + Cardinality(F[x]) - Cardinality(U(T) \cap F[x])
      BY <1>2, FS_Union
    <2>4. /\ Cardinality(U(T)) \in Nat /\ Cardinality(F[x]) \in Nat
          /\ Cardinality(U(T) \cap F[x]) \in Nat
      BY <1>2, FS_Intersection, FS_CardinalityType
    <2>5. /\ SumFunctionOnSet(f, T \cup {x}) = f[x] + SumFunctionOnSet(f, T)
          /\ SumFunctionOnSet(f, T) \in Int
      BY <2>2, SumAdd, SumInt
    <2>6. f[x] = Cardinality(F[x]) /\ T \cup {x} \in SUBSET S
      OBVIOUS
    <2> HIDE DEF f
    <2>7. Cardinality(U(T)) <= SumFunctionOnSet(f, T)
      BY <1>2
    <2>8. Cardinality(U(T) \cup F[x]) <= SumFunctionOnSet(f, T \cup {x})
      BY <2>3, <2>4, <2>5, <2>6, <2>7
    <2>9. QED
      BY <2>1, <2>3, <2>6, <2>8
  <1>3. S \in G
    <2> HIDE DEF G
    <2>1. QED
      BY <1>1, <1>2, FiniteInduction
  <1>4. QED
    BY <1>3

\* Sets that share no element have as many as their sizes say.
LEMMA DisjointUnion ==
    ASSUME NEW F, NEW S, IsFiniteSet(S), \A i \in S : IsFiniteSet(F[i]),
           \A i, j \in S : i # j => F[i] \cap F[j] = {}
    PROVE  /\ IsFiniteSet(UNION {F[i] : i \in S})
           /\ Cardinality(UNION {F[i] : i \in S})
                = SumFunctionOnSet([i \in S |-> Cardinality(F[i])], S)
  <1> DEFINE f == [i \in S |-> Cardinality(F[i])]
             U(T) == UNION {F[i] : i \in T}
             G == {T \in SUBSET S : /\ IsFiniteSet(U(T))
                                    /\ Cardinality(U(T)) = SumFunctionOnSet(f, T)}
  <1>0. \A i \in S : f[i] \in Nat
    BY FS_CardinalityType
  <1>1. {} \in G
    <2>1. U({}) = {}
      OBVIOUS
    <2>2. QED
      BY <2>1, SumEmpty, FS_EmptySet
  <1>2. ASSUME NEW T \in SUBSET S, NEW x \in S \ T, T \in G
        PROVE  T \cup {x} \in G
    <2>1. U(T \cup {x}) = U(T) \cup F[x] /\ U(T) \cap F[x] = {}
      OBVIOUS
    <2>2. IsFiniteSet(T) /\ \A i \in T \cup {x} : f[i] \in Int
      BY <1>0, FS_Subset
    <2> HIDE DEF U
    <2>3. /\ IsFiniteSet(U(T) \cup F[x])
          /\ Cardinality(U(T) \cup F[x])
               = Cardinality(U(T)) + Cardinality(F[x]) - Cardinality(U(T) \cap F[x])
      BY <1>2, FS_Union
    <2>4. /\ Cardinality(U(T)) \in Nat /\ Cardinality(F[x]) \in Nat
          /\ Cardinality(U(T) \cap F[x]) = 0
      BY <1>2, <2>1, FS_EmptySet, FS_CardinalityType
    <2>5. SumFunctionOnSet(f, T \cup {x}) = f[x] + SumFunctionOnSet(f, T)
      BY <2>2, SumAdd
    <2>6. f[x] = Cardinality(F[x]) /\ T \cup {x} \in SUBSET S
      OBVIOUS
    <2> HIDE DEF f
    <2>7. Cardinality(U(T)) = SumFunctionOnSet(f, T)
      BY <1>2
    <2>8. Cardinality(U(T) \cup F[x]) = SumFunctionOnSet(f, T \cup {x})
      BY <2>3, <2>4, <2>5, <2>6, <2>7
    <2>9. QED
      BY <2>1, <2>3, <2>6, <2>8
  <1>3. S \in G
    <2> HIDE DEF G
    <2>1. QED
      BY <1>1, <1>2, FiniteInduction
  <1>4. QED
    BY <1>3

---------------------------------------------------------------------------
(* Counting units across a cut.  T[b] are the units box b gets, via[v] the *)
(* resource that gives unit v, reach[b] the resources b can draw from.     *)

Draws(B, T, via, reach) ==
    /\ IsFiniteSet(B)
    /\ \A b \in B : IsFiniteSet(T[b]) /\ IsFiniteSet(reach[b])
    /\ \A b, c \in B : b # c => T[b] \cap T[c] = {}
    /\ \A b \in B : \A v \in T[b] : via[v] \in reach[b]
    /\ \A b \in B : \A v, w \in T[b] : via[v] = via[w] => v = w

\* The units that r gives.
GivenBy(B, T, via, r) == {v \in UNION {T[b] : b \in B} : via[v] = r}

\* An injection shows that a finite set has room for another one.
LEMMA RoomFor ==
    ASSUME NEW S, NEW T, IsFiniteSet(T), NEW f,
           \A x \in S : f[x] \in T,
           \A x, y \in S : f[x] = f[y] => x = y
    PROVE  IsFiniteSet(S) /\ Cardinality(S) <= Cardinality(T)
  <1>1. [x \in S |-> f[x]] \in Injection(S, T)
    BY DEF Injection, IsInjective
  <1>2. QED
    BY <1>1, FS_Injection DEF ExistsInjection

LEMMA CutBound ==
    ASSUME NEW B, NEW T, NEW via, NEW reach, Draws(B, T, via, reach),
           NEW R, IsFiniteSet(R), NEW d, NEW c,
           \A b \in B : d[b] \in Int /\ d[b] <= Cardinality(T[b]),
           \A r \in R : c[r] \in Int /\ Cardinality(GivenBy(B, T, via, r)) <= c[r]
    PROVE  SumFunctionOnSet(d, B)
             <= SumFunctionOnSet([b \in B |-> Cardinality(reach[b] \ R)], B)
                + SumFunctionOnSet(c, R)
  <1> DEFINE In == [b \in B |-> {v \in T[b] : via[v] \in R}]
             Out == [b \in B |-> {v \in T[b] : via[v] \notin R}]
             By == [r \in R |-> GivenBy(B, T, via, r)]
             edges == [b \in B |-> Cardinality(reach[b] \ R)]
             ins == [b \in B |-> Cardinality(In[b])]
             gives == [r \in R |-> Cardinality(By[r])]
             bound == [b \in B |-> edges[b] + ins[b]]
  <1>0. IsFiniteSet(B) /\ \A b \in B : IsFiniteSet(T[b]) /\ IsFiniteSet(reach[b])
    BY DEF Draws
  <1>1. ASSUME NEW b \in B
        PROVE  /\ IsFiniteSet(In[b]) /\ ins[b] \in Nat /\ edges[b] \in Nat
               /\ d[b] <= edges[b] + ins[b]
    <2>1. /\ IsFiniteSet(In[b]) /\ IsFiniteSet(Out[b]) /\ IsFiniteSet(reach[b] \ R)
          /\ In[b] \cup Out[b] = T[b] /\ In[b] \cap Out[b] = {}
      BY <1>0, FS_Subset
    <2>2. Cardinality(Out[b]) <= Cardinality(reach[b] \ R)
      <3>1. /\ \A v \in Out[b] : via[v] \in reach[b] \ R
            /\ \A v, w \in Out[b] : via[v] = via[w] => v = w
        BY DEF Draws
      <3> HIDE DEF Out
      <3>2. QED
        BY <2>1, <3>1, RoomFor
    <2>3. /\ Cardinality(In[b]) \in Nat /\ Cardinality(Out[b]) \in Nat
          /\ Cardinality(reach[b] \ R) \in Nat
          /\ Cardinality(In[b] \cap Out[b]) = 0
      <3> HIDE DEF In, Out
      <3>1. QED
        BY <2>1, FS_CardinalityType, FS_EmptySet
    <2>4. Cardinality(T[b]) = Cardinality(In[b]) + Cardinality(Out[b])
      <3> HIDE DEF In, Out
      <3>1. Cardinality(In[b] \cup Out[b])
              = Cardinality(In[b]) + Cardinality(Out[b]) - Cardinality(In[b] \cap Out[b])
        BY <2>1, FS_Union
      <3>2. Cardinality(In[b] \cup Out[b]) = Cardinality(T[b])
        BY <2>1, Zenon
      <3>3. QED
        BY <2>3, <3>1, <3>2
    <2>5. edges[b] = Cardinality(reach[b] \ R) /\ ins[b] = Cardinality(In[b])
      OBVIOUS
    <2> HIDE DEF In, Out, edges, ins
    <2>6. QED
      BY <2>1, <2>2, <2>3, <2>4, <2>5
  <1>2. UNION {In[b] : b \in B} = UNION {By[r] : r \in R}
    BY DEF GivenBy
  <1>3. Cardinality(UNION {In[b] : b \in B}) = SumFunctionOnSet(ins, B)
    <2>1. \A b1, b2 \in B : b1 # b2 => In[b1] \cap In[b2] = {}
      BY DEF Draws
    <2> HIDE DEF In
    <2>2. QED
      BY <1>0, <1>1, <2>1, DisjointUnion
  <1>4. \A r \in R : IsFiniteSet(By[r]) /\ gives[r] \in Nat
    <2>1. IsFiniteSet(UNION {T[b] : b \in B})
      BY <1>0, UnionIsBounded
    <2>2. QED
      BY <2>1, FS_Subset, FS_CardinalityType DEF GivenBy
  <1>5. Cardinality(UNION {By[r] : r \in R}) <= SumFunctionOnSet(gives, R)
    <2> HIDE DEF By
    <2>1. QED
      BY <1>4, UnionIsBounded
  <1>6. SumFunctionOnSet(gives, R) <= SumFunctionOnSet(c, R)
    <2>1. \A r \in R : gives[r] \in Int /\ c[r] \in Int /\ gives[r] <= c[r]
      BY <1>4
    <2> HIDE DEF gives
    <2>2. QED
      BY <2>1, SumMonotone
  <1>7. /\ SumFunctionOnSet(d, B) <= SumFunctionOnSet(bound, B)
        /\ SumFunctionOnSet(bound, B) = SumFunctionOnSet(edges, B) + SumFunctionOnSet(ins, B)
    <2>1. \A b \in B : bound[b] = edges[b] + ins[b]
      OBVIOUS
    <2>2. \A b \in B : bound[b] \in Int /\ d[b] <= bound[b] /\ edges[b] \in Int /\ ins[b] \in Int
      <3> HIDE DEF In, edges, ins, bound
      <3>1. \A b \in B : edges[b] \in Nat /\ ins[b] \in Nat /\ d[b] <= edges[b] + ins[b]
        BY <1>1
      <3>2. QED
        BY <2>1, <3>1
    <2> HIDE DEF edges, ins, bound
    <2>3. QED
      BY <1>0, <2>1, <2>2, SumMonotone, SumOfSum
  <1>8. /\ SumFunctionOnSet(d, B) \in Int /\ SumFunctionOnSet(edges, B) \in Int
        /\ SumFunctionOnSet(ins, B) \in Int /\ SumFunctionOnSet(c, R) \in Int
        /\ SumFunctionOnSet(gives, R) \in Int
    <2> HIDE DEF In, By, edges, ins, gives
    <2>1. /\ \A b \in B : d[b] \in Int /\ edges[b] \in Int /\ ins[b] \in Int
          /\ \A r \in R : c[r] \in Int /\ gives[r] \in Int
      BY <1>1, <1>4
    <2>2. QED
      BY <1>0, <2>1, SumInt
  <1> HIDE DEF In, By, edges, ins, gives, bound
  <1>9. SumFunctionOnSet(ins, B) <= SumFunctionOnSet(gives, R)
    BY <1>2, <1>3, <1>5
  <1>10. SumFunctionOnSet(d, B) <= SumFunctionOnSet(edges, B) + SumFunctionOnSet(c, R)
    BY <1>6, <1>7, <1>8, <1>9
  <1>11. QED
    BY <1>10 DEF edges

\* The same without a cut: what all the resources in R can give.
LEMMA HallBound ==
    ASSUME NEW B, NEW T, NEW via, NEW reach, Draws(B, T, via, reach),
           NEW R, IsFiniteSet(R), \A b \in B : reach[b] \subseteq R,
           NEW d, NEW most,
           \A b \in B : d[b] \in Int /\ d[b] <= Cardinality(T[b]),
           \A r \in R : most[r] \in Int /\ Cardinality(GivenBy(B, T, via, r)) <= most[r]
    PROVE  SumFunctionOnSet(d, B) <= SumFunctionOnSet(most, R)
  <1> DEFINE none == [b \in B |-> Cardinality(reach[b] \ R)]
  <1>1. SumFunctionOnSet(d, B) <= SumFunctionOnSet(none, B) + SumFunctionOnSet(most, R)
    BY CutBound
  <1>2. \A b \in B : none[b] = 0
    <2>1. \A b \in B : reach[b] \ R = {}
      OBVIOUS
    <2>2. QED
      BY <2>1, FS_EmptySet
  <1>3. IsFiniteSet(B)
    BY DEF Draws
  <1>4. SumFunctionOnSet(none, B) = 0
    <2>1. \A b \in B : none[b] \in Int /\ none[b] = none[b] + none[b]
      BY <1>2
    <2> HIDE DEF none
    <2>2. /\ SumFunctionOnSet(none, B) = SumFunctionOnSet(none, B) + SumFunctionOnSet(none, B)
          /\ SumFunctionOnSet(none, B) \in Int
      BY <1>3, <2>1, SumOfSum, SumInt
    <2>3. QED
      BY <2>2, OnlyZero, Zenon
  <1>5. SumFunctionOnSet(d, B) \in Int /\ SumFunctionOnSet(most, R) \in Int
    BY <1>3, SumInt
  <1> HIDE DEF none
  <1>6. QED
    BY <1>1, <1>4, <1>5

\* Each box has at most one unit of a resource, and only if it can draw it.
LEMMA GivenIsIncident ==
    ASSUME NEW B, NEW T, NEW via, NEW reach, Draws(B, T, via, reach), NEW r
    PROVE  Cardinality(GivenBy(B, T, via, r)) <= Cardinality({b \in B : r \in reach[b]})
  <1> DEFINE given == GivenBy(B, T, via, r)
             incident == {b \in B : r \in reach[b]}
             owner == [v \in given |-> CHOOSE b \in B : v \in T[b]]
  <1>1. \A v \in given : owner[v] \in B /\ v \in T[owner[v]] /\ via[v] = r
    BY DEF GivenBy
  <1>2. \A v \in given : owner[v] \in incident
    BY <1>1 DEF Draws
  <1>3. \A v, w \in given : owner[v] = owner[w] => v = w
    BY <1>1 DEF Draws
  <1>4. IsFiniteSet(incident)
    BY FS_Subset DEF Draws
  <1> HIDE DEF given, incident, owner
  <1>5. QED
    BY <1>2, <1>3, <1>4, RoomFor DEF given, incident

---------------------------------------------------------------------------
(* What a cut and an allocation say of an instance. *)

LEMMA SupplyNat ==
    ASSUME NEW inst, ProperInstance(inst), NEW bs \in SUBSET BoxesOf(inst),
           NEW r \in ResourcesOf(inst)
    PROVE  /\ Cardinality({b \in bs : r \in inst.reachable[b]}) \in Nat
           /\ Supply(inst, bs, r) \in Nat
           /\ Supply(inst, bs, r) <= Cardinality({b \in bs : r \in inst.reachable[b]})
           /\ Supply(inst, bs, r) <= inst.capacities[r]
  <1>1. IsFiniteSet({b \in bs : r \in inst.reachable[b]})
    BY FS_Subset DEF ProperInstance
  <1>2. Cardinality({b \in bs : r \in inst.reachable[b]}) \in Nat
    BY <1>1, FS_CardinalityType
  <1>3. inst.capacities[r] \in Nat
    BY DEF ProperInstance
  <1>4. QED
    BY <1>2, <1>3 DEF Supply

\* A cut with less room than all boxes demand shows that its boxes demand more
\* than they can get.
LEMMA CutShowsViolator ==
    ASSUME NEW inst, ProperInstance(inst), NEW bs \in SUBSET BoxesOf(inst),
           NEW rs \in SUBSET ResourcesOf(inst),
           CutCapacity(inst, bs, rs) < TotalDemand(inst)
    PROVE  HallViolator(inst, bs)
  <1> DEFINE B == BoxesOf(inst)
             R == ResourcesOf(inst)
             d == inst.demands
             c == inst.capacities
             edges == [b \in bs |-> Cardinality(inst.reachable[b] \ rs)]
             supply == [r \in R |-> Supply(inst, bs, r)]
             incident == [r \in R |-> Cardinality({b \in bs : r \in inst.reachable[b]})]
  <1>1. /\ IsFiniteSet(B) /\ IsFiniteSet(R) /\ IsFiniteSet(bs) /\ IsFiniteSet(rs)
        /\ IsFiniteSet(R \ rs) /\ IsFiniteSet(B \ bs)
        /\ \A b \in B : d[b] \in Int
        /\ \A r \in R : c[r] \in Int
        /\ \A b \in bs : inst.reachable[b] \subseteq R
    BY FS_Subset DEF ProperInstance
  <1>2. \A r \in R : /\ supply[r] \in Int /\ incident[r] \in Int
                     /\ supply[r] <= c[r] /\ supply[r] <= incident[r]
    BY SupplyNat
  <1>3. \A b \in bs : edges[b] \in Int
    <2> TAKE b \in bs
    <2>1. IsFiniteSet(inst.reachable[b] \ rs)
      BY <1>1, FS_Subset
    <2>2. QED
      BY <2>1, FS_CardinalityType
  <1>4. SumFunctionOnSet(edges, bs) = SumFunctionOnSet(incident, R \ rs)
    <2> DEFINE Rel == {e \in B \X R : e[2] \in inst.reachable[e[1]]}
               Q == R \ rs
    <2>1. \A b \in bs : edges[b] = Cardinality({r \in Q : <<b, r>> \in Rel})
      <3> TAKE b \in bs
      <3>1. {r \in Q : <<b, r>> \in Rel} = inst.reachable[b] \ rs
        BY <1>1
      <3>2. QED
        BY <3>1
    <2>2. \A r \in Q : incident[r] = Cardinality({b \in bs : <<b, r>> \in Rel})
      <3> TAKE r \in Q
      <3>1. {b \in bs : <<b, r>> \in Rel} = {b \in bs : r \in inst.reachable[b]}
        OBVIOUS
      <3>2. QED
        BY <3>1
    <2> HIDE DEF Rel, edges, incident
    <2>3. Outgoing(Rel, bs, Q, edges) /\ Incoming(Rel, bs, Q, incident)
      BY <2>1, <2>2 DEF Outgoing, Incoming
    <2>4. QED
      BY <1>1, <2>3, CountBothWays
  <1>5. /\ TotalDemand(inst) = SumFunctionOnSet(d, B)
        /\ CutCapacity(inst, bs, rs) = SumFunctionOnSet(d, B \ bs)
             + SumFunctionOnSet(edges, bs) + SumFunctionOnSet(c, rs)
        /\ HallViolator(inst, bs)
             <=> SumFunctionOnSet(d, bs) > SumFunctionOnSet(supply, R)
    BY DEF TotalDemand, CutCapacity, SourceCut, EdgeCut, ResourceCut, SumFunction,
           HallViolator, BoxesOf
  <1> HIDE DEF edges, incident, supply
  <1>6. /\ SumFunctionOnSet(d, B) = SumFunctionOnSet(d, bs) + SumFunctionOnSet(d, B \ bs)
        /\ SumFunctionOnSet(supply, R)
             = SumFunctionOnSet(supply, rs) + SumFunctionOnSet(supply, R \ rs)
    BY <1>1, <1>2, SumSplit
  <1>7. /\ SumFunctionOnSet(supply, rs) <= SumFunctionOnSet(c, rs)
        /\ SumFunctionOnSet(supply, R \ rs) <= SumFunctionOnSet(incident, R \ rs)
    BY <1>1, <1>2, SumMonotone
  <1>8. /\ SumFunctionOnSet(d, bs) \in Int /\ SumFunctionOnSet(d, B \ bs) \in Int
        /\ SumFunctionOnSet(c, rs) \in Int /\ SumFunctionOnSet(edges, bs) \in Int
        /\ SumFunctionOnSet(supply, rs) \in Int /\ SumFunctionOnSet(supply, R \ rs) \in Int
    BY <1>1, <1>2, <1>3, SumInt
  <1>9. QED
    BY <1>4, <1>5, <1>6, <1>7, <1>8

LEMMA EmptyIsNoViolator ==
    ASSUME NEW inst, ProperInstance(inst)
    PROVE  ~HallViolator(inst, {})
  <1> DEFINE supply == [r \in ResourcesOf(inst) |-> Supply(inst, {}, r)]
  <1>1. IsFiniteSet(ResourcesOf(inst)) /\ {} \in SUBSET BoxesOf(inst)
    BY DEF ProperInstance
  <1>2. \A r \in ResourcesOf(inst) : supply[r] \in Nat
    BY <1>1, SupplyNat
  <1> HIDE DEF supply
  <1>3. SumFunctionOnSet(supply, ResourcesOf(inst)) \in Nat
    BY <1>1, <1>2, SumNat
  <1>4. SumFunctionOnSet(inst.demands, {}) = 0
    BY SumEmpty
  <1>5. QED
    BY <1>3, <1>4 DEF HallViolator, SumFunction, supply

\* With an allocation no set of boxes demands more than it can get.
LEMMA AllocationMeetsHall ==
    ASSUME NEW inst, ProperInstance(inst), NEW alloc, Allocation(inst, alloc),
           NEW bs \in SUBSET BoxesOf(inst)
    PROVE  ~HallViolator(inst, bs)
  <1> DEFINE R == ResourcesOf(inst)
             d == inst.demands
             T == [b \in bs |-> {b} \X alloc[b]]
             via == [u \in UNION {T[b] : b \in bs} |-> u[2]]
             supply == [r \in R |-> Supply(inst, bs, r)]
  <1>1. /\ IsFiniteSet(R) /\ IsFiniteSet(bs)
        /\ \A b \in bs : /\ IsFiniteSet(inst.reachable[b]) /\ IsFiniteSet(alloc[b])
                         /\ alloc[b] \subseteq inst.reachable[b]
                         /\ inst.reachable[b] \subseteq R
                         /\ Cardinality(alloc[b]) = d[b] /\ d[b] \in Nat
    BY FS_Subset DEF ProperInstance, Allocation
  <1>2. \A b \in bs : IsFiniteSet(T[b]) /\ Cardinality(T[b]) = d[b]
    <2> TAKE b \in bs
    <2>1. IsFiniteSet({b}) /\ Cardinality({b}) = 1
      BY FS_Singleton
    <2>2. IsFiniteSet({b} \X alloc[b])
          /\ Cardinality({b} \X alloc[b]) = Cardinality({b}) * Cardinality(alloc[b])
      BY <1>1, <2>1, FS_Product
    <2>3. QED
      BY <1>1, <2>1, <2>2
  <1>3. \A b \in bs : \A u \in T[b] : via[u] = u[2] /\ u = <<b, u[2]>> /\ u[2] \in alloc[b]
    OBVIOUS
  <1>4. Draws(bs, T, via, inst.reachable)
    <2>1. \A b, e \in bs : b # e => T[b] \cap T[e] = {}
      OBVIOUS
    <2>2. \A b \in bs : \A u \in T[b] : via[u] \in inst.reachable[b]
      BY <1>1, <1>3
    <2>3. \A b \in bs : \A u, w \in T[b] : via[u] = via[w] => u = w
      BY <1>3
    <2> HIDE DEF T, via
    <2>4. QED
      BY <1>1, <1>2, <2>1, <2>2, <2>3 DEF Draws
  <1>5. ASSUME NEW r \in R
        PROVE  /\ supply[r] \in Int
               /\ Cardinality(GivenBy(bs, T, via, r)) <= supply[r]
    <2> DEFINE given == GivenBy(bs, T, via, r)
               holders == {b \in BoxesOf(inst) : r \in alloc[b]}
               incident == {b \in bs : r \in inst.reachable[b]}
    <2>1. Cardinality(given) <= Cardinality(incident)
      <3> HIDE DEF T, via
      <3>1. QED
        BY <1>4, GivenIsIncident
    <2>2. Cardinality(given) <= Cardinality(holders) /\ IsFiniteSet(given)
      <3> DEFINE owner == [u \in given |-> u[1]]
      <3>1. \A u \in given : owner[u] \in holders
        BY <1>3 DEF GivenBy
      <3>2. \A u, w \in given : owner[u] = owner[w] => u = w
        BY <1>3 DEF GivenBy
      <3>3. IsFiniteSet(holders)
        BY FS_Subset DEF ProperInstance
      <3> HIDE DEF given, holders, owner
      <3>4. QED
        BY <3>1, <3>2, <3>3, RoomFor
    <2>3. Cardinality(holders) <= inst.capacities[r]
      BY DEF Allocation
    <2>4. /\ Cardinality(given) \in Nat /\ Cardinality(holders) \in Nat
          /\ Cardinality(incident) \in Nat /\ inst.capacities[r] \in Nat
          /\ Supply(inst, bs, r) \in Nat
      <3>1. IsFiniteSet(holders)
        BY FS_Subset DEF ProperInstance
      <3> HIDE DEF given, holders
      <3>2. QED
        BY <2>2, <3>1, FS_CardinalityType, SupplyNat DEF ProperInstance
    <2>5. supply[r] = Supply(inst, bs, r)
      OBVIOUS
    <2>6. Supply(inst, bs, r) = IF Cardinality(incident) < inst.capacities[r]
                                  THEN Cardinality(incident) ELSE inst.capacities[r]
      BY DEF Supply
    <2> HIDE DEF given, holders, incident, supply, T, via
    <2>7. QED
      BY <2>1, <2>2, <2>3, <2>4, <2>5, <2>6 DEF given
  <1>6. SumFunctionOnSet(d, bs) <= SumFunctionOnSet(supply, R)
    <2>1. \A b \in bs : d[b] \in Int /\ d[b] <= Cardinality(T[b])
      BY <1>1, <1>2
    <2> HIDE DEF T, via, supply
    <2>2. QED
      BY <1>1, <1>4, <1>5, <2>1, HallBound
  <1>7. SumFunctionOnSet(d, bs) \in Int /\ SumFunctionOnSet(supply, R) \in Int
    <2>1. \A b \in bs : d[b] \in Int
      BY <1>1
    <2> HIDE DEF supply
    <2>2. QED
      BY <1>1, <1>5, <2>1, SumInt
  <1>8. HallViolator(inst, bs) <=> SumFunctionOnSet(d, bs) > SumFunctionOnSet(supply, R)
    BY DEF HallViolator, SumFunction
  <1> HIDE DEF supply
  <1>9. QED
    BY <1>6, <1>7, <1>8

---------------------------------------------------------------------------
(* Finite sets in order. *)

\* What is below each member of S in a strict total order.
Ranks(S, below) ==
    /\ below \in [S -> SUBSET S]
    /\ \A x \in S : x \notin below[x]
    /\ \A x, y \in S : x \in below[y] => below[x] \subseteq below[y]
    /\ \A x, y \in S : x = y \/ x \in below[y] \/ y \in below[x]

(* No two members have the same rank. *)
LEMMA RanksDiffer ==
    ASSUME NEW S, IsFiniteSet(S), NEW below, Ranks(S, below)
    PROVE  /\ Cardinality(S) \in Nat
           /\ \A x \in S : Cardinality(below[x]) \in Nat /\ Cardinality(below[x]) < Cardinality(S)
           /\ \A x, y \in S : Cardinality(below[x]) = Cardinality(below[y]) => x = y
  <1> DEFINE N == Cardinality(S)
  <1>1. N \in Nat
    BY FS_CardinalityType
  <1>2. ASSUME NEW x \in S
        PROVE  /\ IsFiniteSet(below[x]) /\ Cardinality(below[x]) \in Nat
               /\ Cardinality(below[x]) < N
    <2>1. below[x] \in SUBSET S /\ below[x] # S
      BY DEF Ranks
    <2>2. IsFiniteSet(below[x]) /\ Cardinality(below[x]) <= N /\ Cardinality(below[x]) # N
      BY <2>1, FS_Subset
    <2>3. QED
      BY <1>1, <2>2, FS_CardinalityType
  <1>3. ASSUME NEW x \in S, NEW y \in S, x \in below[y]
        PROVE  Cardinality(below[x]) # Cardinality(below[y])
    <2>1. below[x] \in SUBSET below[y] /\ below[x] # below[y]
      BY <1>3 DEF Ranks
    <2>2. QED
      BY <1>2, <2>1, FS_Subset
  <1>4. ASSUME NEW x \in S, NEW y \in S, Cardinality(below[x]) = Cardinality(below[y])
        PROVE  x = y
    BY <1>3, <1>4 DEF Ranks
  <1>5. QED
    BY <1>1, <1>2, <1>4

(* In a finite set that is ordered every rank is taken.                    *)
LEMMA RankIsTaken ==
    ASSUME NEW S, IsFiniteSet(S), NEW below, Ranks(S, below), NEW n \in 1 .. Cardinality(S)
    PROVE  \E x \in S : Cardinality(below[x]) = n - 1
  <1> DEFINE N == Cardinality(S)
             rank == [x \in S |-> Cardinality(below[x]) + 1]
  <1>1. N \in Nat /\ IsFiniteSet(1 .. N) /\ Cardinality(1 .. N) = N
    <2>1. N \in Nat
      BY FS_CardinalityType
    <2> HIDE DEF N
    <2>2. QED
      BY <2>1, FS_Interval
  <1>2. \A x \in S : Cardinality(below[x]) \in Nat /\ Cardinality(below[x]) < N
    BY RanksDiffer
  <1>3. \A x, y \in S : rank[x] = rank[y] => x = y
    <2> SUFFICES ASSUME NEW x \in S, NEW y \in S, rank[x] = rank[y]
                 PROVE  x = y
      OBVIOUS
    <2>1. Cardinality(below[x]) = Cardinality(below[y])
      BY <1>2
    <2>2. QED
      BY <2>1, RanksDiffer
  <1>4. rank \in [S -> 1 .. N]
    BY <1>1, <1>2
  <1>5. rank \in Surjection(S, 1 .. N)
    <2>1. rank \in Injection(S, 1 .. N)
      BY <1>3, <1>4 DEF Injection, IsInjective
    <2> HIDE DEF rank, N
    <2>2. QED
      BY <1>1, <2>1, FS_Injection DEF N
  <1>6. PICK x \in S : rank[x] = n
    BY <1>5 DEF Surjection
  <1>7. QED
    BY <1>2, <1>6
=============================================================================
