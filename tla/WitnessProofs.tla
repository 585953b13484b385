--------------------------- MODULE WitnessProofs ---------------------------
(***************************************************************************)
(* Theorems about Witness, for every set of formulas and witnesses.        *)
(***************************************************************************)
EXTENDS Witness, BasicLemmas

---------------------------------------------------------------------------
(* Type correctness. *)

\* The formula and the witness stay those of a claim.
Typed == TypeOK /\ WellFormed(witness)

(* A record that passes holds a clause. *)
LEMMA RecordIsClause ==
    ASSUME Typed, Replaying, RecordHolds
    PROVE  witness.database[at + 1].clause \in Clause
  <1>1. at + 1 \in DOMAIN witness.database
    BY DEF Typed, WellFormed, TypeOK, Replaying, IsList
  <1>2. QED
    BY <1>1 DEF Typed, WellFormed, RecordHolds, Clause

(* The first state is well formed. *)
LEMMA TypedInit == Init => Typed
  BY ClaimsAssumption DEF Init, Fresh, Typed, TypeOK

(* Every action keeps the state well formed. *)
LEMMA TypedNext == Typed /\ [Next]_checkVars => Typed'
  <1> SUFFICES ASSUME Typed, [Next]_checkVars
               PROVE  Typed'
    OBVIOUS
  <1> USE DEF Typed, TypeOK, subject
  <1>1. ASSUME Reject
        PROVE  Typed'
    BY <1>1 DEF Reject, Rule
  <1>2. ASSUME NEW s \in {"originals", "replay", "boxes", "resources", "cut"}, Proceed(s)
        PROVE  Typed'
    BY <1>2 DEF Proceed
  <1>3. CASE UNCHANGED checkVars
    BY <1>3 DEF checkVars
  <1>4. CASE CollectOriginal
    BY <1>4 DEF CollectOriginal
  <1>5. CASE ReplayRecord
    BY <1>5, RecordIsClause DEF ReplayRecord
  <1>6. CASE AcceptBox \/ AcceptResource
    BY <1>6 DEF AcceptBox, AcceptResource
  <1>7. CASE Accept
    BY <1>7 DEF Accept, Rule
  <1>8. CASE HashMatches \/ OriginalsDone \/ ReplayDone \/ BoxesDone \/ ResourcesDone
    BY <1>2, <1>8 DEF HashMatches, OriginalsDone, ReplayDone, BoxesDone, ResourcesDone
  <1>9. CASE \/ HashMismatch \/ RecordFails \/ OriginalsMissing \/ BoxFails
             \/ ResourceFails \/ MappingFails \/ CutFails
    BY <1>1, <1>9 DEF HashMismatch, RecordFails, OriginalsMissing, BoxFails,
                      ResourceFails, MappingFails, CutFails
  <1>10. QED
    BY <1>3, <1>4, <1>5, <1>6, <1>7, <1>8, <1>9 DEF Next, Done

LEMMA AlwaysTyped == Spec => []Typed
  BY TypedInit, TypedNext, PTL DEF Spec

(* The rebuilt database is one of canonical clauses, whatever the file     *)
(* holds.                                                                  *)
THEOREM TypeCorrect == Spec => []TypeOK
  BY AlwaysTyped, PTL DEF Typed

---------------------------------------------------------------------------
(* The replay. *)

Implied(C) == \A A : SatisfiesAll(A, ClausesOf(cnf)) => Satisfies(A, C)

OriginalsInv == \A i \in DOMAIN originals : originals[i] \in ClausesOf(cnf)

\* RebuiltIsImplied, over assignments to any set of variables.
RebuiltInv == \A i \in DOMAIN clauses : Implied(clauses[i])

ReplayInv == OriginalsInv /\ RebuiltInv

(* A record that passes holds a consequence of the CNF. *)
LEMMA RecordIsImplied ==
    ASSUME Typed, ReplayInv, Replaying, RecordHolds
    PROVE  Implied(witness.database[at + 1].clause)
  <1> DEFINE r == witness.database[at + 1]
  <1> SUFFICES ASSUME NEW A, SatisfiesAll(A, ClausesOf(cnf))
               PROVE  Satisfies(A, r.clause)
    BY DEF Implied
  <1>1. CASE OriginalMatches(r)
    <2>1. r.clause = originals[at + 1] /\ at + 1 \in DOMAIN originals
      BY <1>1 DEF OriginalMatches, Typed, TypeOK
    <2>2. QED
      BY <2>1 DEF ReplayInv, OriginalsInv, SatisfiesAll
  <1>2. CASE StepMatches(r)
    <2> DEFINE a == clauses[r.parentA]
               b == clauses[r.parentB]
    <2>1. a \in Clause /\ b \in Clause
      BY <1>2 DEF StepMatches, Typed, TypeOK
    <2>2. Satisfies(A, a) /\ Satisfies(A, b)
      BY <1>2 DEF StepMatches, ReplayInv, RebuiltInv, Implied
    <2>3. r.pivot \in Literal
      <3>1. r.pivot \in Pivots(a, b)
        BY <1>2 DEF StepMatches
      <3>2. QED
        BY <2>1, <3>1 DEF Pivots, Clause
    <2>4. r.clause = Resolvent(a, b, r.pivot)
      BY <1>2 DEF StepMatches
    <2>5. QED
      BY <2>1, <2>2, <2>3, <2>4, ResolventHolds DEF Clause
  <1>3. QED
    BY <1>1, <1>2 DEF RecordHolds

(* Only CollectOriginal and ReplayRecord touch the two databases. *)
LEMMA Databases ==
    ASSUME Typed, [Next]_checkVars
    PROVE  /\ cnf' = cnf /\ witness' = witness
           /\ CollectOriginal \/ originals' = originals
           /\ ReplayRecord \/ clauses' = clauses
  BY DEF Next, Done, checkVars, HashMatches, HashMismatch, CollectOriginal, OriginalsDone,
         ReplayRecord, RecordFails, ReplayDone, OriginalsMissing, AcceptBox, BoxFails,
         BoxesDone, AcceptResource, ResourceFails, ResourcesDone, Accept, MappingFails,
         CutFails, Proceed, Reject, subject

(* Every step keeps what is rebuilt among the consequences of the CNF. *)
LEMMA ReplayNext == Typed /\ ReplayInv /\ [Next]_checkVars => ReplayInv'
  <1> SUFFICES ASSUME Typed, ReplayInv, [Next]_checkVars
               PROVE  ReplayInv'
    OBVIOUS
  <1>1. cnf' = cnf
    BY Databases
  <1>2. OriginalsInv'
    <2>1. CASE originals' = originals
      BY <1>1, <2>1 DEF ReplayInv, OriginalsInv
    <2>2. CASE CollectOriginal
      <3>1. cnf[at + 1] \in ClausesOf(cnf)
        BY <2>2 DEF CollectOriginal, Typed, TypeOK, ClausesOf
      <3>2. QED
        BY <1>1, <2>2, <3>1 DEF CollectOriginal, ReplayInv, OriginalsInv, Typed, TypeOK
    <2>3. QED
      BY <2>1, <2>2, Databases
  <1>3. RebuiltInv'
    <2>1. CASE clauses' = clauses
      BY <1>1, <2>1 DEF ReplayInv, RebuiltInv, Implied
    <2>2. CASE ReplayRecord
      <3>1. clauses' = Append(clauses, witness.database[at + 1].clause)
        BY <2>2 DEF ReplayRecord
      <3>2. Implied(witness.database[at + 1].clause)
        BY <2>2, RecordIsImplied DEF ReplayRecord
      <3>3. \A i \in DOMAIN clauses' : Implied(clauses'[i])
        BY <3>1, <3>2 DEF ReplayInv, RebuiltInv, Typed, TypeOK
      <3>4. QED
        BY <1>1, <3>3 DEF RebuiltInv, Implied
    <2>3. QED
      BY <2>1, <2>2, Databases
  <1>4. QED
    BY <1>2, <1>3 DEF ReplayInv

LEMMA AlwaysReplayed == Spec => []ReplayInv
  <1>1. Init => ReplayInv
    BY DEF Init, Fresh, ReplayInv, OriginalsInv, RebuiltInv
  <1>2. QED
    BY <1>1, ReplayNext, AlwaysTyped, PTL DEF Spec

(* Every clause the replay accepts follows from the CNF.                   *)
THEOREM ReplayIsSound == Spec => []RebuiltIsImplied
  <1>1. ReplayInv => RebuiltIsImplied
    BY DEF ReplayInv, RebuiltInv, Implied, RebuiltIsImplied, Entails
  <1>2. QED
    BY <1>1, AlwaysReplayed, PTL

---------------------------------------------------------------------------
(* The evidence. *)

\* EvidenceProves, over assignments to any set of variables.
BoxBound(b) ==
    \A A : SatisfiesAll(A, ClausesOf(cnf)) =>
        LET box == witness.boxes[b]
        IN  /\ Count(A, box.group) >= box.demand
            /\ box.kind = "exact" => Count(A, box.group) = box.demand

ResourceBound(r) ==
    \A A : SatisfiesAll(A, ClausesOf(cnf)) =>
        Count(A, witness.resources[r].group) <= witness.resources[r].capacity

EvidenceInv ==
    /\ \A b \in AcceptedBoxes : BoxBound(b)
    /\ \A r \in AcceptedResources : ResourceBound(r)

(* Required clauses that are found in the rebuilt database hold in every   *)
(* model of the CNF.                                                       *)
LEMMA EvidenceHolds ==
    ASSUME ReplayInv, NEW required, NEW evidence, Evidenced(required, evidence),
           NEW A, SatisfiesAll(A, ClausesOf(cnf)), NEW C \in required
    PROVE  Satisfies(A, C)
  <1>1. PICK i \in DOMAIN clauses : clauses[i] = C
    BY DEF Evidenced, ClausesOf
  <1>2. QED
    BY <1>1 DEF ReplayInv, RebuiltInv, Implied

(* A box that passes is one. *)
LEMMA BoxIsProved ==
    ASSUME Typed, ReplayInv, Boxing, BoxHolds
    PROVE  BoxBound(at + 1)
  <1> DEFINE box == witness.boxes[at + 1]
             n == Cardinality(box.group)
  <1> SUFFICES ASSUME NEW A, SatisfiesAll(A, ClausesOf(cnf))
               PROVE  /\ Count(A, box.group) >= box.demand
                      /\ box.kind = "exact" => Count(A, box.group) = box.demand
    BY DEF BoxBound
  <1>1. at + 1 \in DOMAIN witness.boxes
    BY DEF Typed, WellFormed, TypeOK, Boxing, IsList
  <1>2. box.group \in SUBSET Literal /\ IsFiniteSet(box.group) /\ box.demand \in Int
    BY <1>1 DEF Typed, WellFormed
  <1>3. /\ BoxSizes(box)
        /\ \A C \in BoxFamily(box) : Satisfies(A, C)
    BY EvidenceHolds DEF BoxHolds
  <1>4. Count(A, box.group) >= box.demand
    <2>1. box.demand <= n + 1
      BY <1>3 DEF BoxSizes
    <2>2. \A C \in Combinations(box.group, n - box.demand + 1, 1) : Satisfies(A, C)
      BY <1>3 DEF BoxFamily, LowerFamily
    <2>3. QED
      BY <1>2, <2>1, <2>2, LowerBoundHolds
  <1>5. ASSUME box.kind = "exact"
        PROVE  Count(A, box.group) <= box.demand
    <2>1. box.demand >= -1
      BY <1>3, <1>5 DEF BoxSizes
    <2>2. \A C \in Combinations(box.group, box.demand + 1, -1) : Satisfies(A, C)
      BY <1>3, <1>5 DEF BoxFamily, UpperFamily
    <2>3. QED
      BY <1>2, <2>1, <2>2, UpperBoundHolds
  <1>6. Count(A, box.group) \in Nat
    BY <1>2, CountType
  <1>7. QED
    BY <1>2, <1>4, <1>5, <1>6

(* A resource that passes is one. *)
LEMMA ResourceIsProved ==
    ASSUME Typed, ReplayInv, Resourcing, ResourceHolds
    PROVE  ResourceBound(at + 1)
  <1> DEFINE resource == witness.resources[at + 1]
  <1> SUFFICES ASSUME NEW A, SatisfiesAll(A, ClausesOf(cnf))
               PROVE  Count(A, resource.group) <= resource.capacity
    BY DEF ResourceBound
  <1>1. at + 1 \in DOMAIN witness.resources
    BY DEF Typed, WellFormed, TypeOK, Resourcing, IsList
  <1>2. /\ resource.group \in SUBSET Literal /\ IsFiniteSet(resource.group)
        /\ resource.capacity \in Int
    BY <1>1 DEF Typed, WellFormed
  <1>3. resource.capacity >= -1
    BY DEF ResourceHolds
  <1>4. \A C \in Combinations(resource.group, resource.capacity + 1, -1) : Satisfies(A, C)
    BY EvidenceHolds DEF ResourceHolds, UpperFamily
  <1>5. QED
    BY <1>2, <1>3, <1>4, UpperBoundHolds

(* What each action adds to the accepted boxes and resources. *)
LEMMA AcceptedStep ==
    ASSUME Typed, [Next]_checkVars
    PROVE  /\ \/ AcceptedBoxes' \subseteq AcceptedBoxes
              \/ AcceptBox /\ AcceptedBoxes' \subseteq AcceptedBoxes \cup {at + 1}
           /\ \/ AcceptedResources' \subseteq AcceptedResources
              \/ AcceptResource /\ AcceptedResources' \subseteq AcceptedResources \cup {at + 1}
  <1> USE DEF AcceptedBoxes, AcceptedResources
  <1>0. /\ at \in Nat
        /\ DOMAIN witness.boxes = 1 .. Len(witness.boxes)
        /\ DOMAIN witness.resources = 1 .. Len(witness.resources)
    BY DEF Typed, WellFormed, TypeOK, IsList
  <1>1. CASE UNCHANGED checkVars
    BY <1>1 DEF checkVars
  <1>2. CASE AcceptBox
    BY <1>0, <1>2 DEF AcceptBox, Boxing, subject
  <1>3. CASE AcceptResource
    BY <1>0, <1>3 DEF AcceptResource, Resourcing, subject
  <1>4. CASE BoxesDone
    BY <1>0, <1>4 DEF BoxesDone, Proceed, subject
  <1>5. CASE ResourcesDone
    BY <1>0, <1>5 DEF ResourcesDone, Proceed, subject
  <1>6. CASE HashMatches \/ OriginalsDone \/ ReplayDone
    BY <1>0, <1>6 DEF HashMatches, OriginalsDone, ReplayDone, Proceed, subject
  <1>7. CASE CollectOriginal \/ ReplayRecord
    BY <1>7 DEF CollectOriginal, ReplayRecord, Replaying, subject
  <1>8. CASE Accept
    BY <1>8 DEF Accept, Rule, subject
  <1>9. CASE Reject
    BY <1>9 DEF Reject, Rule
  <1>10. QED
    BY <1>1, <1>2, <1>3, <1>4, <1>5, <1>6, <1>7, <1>8, <1>9
       DEF Next, Done, HashMismatch, RecordFails, OriginalsMissing, BoxFails,
           ResourceFails, MappingFails, CutFails

(* Every step keeps accepted evidence proved. *)
LEMMA EvidenceNext == Typed /\ ReplayInv /\ EvidenceInv /\ [Next]_checkVars => EvidenceInv'
  <1> SUFFICES ASSUME Typed, ReplayInv, EvidenceInv, [Next]_checkVars
               PROVE  EvidenceInv'
    OBVIOUS
  <1>1. cnf' = cnf /\ witness' = witness
    BY Databases
  <1>2. \A b \in AcceptedBoxes' : BoxBound(b)
    BY AcceptedStep, BoxIsProved DEF EvidenceInv, AcceptBox
  <1>3. \A r \in AcceptedResources' : ResourceBound(r)
    BY AcceptedStep, ResourceIsProved DEF EvidenceInv, AcceptResource
  <1>4. QED
    BY <1>1, <1>2, <1>3 DEF EvidenceInv, BoxBound, ResourceBound

LEMMA AlwaysEvidenced == Spec => []EvidenceInv
  <1>1. Init => EvidenceInv
    BY DEF Init, Fresh, EvidenceInv, AcceptedBoxes, AcceptedResources
  <1>2. QED
    BY <1>1, EvidenceNext, AlwaysReplayed, AlwaysTyped, PTL DEF Spec

(* Accepted evidence proves its bounds, for groups of every size.          *)
THEOREM EvidenceIsProof == Spec => []EvidenceProves
  <1>1. EvidenceInv => EvidenceProves
    BY DEF EvidenceInv, BoxBound, ResourceBound, EvidenceProves, Models
  <1>2. QED
    BY <1>1, AlwaysEvidenced, PTL

---------------------------------------------------------------------------
(* The cut. *)

\* No variable is in two of the accepted boxes, nor in two of the resources.
Apart(items, some) ==
    \A i, j \in some : i # j => items[i].group \cap items[j].group = {}

CutInv ==
    /\ Apart(witness.boxes, AcceptedBoxes)
    /\ Apart(witness.resources, AcceptedResources)
    /\ ruling = "valid" => pc = "done" /\ MappingHolds /\ CutHolds

(* A group that shares nothing with those before it keeps them apart.      *)
LEMMA StaysApart ==
    ASSUME NEW items, at \in Nat, Apart(items, 1 .. at),
           items[at + 1].group \cap GroupsBefore(items) = {},
           NEW some, some \subseteq (1 .. at) \cup {at + 1}
    PROVE  Apart(items, some)
  BY DEF Apart, GroupsBefore

LEMMA CutInvInit == Init => CutInv
  BY DEF Init, Fresh, CutInv, Apart, AcceptedBoxes, AcceptedResources

LEMMA CutInvNext == Typed /\ CutInv /\ [Next]_checkVars => CutInv'
  <1> SUFFICES ASSUME Typed, CutInv, [Next]_checkVars
               PROVE  CutInv'
    OBVIOUS
  <1>1. witness' = witness
    BY Databases
  <1>2. Apart(witness.boxes, AcceptedBoxes')
    <2>1. CASE AcceptedBoxes' \subseteq AcceptedBoxes
      BY <2>1 DEF CutInv, Apart
    <2>2. CASE AcceptBox /\ AcceptedBoxes' \subseteq AcceptedBoxes \cup {at + 1}
      <3>1. AcceptedBoxes = 1 .. at
        BY <2>2 DEF AcceptBox, Boxing, AcceptedBoxes
      <3>2. witness.boxes[at + 1].group \cap GroupsBefore(witness.boxes) = {}
        BY <2>2 DEF AcceptBox, BoxHolds
      <3>3. QED
        BY <2>2, <3>1, <3>2, StaysApart DEF CutInv, Typed, TypeOK
    <2>3. QED
      BY <2>1, <2>2, AcceptedStep
  <1>3. Apart(witness.resources, AcceptedResources')
    <2>1. CASE AcceptedResources' \subseteq AcceptedResources
      BY <2>1 DEF CutInv, Apart
    <2>2. CASE AcceptResource /\ AcceptedResources' \subseteq AcceptedResources \cup {at + 1}
      <3>1. AcceptedResources = 1 .. at
        BY <2>2 DEF AcceptResource, Resourcing, AcceptedResources
      <3>2. witness.resources[at + 1].group \cap GroupsBefore(witness.resources) = {}
        BY <2>2 DEF AcceptResource, ResourceHolds
      <3>3. QED
        BY <2>2, <3>1, <3>2, StaysApart DEF CutInv, Typed, TypeOK
    <2>3. QED
      BY <2>1, <2>2, AcceptedStep
  <1>4. ruling' = "valid" => pc' = "done" /\ MappingHolds /\ CutHolds
    <2>1. CASE Accept
      BY <2>1 DEF Accept, Rule
    <2>2. CASE ruling' = ruling /\ (pc' = pc \/ pc # "done")
      BY <2>2 DEF CutInv
    <2>3. CASE ruling' = "invalid"
      BY <2>3
    <2>4. QED
      BY <2>1, <2>2, <2>3
         DEF Next, Done, checkVars, HashMatches, HashMismatch, CollectOriginal, OriginalsDone,
             Replaying, ReplayRecord, RecordFails, ReplayDone, OriginalsMissing, Boxing,
             AcceptBox, BoxFails, BoxesDone, Resourcing, AcceptResource, ResourceFails,
             ResourcesDone, MappingFails, CutFails, Proceed, Reject, Rule
  <1>5. (MappingHolds <=> MappingHolds') /\ (CutHolds <=> CutHolds')
    BY <1>1 DEF MappingHolds, CutHolds, Grouped, ResourceOf, Claimed, ReachedResources,
                BoxIds, BoxWith
  <1>6. QED
    BY <1>1, <1>2, <1>3, <1>4, <1>5 DEF CutInv, Apart

(* A cut below the demand leaves no model: the reached boxes get their     *)
(* true variables over edges out of the cut or from reached resources.     *)
LEMMA NoModel ==
    ASSUME Typed, EvidenceInv, CutInv, ruling = "valid",
           NEW A, SatisfiesAll(A, ClausesOf(cnf))
    PROVE  FALSE
  <1> DEFINE boxes == DOMAIN witness.boxes
             resources == DOMAIN witness.resources
             true(g) == {l \in g : LiteralTrue(A, l)}
             B == witness.flow.boxes \cap boxes
             T == [b \in boxes |-> true(witness.boxes[b].group)]
             via == [v \in Grouped(witness.resources) |-> ResourceOf(v)]
             d == Claimed.demands
             c == Claimed.capacities
             edges == [b \in witness.flow.boxes |->
                         Cardinality(Claimed.reachable[b] \ ReachedResources)]
             some == [b \in B |-> Cardinality(Claimed.reachable[b] \ ReachedResources)]
  <1>1. /\ boxes = 1 .. Len(witness.boxes) /\ Len(witness.boxes) \in Nat
        /\ resources = 1 .. Len(witness.resources) /\ Len(witness.resources) \in Nat
        /\ witness.flow.boxes \subseteq BoxIds
    BY DEF Typed, WellFormed, IsList, CutInv, CutHolds
  <1>2. /\ IsFiniteSet(boxes) /\ IsFiniteSet(resources)
        /\ IsFiniteSet(witness.flow.boxes) /\ IsFiniteSet(B) /\ IsFiniteSet(ReachedResources)
    <2>1. /\ IsFiniteSet(1 .. Len(witness.boxes)) /\ IsFiniteSet(1 .. Len(witness.resources))
          /\ IsFiniteSet(1 - Len(witness.boxes) .. Len(witness.boxes))
      <3> DEFINE low == 1 - Len(witness.boxes)
      <3>1. low \in Int
        BY <1>1
      <3> HIDE DEF low
      <3>2. IsFiniteSet(low .. Len(witness.boxes))
        BY <1>1, <3>1, IntervalFinite
      <3>3. IsFiniteSet(1 .. Len(witness.boxes)) /\ IsFiniteSet(1 .. Len(witness.resources))
        BY <1>1, IntervalFinite
      <3>4. QED
        BY <3>2, <3>3 DEF low
    <2>2. IsFiniteSet(boxes) /\ IsFiniteSet(resources) /\ IsFiniteSet(BoxIds)
      BY <1>1, <2>1 DEF BoxIds
    <2>3. QED
      BY <1>1, <2>2, FS_Subset DEF ReachedResources
  <1>3. AcceptedBoxes = boxes /\ AcceptedResources = resources
    BY DEF CutInv, AcceptedBoxes, AcceptedResources
  <1>4. ASSUME NEW v \in Grouped(witness.resources)
        PROVE  ResourceOf(v) \in resources /\ v \in witness.resources[ResourceOf(v)].group
    BY DEF Grouped, ResourceOf
  <1>5. ASSUME NEW b \in boxes
        PROVE  /\ IsFiniteSet(T[b]) /\ T[b] \subseteq Grouped(witness.resources)
               /\ d[b] \in Int /\ d[b] <= Cardinality(T[b])
               /\ BoxWith(b) = witness.boxes[b] /\ b \in BoxIds
    <2>1. IsFiniteSet(witness.boxes[b].group) /\ witness.boxes[b].demand \in Int
      BY DEF Typed, WellFormed
    <2>2. T[b] \subseteq witness.boxes[b].group /\ Cardinality(T[b]) = Count(A, witness.boxes[b].group)
      BY DEF Count
    <2>3. T[b] \subseteq Grouped(witness.resources)
      BY <2>2 DEF CutInv, MappingHolds, Grouped
    <2>4. witness.boxes[b].demand <= Cardinality(T[b])
      BY <1>3, <2>2 DEF EvidenceInv, BoxBound
    <2>5. BoxWith(b) = witness.boxes[b] /\ b \in BoxIds
      BY <1>1 DEF BoxWith, BoxIds
    <2>6. QED
      BY <2>1, <2>2, <2>3, <2>4, <2>5, FS_Subset DEF Claimed
  <1>6. ASSUME NEW b \in BoxIds
        PROVE  Claimed.reachable[b] \subseteq resources
    <2>1. BoxWith(b) \in {witness.boxes[i] : i \in boxes}
      BY <1>1 DEF BoxIds, BoxWith
    <2>2. BoxWith(b).group \subseteq Grouped(witness.resources)
      BY <2>1 DEF CutInv, MappingHolds, Grouped
    <2>3. QED
      BY <1>4, <2>2 DEF Claimed
  <1>7. Draws(B, T, via, Claimed.reachable)
    <2>1. \A b \in B : IsFiniteSet(Claimed.reachable[b])
      BY <1>2, <1>5, <1>6, FS_Subset
    <2>2. \A b \in B : IsFiniteSet(T[b])
      BY <1>5
    <2>3. \A b1, b2 \in B : b1 # b2 => T[b1] \cap T[b2] = {}
      BY <1>3 DEF CutInv, Apart
    <2>4. \A b \in B : \A v \in T[b] : via[v] = ResourceOf(v) /\ v \in witness.boxes[b].group
      BY <1>5
    <2>5. \A b \in B : \A v \in T[b] : via[v] \in Claimed.reachable[b]
      BY <1>5, <2>4 DEF Claimed
    <2>6. \A b \in B : \A v, w \in T[b] : via[v] = via[w] => v = w
      BY <2>4 DEF CutInv, MappingHolds
    <2> HIDE DEF B, T, via
    <2>7. QED
      BY <1>2, <2>1, <2>2, <2>3, <2>5, <2>6 DEF Draws
  <1>8. ASSUME NEW r \in ReachedResources
        PROVE  c[r] \in Int /\ Cardinality(GivenBy(B, T, via, r)) <= c[r]
    <2> DEFINE g == witness.resources[r].group
    <2>1. r \in resources /\ c[r] = witness.resources[r].capacity
      BY DEF ReachedResources, Claimed
    <2>2. IsFiniteSet(g) /\ c[r] \in Int
      BY <2>1 DEF Typed, WellFormed
    <2>3. GivenBy(B, T, via, r) \subseteq true(g)
      BY <1>4, <1>5 DEF GivenBy
    <2>4. Cardinality(true(g)) <= c[r]
      BY <1>3, <2>1 DEF EvidenceInv, ResourceBound, Count
    <2>5. IsFiniteSet(true(g)) /\ Cardinality(true(g)) \in Nat
      BY <2>2, FS_Subset, FS_CardinalityType
    <2> HIDE DEF true, g, T, via, B
    <2>6. Cardinality(GivenBy(B, T, via, r)) \in Nat
          /\ Cardinality(GivenBy(B, T, via, r)) <= Cardinality(true(g))
      BY <2>3, <2>5, FS_Subset, FS_CardinalityType
    <2>7. QED
      BY <2>2, <2>4, <2>5, <2>6
  <1>9. SumFunctionOnSet(d, B) <= SumFunctionOnSet(some, B) + SumFunctionOnSet(c, ReachedResources)
    <2>1. \A b \in B : d[b] \in Int /\ d[b] <= Cardinality(T[b])
      BY <1>5
    <2> HIDE DEF B, T, via, d, c
    <2>2. QED
      BY <1>2, <1>7, <1>8, <2>1, CutBound
  <1>10. ASSUME NEW b \in witness.flow.boxes
         PROVE  edges[b] \in Nat
    BY <1>1, <1>2, <1>6, FS_Subset, FS_CardinalityType
  <1>11. SumFunctionOnSet(some, B) <= SumFunctionOnSet(edges, witness.flow.boxes)
    <2>1. \A b \in witness.flow.boxes : edges[b] \in Nat
      BY <1>10
    <2>2. B \subseteq witness.flow.boxes /\ \A b \in B : some[b] = edges[b]
      OBVIOUS
    <2> DEFINE rest == witness.flow.boxes \ B
               none == [b \in rest |-> 0]
    <2>3. IsFiniteSet(rest)
      BY <1>2, FS_Subset
    <2> HIDE DEF B, some, edges
    <2>4. SumFunctionOnSet(edges, witness.flow.boxes)
            = SumFunctionOnSet(edges, B) + SumFunctionOnSet(edges, rest)
      BY <1>2, <2>1, <2>2, SumSplit
    <2>5. SumFunctionOnSet(some, B) <= SumFunctionOnSet(edges, B)
      BY <1>2, <2>1, <2>2, SumMonotone
    <2>6. 0 <= SumFunctionOnSet(edges, rest)
      BY <2>1, <2>3, SumNat
    <2>7. /\ SumFunctionOnSet(some, B) \in Int /\ SumFunctionOnSet(edges, B) \in Int
          /\ SumFunctionOnSet(edges, rest) \in Int
      BY <1>2, <2>1, <2>2, <2>3, SumInt
    <2>8. QED
      BY <2>4, <2>5, <2>6, <2>7
  <1>12. TotalDemand(Claimed) = SumFunctionOnSet(d, B) + SourceCut(Claimed, witness.flow.boxes)
    <2>1. DOMAIN d = boxes /\ BoxesOf(Claimed) = boxes /\ B \subseteq boxes
          /\ boxes \ witness.flow.boxes = boxes \ B
      BY DEF Claimed, BoxesOf
    <2>2. SumFunctionOnSet(d, boxes) = SumFunctionOnSet(d, B) + SumFunctionOnSet(d, boxes \ B)
      <3>1. \A b \in boxes : d[b] \in Int
        BY <1>5
      <3> HIDE DEF d, B, boxes
      <3>2. QED
        BY <1>2, <2>1, <3>1, SumSplit
    <2>3. QED
      BY <2>1, <2>2, Zenon DEF TotalDemand, SumFunction, SourceCut
  <1>13. /\ CutCapacity(Claimed, witness.flow.boxes, ReachedResources)
              = SourceCut(Claimed, witness.flow.boxes) + SumFunctionOnSet(edges, witness.flow.boxes)
                + SumFunctionOnSet(c, ReachedResources)
         /\ CutCapacity(Claimed, witness.flow.boxes, ReachedResources) < TotalDemand(Claimed)
    BY DEF CutInv, CutHolds, CutCapacity, EdgeCut, ResourceCut, SumFunction
  <1>14. /\ SourceCut(Claimed, witness.flow.boxes) \in Int /\ SumFunctionOnSet(d, B) \in Int
         /\ SumFunctionOnSet(some, B) \in Int /\ SumFunctionOnSet(c, ReachedResources) \in Int
         /\ SumFunctionOnSet(edges, witness.flow.boxes) \in Int
    <2>1. /\ \A b \in B : d[b] \in Int /\ some[b] \in Int
          /\ \A b \in witness.flow.boxes : edges[b] \in Int
          /\ \A r \in ReachedResources : c[r] \in Int
          /\ \A b \in boxes : d[b] \in Int
      <3>1. \A b \in boxes : d[b] \in Int
        BY <1>5
      <3>2. \A b \in B : b \in boxes /\ b \in witness.flow.boxes /\ some[b] = edges[b]
        OBVIOUS
      <3>3. \A r \in ReachedResources : c[r] \in Int
        BY <1>8
      <3> HIDE DEF B, d, c, edges, some, boxes
      <3>4. \A b \in witness.flow.boxes : edges[b] \in Int
        BY <1>10
      <3>5. QED
        BY <3>1, <3>2, <3>3, <3>4
    <2>2. IsFiniteSet(boxes \ witness.flow.boxes) /\ BoxesOf(Claimed) = boxes
      BY <1>2, FS_Subset DEF BoxesOf, Claimed
    <2> HIDE DEF B, d, c, edges, some, boxes
    <2>3. SumFunctionOnSet(d, boxes \ witness.flow.boxes) \in Int
      BY <2>1, <2>2, SumInt
    <2>4. QED
      BY <1>2, <2>1, <2>2, <2>3, SumInt, Zenon DEF SourceCut, d
  <1> HIDE DEF B, d, c, edges, some
  <1>15. QED
    BY <1>9, <1>11, <1>12, <1>13, <1>14

(* A witness is accepted only for an unsatisfiable CNF, whatever its size  *)
(* and whoever made it.                                                    *)
THEOREM ValidIsSound == Spec => []ValidMeansUnsat
  <1>1. Typed /\ EvidenceInv /\ CutInv => ValidMeansUnsat
    BY NoModel DEF ValidMeansUnsat, Satisfiable
  <1>2. Init => CutInv
    BY CutInvInit
  <1>3. QED
    BY <1>1, <1>2, CutInvNext, AlwaysEvidenced, AlwaysTyped, PTL DEF Spec

---------------------------------------------------------------------------
(* Completeness: which witnesses are accepted. *)

\* No clause of the database is tautological, and none is there twice.
CleanDatabase(db) ==
    /\ \A i \in DOMAIN db : ~Tautology(db[i].clause)
    /\ \A i, j \in DOMAIN db : db[i].clause = db[j].clause => i = j

\* The clauses of f come first, in the order in which f first has them.
OriginalsFirst(f, db) ==
    /\ \A i \in DOMAIN db : db[i].original =>
         /\ db[i].depth = 0 /\ db[i].clause \in ClausesOf(f)
         /\ \A j \in 1 .. i : db[j].original
    /\ \A k \in DOMAIN f : \E i \in DOMAIN db : db[i].original /\ db[i].clause = f[k]
    /\ \A i, j \in DOMAIN db : i < j /\ db[j].original =>
         \A k \in DOMAIN f : f[k] = db[j].clause =>
             \E m \in DOMAIN f : m < k /\ f[m] = db[i].clause

\* The others are resolvents of clauses before them.
Derivations(db) ==
    \A i \in DOMAIN db : ~db[i].original =>
        /\ db[i].parentA \in 1 .. i - 1 /\ db[i].parentB \in 1 .. i - 1
        /\ Pivots(db[db[i].parentA].clause, db[db[i].parentB].clause) = {db[i].pivot}
        /\ db[i].clause = Resolvent(db[db[i].parentA].clause, db[db[i].parentB].clause,
                                    db[i].pivot)

\* The evidence is the ids of a family that is there.
Supports(db, family, evidence) ==
    /\ \A C \in family : \E i \in DOMAIN db : db[i].clause = C
    /\ evidence = {i \in DOMAIN db : db[i].clause \in family}

GroupsApart(items) == Apart(items, DOMAIN items)

Exported ==
    /\ witness.of = cnf
    /\ CleanDatabase(witness.database)
    /\ OriginalsFirst(cnf, witness.database)
    /\ Derivations(witness.database)
    /\ GroupsApart(witness.boxes) /\ GroupsApart(witness.resources)
    /\ \A b \in DOMAIN witness.boxes :
         /\ witness.boxes[b].kind \in {"exact", "atleast"}
         /\ BoxSizes(witness.boxes[b])
         /\ Supports(witness.database, BoxFamily(witness.boxes[b]), witness.boxes[b].evidence)
    /\ \A r \in DOMAIN witness.resources :
         /\ witness.resources[r].capacity >= -1
         /\ Supports(witness.database,
                     UpperFamily(witness.resources[r].group, witness.resources[r].capacity),
                     witness.resources[r].evidence)
    /\ MappingHolds /\ CutHolds

\* What has been collected and rebuilt is the start of the database.
Collecting ==
    /\ Len(originals) <= Len(witness.database)
    /\ \A i \in DOMAIN originals :
         witness.database[i].original /\ originals[i] = witness.database[i].clause
    /\ pc = "hash" => originals = <<>> /\ at = 0
    /\ pc = "originals" => /\ at <= Len(cnf)
                           /\ \A k \in 1 .. at : cnf[k] \in ClausesOf(originals)
                           /\ \A i \in DOMAIN originals : \E k \in 1 .. at : cnf[k] = originals[i]
    /\ pc \notin {"hash", "originals"} => \A k \in DOMAIN cnf : cnf[k] \in ClausesOf(originals)

Rebuilding ==
    /\ pc \in {"hash", "originals"} => clauses = <<>>
    /\ pc = "replay" => at <= Len(witness.database) /\ Len(clauses) = at
    /\ pc \in {"boxes", "resources", "cut", "done"} => Len(clauses) = Len(witness.database)
    /\ \A i \in DOMAIN clauses : clauses[i] = witness.database[i].clause

Accepting ==
    /\ pc = "boxes" => at <= Len(witness.boxes)
    /\ pc = "resources" => at <= Len(witness.resources)
    /\ ruling # "invalid"
    /\ pc = "done" => ruling = "valid"

Passing == Exported /\ Collecting /\ Rebuilding /\ Accepting

(* Originals are collected in the order of their records. *)
LEMMA NextOriginal ==
    ASSUME Typed, Passing, CollectOriginal, cnf[at + 1] \notin ClausesOf(originals)
    PROVE  /\ Len(originals) + 1 \in DOMAIN witness.database
           /\ witness.database[Len(originals) + 1].original
           /\ witness.database[Len(originals) + 1].clause = cnf[at + 1]
  <1> DEFINE db == witness.database
             n == Len(originals) + 1
  <1>0. /\ DOMAIN db = 1 .. Len(db) /\ Len(db) \in Nat /\ n \in Nat /\ n >= 1
        /\ DOMAIN originals = 1 .. n - 1 /\ DOMAIN cnf = 1 .. Len(cnf) /\ at \in Nat
        /\ at + 1 \in DOMAIN cnf /\ pc = "originals" /\ Len(cnf) \in Nat
    BY DEF Typed, TypeOK, WellFormed, IsList, CollectOriginal
  <1>1. PICK j \in DOMAIN db : db[j].original /\ db[j].clause = cnf[at + 1]
    BY <1>0 DEF Passing, Exported, OriginalsFirst
  <1>2. j \notin 1 .. n - 1
    BY <1>0, <1>1 DEF Passing, Collecting, ClausesOf
  <1>3. n \in 1 .. j /\ n \in DOMAIN db
    BY <1>0, <1>1, <1>2
  <1>4. db[n].original
    BY <1>1, <1>3 DEF Passing, Exported, OriginalsFirst
  <1>5. n = j
    <2>1. SUFFICES ASSUME n < j
                   PROVE  FALSE
      BY <1>0, <1>1, <1>3
    <2>2. PICK m \in DOMAIN cnf : m < at + 1 /\ cnf[m] = db[n].clause
      BY <1>0, <1>1, <1>3, <2>1 DEF Passing, Exported, OriginalsFirst
    <2>3. m \in 1 .. at
      BY <1>0, <2>2
    <2>4. PICK i \in DOMAIN originals : originals[i] = cnf[m]
      BY <1>0, <2>3 DEF Passing, Collecting, ClausesOf
    <2>5. i \in DOMAIN db /\ db[i].clause = db[n].clause
      BY <1>0, <1>3, <2>2, <2>4 DEF Passing, Collecting
    <2>6. QED
      BY <1>0, <1>3, <2>4, <2>5 DEF Passing, Exported, CleanDatabase
  <1>6. QED
    BY <1>1, <1>3, <1>4, <1>5

(* The next record is an original or a resolvent of rebuilt clauses. *)
LEMMA NextRecord ==
    ASSUME Typed, Passing, Replaying
    PROVE  RecordHolds
  <1> DEFINE db == witness.database
             n == at + 1
             r == db[n]
  <1>0. /\ DOMAIN db = 1 .. Len(db) /\ Len(db) \in Nat /\ n \in DOMAIN db /\ n \in Nat
        /\ DOMAIN clauses = 1 .. n - 1 /\ pc = "replay"
        /\ Len(originals) \in Nat /\ DOMAIN originals = 1 .. Len(originals)
    BY DEF Typed, TypeOK, WellFormed, IsList, Replaying, Passing, Rebuilding
  <1>1. ~Tautology(r.clause)
    BY <1>0 DEF Passing, Exported, CleanDatabase
  <1>2. CASE r.original
    <2>1. r.depth = 0 /\ r.clause \in ClausesOf(cnf)
      BY <1>0, <1>2 DEF Passing, Exported, OriginalsFirst
    <2>2. PICK i \in DOMAIN originals : originals[i] = r.clause
      BY <1>0, <2>1 DEF Passing, Collecting, ClausesOf
    <2>3. i \in DOMAIN db /\ db[i].clause = r.clause
      BY <1>0, <2>2 DEF Passing, Collecting
    <2>4. i = n
      BY <1>0, <2>3 DEF Passing, Exported, CleanDatabase
    <2>5. QED
      BY <1>0, <1>1, <1>2, <2>1, <2>2, <2>4 DEF RecordHolds, OriginalMatches
  <1>3. CASE ~r.original
    <2>1. /\ r.parentA \in 1 .. n - 1 /\ r.parentB \in 1 .. n - 1
          /\ Pivots(db[r.parentA].clause, db[r.parentB].clause) = {r.pivot}
          /\ r.clause = Resolvent(db[r.parentA].clause, db[r.parentB].clause, r.pivot)
      BY <1>0, <1>3 DEF Passing, Exported, Derivations
    <2>2. clauses[r.parentA] = db[r.parentA].clause /\ clauses[r.parentB] = db[r.parentB].clause
      BY <1>0, <2>1 DEF Passing, Rebuilding
    <2>3. QED
      BY <1>0, <1>1, <1>3, <2>1, <2>2 DEF RecordHolds, StepMatches
  <1>4. QED
    BY <1>2, <1>3

(* Ids of a family in the database are the ids the checker looks up. *)
LEMMA SupportIsEvidence ==
    ASSUME Typed, Passing, pc \in {"boxes", "resources"},
           NEW family, NEW evidence, Supports(witness.database, family, evidence)
    PROVE  Evidenced(family, evidence)
  <1> DEFINE db == witness.database
  <1>0. /\ DOMAIN db = DOMAIN clauses
        /\ \A i \in DOMAIN clauses : clauses[i] = db[i].clause
    BY DEF Typed, TypeOK, WellFormed, IsList, Passing, Rebuilding
  <1>1. family \subseteq ClausesOf(clauses)
    BY <1>0 DEF Supports, ClausesOf
  <1>2. ASSUME NEW i \in DOMAIN clauses
        PROVE  FirstId(clauses[i]) = i
    <2>1. \A j \in DOMAIN clauses : clauses[j] = clauses[i] => j = i
      BY <1>0 DEF Passing, Exported, CleanDatabase
    <2>2. i \in 1 .. Len(clauses) /\ DOMAIN clauses = 1 .. Len(clauses) /\ Len(clauses) \in Nat
      BY DEF Typed, TypeOK
    <2>3. \A j \in 1 .. i - 1 : clauses[j] # clauses[i]
      BY <2>1, <2>2
    <2>4. QED
      BY <2>1, <2>3 DEF FirstId
  <1>3. evidence = {FirstId(C) : C \in family}
    <2>1. ASSUME NEW i \in evidence
          PROVE  i \in {FirstId(C) : C \in family}
      BY <1>0, <1>2 DEF Supports
    <2>2. ASSUME NEW C \in family
          PROVE  FirstId(C) \in evidence
      BY <1>0, <1>2 DEF Supports
    <2>3. QED
      BY <2>1, <2>2
  <1>4. QED
    BY <1>1, <1>3 DEF Evidenced

(* No action rejects. *)
LEMMA NothingRejected ==
    ASSUME Typed, Passing
    PROVE  /\ ~HashMismatch /\ ~RecordFails /\ ~OriginalsMissing
           /\ ~BoxFails /\ ~ResourceFails /\ ~MappingFails /\ ~CutFails
  <1>1. ~HashMismatch /\ ~MappingFails /\ ~CutFails
    BY DEF HashMismatch, MappingFails, CutFails, Passing, Exported
  <1>2. ~RecordFails
    BY NextRecord DEF RecordFails
  <1>3. ~OriginalsMissing
    <2> SUFFICES ASSUME pc = "replay", at = Len(witness.database)
                 PROVE  OriginalsPresent
      BY DEF OriginalsMissing
    <2>1. Len(clauses) = Len(witness.database) /\ Len(originals) <= Len(clauses)
      BY DEF Passing, Rebuilding, Collecting
    <2>2. /\ DOMAIN originals = 1 .. Len(originals) /\ DOMAIN clauses = 1 .. Len(clauses)
          /\ Len(originals) \in Nat /\ Len(clauses) \in Nat
      BY DEF Typed, TypeOK
    <2>3. \A i \in DOMAIN originals : clauses[i] = originals[i]
      BY <2>1, <2>2 DEF Passing, Rebuilding, Collecting
    <2>4. QED
      BY <2>1, <2>3 DEF OriginalsPresent
  <1>4. ASSUME Boxing
        PROVE  BoxHolds
    <2> DEFINE box == witness.boxes[at + 1]
    <2>1. /\ at + 1 \in DOMAIN witness.boxes /\ pc = "boxes" /\ at \in Nat
          /\ DOMAIN witness.boxes = 1 .. Len(witness.boxes) /\ Len(witness.boxes) \in Nat
      BY <1>4 DEF Boxing, Typed, TypeOK, WellFormed, IsList
    <2>2. box.group \cap GroupsBefore(witness.boxes) = {}
      BY <2>1 DEF Passing, Exported, GroupsApart, Apart, GroupsBefore
    <2>3. /\ box.kind \in {"exact", "atleast"} /\ BoxSizes(box)
          /\ Supports(witness.database, BoxFamily(box), box.evidence)
      BY <2>1 DEF Passing, Exported
    <2>4. QED
      BY <2>1, <2>2, <2>3, SupportIsEvidence DEF BoxHolds
  <1>5. ASSUME Resourcing
        PROVE  ResourceHolds
    <2> DEFINE resource == witness.resources[at + 1]
    <2>1. /\ at + 1 \in DOMAIN witness.resources /\ pc = "resources" /\ at \in Nat
          /\ DOMAIN witness.resources = 1 .. Len(witness.resources)
          /\ Len(witness.resources) \in Nat
      BY <1>5 DEF Resourcing, Typed, TypeOK, WellFormed, IsList
    <2>2. resource.group \cap GroupsBefore(witness.resources) = {}
      BY <2>1 DEF Passing, Exported, GroupsApart, Apart, GroupsBefore
    <2>3. /\ resource.capacity >= -1
          /\ Supports(witness.database, UpperFamily(resource.group, resource.capacity),
                      resource.evidence)
      BY <2>1 DEF Passing, Exported
    <2>4. QED
      BY <2>1, <2>2, <2>3, SupportIsEvidence DEF ResourceHolds
  <1>6. QED
    BY <1>1, <1>2, <1>3, <1>4, <1>5 DEF BoxFails, ResourceFails

(* Every step takes an exported witness further towards acceptance. *)
LEMMA PassingNext == Typed /\ Passing /\ [Next]_checkVars => Passing'
  <1> SUFFICES ASSUME Typed, Passing, [Next]_checkVars
               PROVE  Passing'
    OBVIOUS
  <1>0. cnf' = cnf /\ witness' = witness
    BY Databases
  <1>1. Exported'
    <2>1. (MappingHolds <=> MappingHolds') /\ (CutHolds <=> CutHolds')
      BY <1>0 DEF MappingHolds, CutHolds, Grouped, ResourceOf, Claimed, ReachedResources,
                  BoxIds, BoxWith
    <2>2. QED
      BY <1>0, <2>1 DEF Passing, Exported
  <1>2. /\ at \in Nat /\ Len(cnf) \in Nat /\ DOMAIN cnf = 1 .. Len(cnf)
        /\ originals \in Seq(Clause) /\ clauses \in Seq(Clause)
        /\ Len(witness.database) \in Nat
        /\ DOMAIN witness.database = 1 .. Len(witness.database)
        /\ Len(witness.boxes) \in Nat /\ Len(witness.resources) \in Nat
        /\ \A k \in DOMAIN cnf : cnf[k] \in Clause
    BY DEF Typed, TypeOK, WellFormed, IsList
  <1>3. CASE UNCHANGED checkVars
    BY <1>1, <1>3 DEF checkVars, Passing, Collecting, Rebuilding, Accepting
  <1>4. CASE HashMatches
    BY <1>0, <1>1, <1>2, <1>4 DEF HashMatches, Proceed, Passing, Collecting, Rebuilding, Accepting
  <1>5. CASE CollectOriginal
    <2>0. /\ pc = "originals" /\ pc' = pc /\ at' = at + 1 /\ at + 1 \in DOMAIN cnf
          /\ clauses' = clauses /\ ruling' = ruling
      BY <1>2, <1>5 DEF CollectOriginal
    <2>1. CASE cnf[at + 1] \in ClausesOf(originals)
      <3>1. originals' = originals
        BY <1>5, <2>1 DEF CollectOriginal
      <3>2. Collecting'
        BY <1>0, <1>2, <2>0, <2>1, <3>1 DEF Passing, Collecting
      <3>3. QED
        BY <1>0, <1>1, <2>0, <3>2 DEF Passing, Rebuilding, Accepting
    <2>2. CASE cnf[at + 1] \notin ClausesOf(originals)
      <3> DEFINE n == Len(originals) + 1
      <3>1. /\ originals' = Append(originals, cnf[at + 1]) /\ cnf[at + 1] \in Clause
            /\ originals \in Seq(Clause)
        BY <1>2, <1>5, <2>0, <2>2 DEF CollectOriginal
      <3>2. /\ DOMAIN originals = 1 .. n - 1 /\ n \in Nat /\ Len(originals') = n
            /\ DOMAIN originals' = 1 .. n /\ originals'[n] = cnf[at + 1]
            /\ \A i \in 1 .. n - 1 : originals'[i] = originals[i]
        BY <3>1
      <3>3. /\ n \in DOMAIN witness.database /\ witness.database[n].original
            /\ witness.database[n].clause = cnf[at + 1]
        BY <1>5, <2>2, NextOriginal
      <3> HIDE DEF n
      <3>4. \A i \in 1 .. n : i \in 1 .. n - 1 \/ i = n
        BY <3>2
      <3>5. \A i \in DOMAIN originals' :
              witness.database[i].original /\ originals'[i] = witness.database[i].clause
        BY <3>2, <3>3, <3>4 DEF Passing, Collecting
      <3>6. \A k \in 1 .. at + 1 : k \in 1 .. at \/ k = at + 1
        BY <1>2
      <3>7. \A C : C \in ClausesOf(originals) => C \in ClausesOf(originals')
        BY <3>2, <3>4 DEF ClausesOf
      <3>8. cnf[at + 1] \in ClausesOf(originals')
        <4>1. n \in 1 .. n
          BY <3>2, <3>3, <1>2
        <4>2. QED
          BY <3>2, <4>1 DEF ClausesOf
      <3>9. \A k \in 1 .. at' : cnf[k] \in ClausesOf(originals')
        BY <2>0, <3>6, <3>7, <3>8 DEF Passing, Collecting
      <3>10. \A i \in DOMAIN originals' : \E k \in 1 .. at' : cnf[k] = originals'[i]
        <4>1. ASSUME NEW i \in 1 .. n - 1
              PROVE  \E k \in 1 .. at' : cnf[k] = originals'[i]
          <5>1. PICK k \in 1 .. at : cnf[k] = originals[i]
            BY <2>0, <3>2, <4>1 DEF Passing, Collecting
          <5>2. k \in 1 .. at'
            BY <1>2, <2>0
          <5>3. QED
            BY <3>2, <5>1, <5>2
        <4>2. at' \in 1 .. at' /\ cnf[at'] = originals'[n]
          BY <1>2, <2>0, <3>2
        <4>3. QED
          BY <3>2, <3>4, <4>1, <4>2
      <3>11. Collecting'
        <4>1. Len(originals') <= Len(witness.database) /\ at' <= Len(cnf)
          BY <1>2, <2>0, <3>2, <3>3
        <4>2. QED
          BY <1>0, <2>0, <3>5, <3>9, <3>10, <4>1 DEF Collecting
      <3>12. QED
        BY <1>0, <1>1, <2>0, <3>11 DEF Passing, Rebuilding, Accepting
    <2>3. QED
      BY <2>1, <2>2
  <1>6. CASE OriginalsDone
    BY <1>0, <1>1, <1>2, <1>6
       DEF OriginalsDone, Proceed, Passing, Collecting, Rebuilding, Accepting
  <1>7. CASE ReplayRecord
    <2> DEFINE n == at + 1
    <2>1. /\ clauses' = Append(clauses, witness.database[n].clause)
          /\ at' = n /\ pc = "replay" /\ pc' = pc /\ originals' = originals /\ ruling' = ruling
          /\ n \in DOMAIN witness.database
          /\ witness.database[n].clause \in Clause
      BY <1>2, <1>7, RecordIsClause DEF ReplayRecord, Replaying
    <2>2. Len(clauses) = at
      BY <2>1 DEF Passing, Rebuilding
    <2>3. /\ Len(clauses') = n /\ DOMAIN clauses' = 1 .. n
          /\ DOMAIN clauses = 1 .. at
          /\ clauses'[n] = witness.database[n].clause
          /\ \A i \in 1 .. at : clauses'[i] = clauses[i]
      BY <1>2, <2>1, <2>2
    <2>4. \A i \in 1 .. n : i \in 1 .. at \/ i = n
      BY <1>2
    <2>5. n <= Len(witness.database)
      BY <1>2, <2>1
    <2> HIDE DEF n
    <2>6. \A i \in DOMAIN clauses' : clauses'[i] = witness.database[i].clause
      BY <2>3, <2>4 DEF Passing, Rebuilding
    <2>7. QED
      BY <1>0, <1>1, <2>1, <2>3, <2>5, <2>6 DEF Passing, Collecting, Rebuilding, Accepting
  <1>8. CASE ReplayDone \/ BoxesDone \/ ResourcesDone
    BY <1>0, <1>1, <1>2, <1>8 DEF ReplayDone, BoxesDone, ResourcesDone, Proceed, Passing,
       Collecting, Rebuilding, Accepting
  <1>9. CASE AcceptBox \/ AcceptResource
    BY <1>0, <1>1, <1>2, <1>9 DEF AcceptBox, AcceptResource, Boxing, Resourcing, Passing,
       Collecting, Rebuilding, Accepting
  <1>10. CASE Accept
    BY <1>0, <1>1, <1>10 DEF Accept, Rule, Passing, Collecting, Rebuilding, Accepting
  <1>11. QED
    BY <1>3, <1>4, <1>5, <1>6, <1>7, <1>8, <1>9, <1>10, NothingRejected DEF Next, Done
=============================================================================
