------------------------------- MODULE Witness -------------------------------
(***************************************************************************)
(* check_witness (phase2/witness.py): replays the resolution steps of a    *)
(* witness, checks the evidence for every box and resource in the clauses  *)
(* it rebuilt, and checks the cut.  It trusts nothing but the CNF, so the  *)
(* witnesses considered are not only those that create_witness makes.      *)
(*                                                                         *)
(* Ids are positions from 1, which is what the checks on ids establish,    *)
(* and the variables of a group are a set.                                 *)
(***************************************************************************)
EXTENDS CNF, Capacity, Sequences

CONSTANT Claims  \* pairs <<formula, witness>> to be checked

VARIABLES
    cnf,        \* the formula
    witness,    \* the witness
    pc,         \* "hash", "originals", "replay", "boxes", "resources", "cut", "done"
    at,         \* items of the current loop that are done
    originals,  \* unique_originals
    clauses,    \* the rebuilt clause database
    ruling      \* "none", "valid" or "invalid"

checkVars == <<cnf, witness, pc, at, originals, clauses, ruling>>
subject == <<cnf, witness>>

IsList(s) == Len(s) \in Nat /\ DOMAIN s = 1 .. Len(s)

\* A witness is what a file may hold, with lists of records whose clauses
\* are lists of non-zero integers.
WellFormed(w) ==
    /\ IsList(w.database)
    /\ \A i \in DOMAIN w.database :
         /\ w.database[i].clause \in SUBSET Literal
         /\ IsFiniteSet(w.database[i].clause)
    /\ IsList(w.boxes)
    /\ \A b \in DOMAIN w.boxes :
         /\ w.boxes[b].group \in SUBSET Literal
         /\ IsFiniteSet(w.boxes[b].group)
         /\ w.boxes[b].demand \in Int
    /\ IsList(w.resources)
    /\ \A r \in DOMAIN w.resources :
         /\ w.resources[r].group \in SUBSET Literal
         /\ IsFiniteSet(w.resources[r].group)
         /\ w.resources[r].capacity \in Int

\* A formula is what parse_cnf returns.
ASSUME ClaimsAssumption ==
    \A c \in Claims : c[1] \in Seq(Clause) /\ WellFormed(c[2])

\* The local variables before the first loop.
Fresh ==
    /\ pc = "hash" /\ at = 0
    /\ originals = <<>> /\ clauses = <<>>
    /\ ruling = "none"

Init == (\E c \in Claims : cnf = c[1] /\ witness = c[2]) /\ Fresh

Rule(r) == pc' = "done" /\ ruling' = r

\* raise WitnessError
Reject == Rule("invalid") /\ UNCHANGED <<subject, at, originals, clauses>>

\* The next loop starts.
Proceed(stage) ==
    /\ pc' = stage /\ at' = 0
    /\ UNCHANGED <<subject, originals, clauses, ruling>>

HashMatches == pc = "hash" /\ witness.of = cnf /\ Proceed("originals")

HashMismatch == pc = "hash" /\ witness.of # cnf /\ Reject

---------------------------------------------------------------------------
(* _rebuild_clause_database *)

CollectOriginal ==
    /\ pc = "originals" /\ at < Len(cnf)
    /\ originals' = IF cnf[at + 1] \in ClausesOf(originals) THEN originals
                    ELSE Append(originals, cnf[at + 1])
    /\ at' = at + 1
    /\ UNCHANGED <<subject, pc, clauses, ruling>>

OriginalsDone == pc = "originals" /\ at = Len(cnf) /\ Proceed("replay")

OriginalMatches(r) ==
    /\ r.original
    /\ at + 1 <= Len(originals) /\ r.clause = originals[at + 1]
    /\ r.depth = 0

\* Mutation of StepMatches: all complementary literals cancel.
StepMatchesLoosely(r) ==
    /\ ~r.original
    /\ r.parentA \in DOMAIN clauses /\ r.parentB \in DOMAIN clauses
    /\ LET a == clauses[r.parentA]
           b == clauses[r.parentB]
       IN  /\ r.pivot \in Pivots(a, b)
           /\ r.clause = (a \ Pivots(a, b)) \cup (b \ Pivots(b, a))

StepMatches(r) ==
    /\ ~r.original
    /\ r.parentA \in DOMAIN clauses /\ r.parentB \in DOMAIN clauses
    /\ Pivots(clauses[r.parentA], clauses[r.parentB]) = {r.pivot}
    /\ r.clause = Resolvent(clauses[r.parentA], clauses[r.parentB], r.pivot)

\* Mutation of RecordHolds: steps are taken on trust.
RecordTrusted ==
    LET r == witness.database[at + 1]
    IN  ~r.original \/ OriginalMatches(r)

RecordHolds ==
    LET r == witness.database[at + 1]
    IN  ~Tautology(r.clause) /\ (OriginalMatches(r) \/ StepMatches(r))

Replaying == pc = "replay" /\ at < Len(witness.database)

ReplayRecord ==
    /\ Replaying /\ RecordHolds
    /\ clauses' = Append(clauses, witness.database[at + 1].clause)
    /\ at' = at + 1
    /\ UNCHANGED <<subject, pc, originals, ruling>>

RecordFails == Replaying /\ ~RecordHolds /\ Reject

OriginalsPresent ==
    /\ Len(originals) <= Len(clauses)
    /\ \A i \in DOMAIN originals : clauses[i] = originals[i]

ReplayDone ==
    /\ pc = "replay" /\ at = Len(witness.database)
    /\ OriginalsPresent
    /\ Proceed("boxes")

OriginalsMissing ==
    /\ pc = "replay" /\ at = Len(witness.database)
    /\ ~OriginalsPresent
    /\ Reject

---------------------------------------------------------------------------
(* Evidence. *)

FirstId(C) == CHOOSE i \in DOMAIN clauses : /\ clauses[i] = C
                                            /\ \A j \in 1 .. i - 1 : clauses[j] # C

\* _evidence_ids(clauses, required) == evidence
Evidenced(required, evidence) ==
    /\ required \subseteq ClausesOf(clauses)
    /\ evidence = {FirstId(C) : C \in required}

\* At least d variables of g are true.
LowerFamily(g, d) == Combinations(g, Cardinality(g) - d + 1, 1)

\* At most c variables of g are true.
UpperFamily(g, c) == Combinations(g, c + 1, -1)

\* Mutation of BoxFamily: the marker is not needed for one-sided evidence.
BoxFamilyUnmarked(box) == LowerFamily(box.group, box.demand)

BoxFamily(box) ==
    LowerFamily(box.group, box.demand)
      \cup IF box.kind = "exact" THEN UpperFamily(box.group, box.demand) ELSE {}

GroupsBefore(items) == UNION {items[i].group : i \in 1 .. at}

\* itertools.combinations raises on a negative size.
BoxSizes(box) ==
    /\ box.demand <= Cardinality(box.group) + 1
    /\ box.kind = "exact" => box.demand >= -1

\* Mutation of BoxHolds: boxes may share variables.
BoxHoldsAnywhere ==
    LET box == witness.boxes[at + 1]
    IN  /\ box.kind \in {"exact", "atleast"}
        /\ BoxSizes(box)
        /\ Evidenced(BoxFamily(box), box.evidence)

BoxHolds ==
    LET box == witness.boxes[at + 1]
    IN  /\ box.group \cap GroupsBefore(witness.boxes) = {}
        /\ box.kind \in {"exact", "atleast"}
        /\ BoxSizes(box)
        /\ Evidenced(BoxFamily(box), box.evidence)

Boxing == pc = "boxes" /\ at < Len(witness.boxes)

AcceptBox ==
    /\ Boxing /\ BoxHolds
    /\ at' = at + 1
    /\ UNCHANGED <<subject, pc, originals, clauses, ruling>>

BoxFails == Boxing /\ ~BoxHolds /\ Reject

BoxesDone == pc = "boxes" /\ at = Len(witness.boxes) /\ Proceed("resources")

ResourceHolds ==
    LET resource == witness.resources[at + 1]
    IN  /\ resource.group \cap GroupsBefore(witness.resources) = {}
        /\ resource.capacity >= -1
        /\ Evidenced(UpperFamily(resource.group, resource.capacity), resource.evidence)

Resourcing == pc = "resources" /\ at < Len(witness.resources)

AcceptResource ==
    /\ Resourcing /\ ResourceHolds
    /\ at' = at + 1
    /\ UNCHANGED <<subject, pc, originals, clauses, ruling>>

ResourceFails == Resourcing /\ ~ResourceHolds /\ Reject

ResourcesDone ==
    /\ pc = "resources" /\ at = Len(witness.resources)
    /\ Proceed("cut")

---------------------------------------------------------------------------
(* The cut. *)

Grouped(items) == UNION {items[i].group : i \in DOMAIN items}

\* expected_mapping: the resource that lists a variable.
ResourceOf(v) == CHOOSE r \in DOMAIN witness.resources : v \in witness.resources[r].group

MappingHolds ==
    /\ Grouped(witness.boxes) = Grouped(witness.resources)
    /\ witness.mapping = [v \in Grouped(witness.resources) |-> ResourceOf(v)]
    /\ \A b \in DOMAIN witness.boxes : \A v, w \in witness.boxes[b].group :
         ResourceOf(v) = ResourceOf(w) => v = w

\* A list index may count from the end, so that a box goes by two ids.
BoxIds == 1 - Len(witness.boxes) .. Len(witness.boxes)

BoxWith(b) == witness.boxes[IF b > 0 THEN b ELSE b + Len(witness.boxes)]

\* What the witness says, read as a capacity instance.
Claimed ==
    [demands    |-> [b \in DOMAIN witness.boxes |-> witness.boxes[b].demand],
     capacities |-> [r \in DOMAIN witness.resources |-> witness.resources[r].capacity],
     reachable  |-> [b \in BoxIds |-> {ResourceOf(v) : v \in BoxWith(b).group}]]

\* Resources on the source side of the cut.
ReachedResources == witness.flow.resources \cap DOMAIN witness.resources

CutHolds ==
    LET flow == witness.flow
    IN  /\ flow.boxes \subseteq BoxIds
        /\ flow.sourceCut = SourceCut(Claimed, flow.boxes)
        /\ flow.edgeCut = EdgeCut(Claimed, flow.boxes, ReachedResources)
        /\ flow.resourceCut = ResourceCut(Claimed, ReachedResources)
        /\ flow.cut = CutCapacity(Claimed, flow.boxes, ReachedResources)
        /\ flow.demand = TotalDemand(Claimed)
        /\ flow.cut < flow.demand

Accept ==
    /\ pc = "cut" /\ MappingHolds /\ CutHolds
    /\ Rule("valid")
    /\ UNCHANGED <<subject, at, originals, clauses>>

MappingFails == pc = "cut" /\ ~MappingHolds /\ Reject

CutFails == pc = "cut" /\ MappingHolds /\ ~CutHolds /\ Reject

\* check_witness has returned or raised.
Done == pc = "done" /\ UNCHANGED checkVars

Next ==
    \/ HashMatches \/ HashMismatch
    \/ CollectOriginal \/ OriginalsDone
    \/ ReplayRecord \/ RecordFails \/ ReplayDone \/ OriginalsMissing
    \/ AcceptBox \/ BoxFails \/ BoxesDone
    \/ AcceptResource \/ ResourceFails \/ ResourcesDone
    \/ Accept \/ MappingFails \/ CutFails
    \/ Done

Spec == Init /\ [][Next]_checkVars

---------------------------------------------------------------------------
TypeOK ==
    /\ cnf \in Seq(Clause)
    /\ pc \in {"hash", "originals", "replay", "boxes", "resources", "cut", "done"}
    /\ at \in Nat
    /\ originals \in Seq(Clause)
    /\ clauses \in Seq(Clause)
    /\ ruling \in {"none", "valid", "invalid"}

Models == {A \in SUBSET UNION {VariablesOf(C) : C \in ClausesOf(cnf)} :
             SatisfiesAll(A, ClausesOf(cnf))}

(* What the replay has rebuilt so far follows from the CNF, however the    *)
(* witness orders or forges its records.                                   *)
RebuiltIsImplied ==
    \A i \in DOMAIN clauses : Entails(ClausesOf(cnf), clauses[i])

\* Boxes, and resources, whose evidence has been accepted.
AcceptedBoxes ==
    CASE pc = "boxes" -> 1 .. at
      [] pc \in {"resources", "cut"} -> DOMAIN witness.boxes
      [] pc = "done" /\ ruling = "valid" -> DOMAIN witness.boxes
      [] OTHER -> {}

AcceptedResources ==
    CASE pc = "resources" -> 1 .. at
      [] pc = "cut" -> DOMAIN witness.resources
      [] pc = "done" /\ ruling = "valid" -> DOMAIN witness.resources
      [] OTHER -> {}

(* Evidence that is accepted proves its bound: a box demands no more than  *)
(* every model of the CNF gives it, and exactly that unless it is marked   *)
(* "atleast", and a resource has no less capacity than any model uses.     *)
EvidenceProves ==
    \A A \in Models :
        /\ \A b \in AcceptedBoxes :
             LET box == witness.boxes[b]
             IN  /\ Count(A, box.group) >= box.demand
                 /\ box.kind = "exact" => Count(A, box.group) = box.demand
        /\ \A r \in AcceptedResources :
             Count(A, witness.resources[r].group) <= witness.resources[r].capacity

(* The point of the checker: a witness is accepted only for an             *)
(* unsatisfiable CNF, whoever made it.                                     *)
ValidMeansUnsat == ruling = "valid" => ~Satisfiable(ClausesOf(cnf))

=============================================================================
