------------------------------ MODULE LemmaCheck ------------------------------
(***************************************************************************)
(* Offline verification of a lemma document (phase4b/lemmas.py, and the    *)
(* loop over its lemmas in generate_and_verify of phase4b/run_phase4b.py): *)
(* the resolution database is replayed, the families are looked up in it,  *)
(* and each lemma is rederived and handed to an independent solver.        *)
(*                                                                         *)
(* The id of a resource is what the document says, as the sub-model is     *)
(* rebuilt by it.  Records and boxes are known by their positions, from 1: *)
(* a box's id is only printed, and a record's only decides which parents   *)
(* count as forward.  A parent at the record's own position is never its   *)
(* premise, and one beyond the records read so far ends the campaign.      *)
(*                                                                         *)
(* The solver is right when it answers, and may not answer in time.  The   *)
(* numbers of replay and family errors are kept as sets of positions.      *)
(***************************************************************************)
EXTENDS CNF, Capacity, Sequences

CONSTANT Documents  \* pairs <<formula, document>> to be verified

VARIABLES
    cnf,           \* the formula, as the file has it
    doc,           \* the lemma document
    pc,            \* "parse", "replay", "boxes", "resources", "lemmas", "done", "raised"
    at,            \* items of the current loop that are done
    proven,        \* clauses the replay vouches for
    replayErrors,  \* records it complains about
    supported,     \* clauses of families that are all proven
    familyErrors,  \* families it complains about
    accepted,      \* clauses written to the accepted file
    refuted        \* lemmas the solver refuted

docVars == <<cnf, doc, pc, at, proven, replayErrors, supported, familyErrors,
             accepted, refuted>>
subject == <<cnf, doc>>
replayed == <<proven, replayErrors>>
familied == <<supported, familyErrors>>
verdicts == <<accepted, refuted>>

\* A formula is a list of clauses, and a document has lists of records with
\* clauses; all of them may hold tautologies.
IsList(s) == Len(s) \in Nat /\ DOMAIN s = 1 .. Len(s)

ASSUME DocumentsAssumption ==
    \A d \in Documents :
        /\ d[1] \in Seq(SUBSET Literal)
        /\ IsList(d[2].database)
        /\ \A i \in DOMAIN d[2].database :
             d[2].database[i].clause \in SUBSET Literal
               /\ IsFiniteSet(d[2].database[i].clause)
        /\ IsList(d[2].lemmas)
        /\ \A i \in DOMAIN d[2].lemmas :
             d[2].lemmas[i].clause \in SUBSET Literal
               /\ IsFiniteSet(d[2].lemmas[i].clause)
        /\ IsList(d[2].boxes)
        /\ \A b \in DOMAIN d[2].boxes :
             /\ d[2].boxes[b].group \in SUBSET Literal
             /\ IsFiniteSet(d[2].boxes[b].group)
             /\ d[2].boxes[b].demand \in Int
        /\ IsList(d[2].resources)
        /\ \A r \in DOMAIN d[2].resources :
             /\ d[2].resources[r].group \in SUBSET Literal
             /\ IsFiniteSet(d[2].resources[r].group)
             /\ d[2].resources[r].capacity \in Int
             /\ d[2].resources[r].id \in Int

Fresh ==
    /\ pc = "parse" /\ at = 0
    /\ proven = {} /\ replayErrors = {}
    /\ supported = {} /\ familyErrors = {}
    /\ accepted = {} /\ refuted = {}

Init == (\E d \in Documents : cnf = d[1] /\ doc = d[2]) /\ Fresh

\* ValueError, which nothing catches.
Raise ==
    /\ pc' = "raised"
    /\ UNCHANGED <<subject, at, replayed, familied, verdicts>>

Proceed(stage) ==
    /\ pc' = stage /\ at' = 0
    /\ UNCHANGED <<subject, replayed, familied, verdicts>>

---------------------------------------------------------------------------
\* parse_cnf, which does not take a tautological clause.
Parsed == pc = "parse" /\ ~(\E C \in ClausesOf(cnf) : Tautology(C)) /\ Proceed("replay")

RaiseOnFormula == pc = "parse" /\ (\E C \in ClausesOf(cnf) : Tautology(C)) /\ Raise

(* replay_database.  Parents are looked up in the document, whether or not *)
(* their own records were accepted.                                        *)
Record == doc.database[at + 1]

Replaying == pc = "replay" /\ at < Len(doc.database)

\* Mutation of IsResolvent: a part of the resolvent will do.
IsPartOfResolvent(r) ==
    /\ r.parentA \in 1 .. at /\ r.parentB \in 1 .. at
    /\ LET a == doc.database[r.parentA].clause
           b == doc.database[r.parentB].clause
       IN  /\ r.pivot \in a /\ -r.pivot \in b
           /\ r.clause \subseteq Resolvent(a, b, r.pivot)

IsResolvent(r) ==
    /\ r.parentA \in 1 .. at /\ r.parentB \in 1 .. at
    /\ LET a == doc.database[r.parentA].clause
           b == doc.database[r.parentB].clause
       IN  /\ r.pivot \in a /\ -r.pivot \in b
           /\ r.clause = Resolvent(a, b, r.pivot)

Rederived(r) ==
    \/ r.original /\ r.clause \in ClausesOf(cnf)
    \/ ~r.original /\ IsResolvent(r)

ProveRecord ==
    /\ Replaying /\ ~Tautology(Record.clause) /\ Rederived(Record)
    /\ proven' = proven \cup {Record.clause}
    /\ at' = at + 1
    /\ UNCHANGED <<subject, pc, replayErrors, familied, verdicts>>

ComplainAboutRecord ==
    /\ Replaying /\ ~Tautology(Record.clause) /\ ~Rederived(Record)
    /\ replayErrors' = replayErrors \cup {at + 1}
    /\ at' = at + 1
    /\ UNCHANGED <<subject, pc, proven, familied, verdicts>>

RaiseOnRecord == Replaying /\ Tautology(Record.clause) /\ Raise

ReplayDone == pc = "replay" /\ at = Len(doc.database) /\ Proceed("boxes")

---------------------------------------------------------------------------
(* verify_families *)

\* exact_r_family, capacity_family
ExactRFamily(g, d) ==
    Combinations(g, d + 1, -1) \cup Combinations(g, Cardinality(g) - d + 1, 1)

CapacityFamily(g, c) == Combinations(g, c + 1, -1)

\* itertools.combinations takes no negative size, and as_clause no tautology.
BoxRaises(b) ==
    \/ b.demand < -1
    \/ b.demand > Cardinality(b.group) + 1
    \/ \E C \in ExactRFamily(b.group, b.demand) : Tautology(C)

ResourceRaises(r) ==
    \/ r.capacity < -1
    \/ \E C \in CapacityFamily(r.group, r.capacity) : Tautology(C)

\* Mutation of JudgeFamily: one proven clause is enough.
JudgeFamilyLoosely(required, name) ==
    \/ /\ required \cap proven # {}
       /\ supported' = supported \cup required
       /\ UNCHANGED familyErrors
    \/ /\ required \cap proven = {}
       /\ familyErrors' = familyErrors \cup {name}
       /\ UNCHANGED supported

\* A family is supported, under a name of its own, or complained about.
JudgeFamily(required, name) ==
    \/ /\ required \subseteq proven
       /\ supported' = supported \cup required
       /\ UNCHANGED familyErrors
    \/ /\ ~(required \subseteq proven)
       /\ familyErrors' = familyErrors \cup {name}
       /\ UNCHANGED supported

Boxing == pc = "boxes" /\ at < Len(doc.boxes)

RaiseOnBox == Boxing /\ BoxRaises(doc.boxes[at + 1]) /\ Raise

JudgeBox ==
    /\ Boxing /\ ~BoxRaises(doc.boxes[at + 1])
    /\ JudgeFamily(ExactRFamily(doc.boxes[at + 1].group, doc.boxes[at + 1].demand),
                   <<"box", at + 1>>)
    /\ at' = at + 1
    /\ UNCHANGED <<subject, pc, replayed, verdicts>>

BoxesDone == pc = "boxes" /\ at = Len(doc.boxes) /\ Proceed("resources")

Resourcing == pc = "resources" /\ at < Len(doc.resources)

RaiseOnResource == Resourcing /\ ResourceRaises(doc.resources[at + 1]) /\ Raise

JudgeResource ==
    /\ Resourcing /\ ~ResourceRaises(doc.resources[at + 1])
    /\ JudgeFamily(CapacityFamily(doc.resources[at + 1].group, doc.resources[at + 1].capacity),
                   <<"resource", at + 1>>)
    /\ at' = at + 1
    /\ UNCHANGED <<subject, pc, replayed, verdicts>>

ResourcesDone == pc = "resources" /\ at = Len(doc.resources) /\ Proceed("lemmas")

---------------------------------------------------------------------------
(* rebuild_sub_model.  The groups of a document may overlap, and several   *)
(* resources may have one id.                                              *)
Holding(groups, v) == {i \in DOMAIN groups : v \in groups[i].group}

\* cover: the id of the last resource that holds the variable.
Cover(v) == doc.resources[Max(Holding(doc.resources, v))].id

Survives(b) ==
    /\ b.demand > 0
    /\ \A v \in b.group : Holding(doc.resources, v) # {}
    /\ \A v, w \in b.group : Cover(v) = Cover(w) => v = w

Rebuilt == {b \in DOMAIN doc.boxes : Survives(doc.boxes[b])}

RebuiltVariables == UNION {doc.boxes[b].group : b \in Rebuilt}

UsedResources ==
    {r \in DOMAIN doc.resources :
        \E v \in RebuiltVariables : doc.resources[r].id = Cover(v)}

\* index, variable_to_resource: of the resources with that id the last one
\* is drawn from.
Charged(v) == Max({r \in DOMAIN doc.resources : doc.resources[r].id = Cover(v)})

\* box_of
Owner(v) == Max(Holding(doc.boxes, v) \cap Rebuilt)

(* sub_model_instance *)
Applicable(T) == T \subseteq RebuiltVariables

RemainingDemand(b, T) ==
    doc.boxes[b].demand - Cardinality({v \in T : Owner(v) = b})

RemainingCapacity(r, T) ==
    doc.resources[r].capacity - Cardinality({v \in T : Charged(v) = r})

Exceeds(T) ==
    \/ \E b \in Rebuilt : RemainingDemand(b, T) < 0
    \/ \E r \in UsedResources : RemainingCapacity(r, T) < 0

SubModelInstance(T) ==
    LET keep == {b \in Rebuilt : RemainingDemand(b, T) > 0}
    IN  [demands    |-> [b \in keep |-> RemainingDemand(b, T)],
         capacities |-> [r \in UsedResources |-> RemainingCapacity(r, T)],
         reachable  |-> [b \in keep |->
             {Charged(v) : v \in {w \in doc.boxes[b].group : ~(w \in T /\ Owner(w) = b)}}]]

\* verify_structural_unsat; the instance without conditioning is always OK
\* unless a capacity is negative.
StructuralResult ==
    IF Rebuilt = {} THEN "NO_SUB_MODEL"
    ELSE IF Exceeds({}) THEN "OVERCOMMITTED"
    ELSE ExhaustiveBoxTest(SubModelInstance({}))

\* Mutation of Confirmed: any clause over a conflicting support will do.
ConfirmedLoosely(l) ==
    /\ StructuralResult = "FEASIBLE"
    /\ l.clause \subseteq {-v : v \in l.support}
    /\ Applicable(l.support)
    /\ Exceeds(l.support) \/ ExhaustiveBoxTest(SubModelInstance(l.support)) = "UNSAT"

\* verify_conditional
Confirmed(l) ==
    /\ StructuralResult = "FEASIBLE"
    /\ l.clause = {-v : v \in l.support}
    /\ Applicable(l.support)
    /\ Exceeds(l.support) \/ ExhaustiveBoxTest(SubModelInstance(l.support)) = "UNSAT"

---------------------------------------------------------------------------
(* The loop over the lemmas: a structural check for the origin, and the    *)
(* solver on the formula and the negated lemma.                            *)
StructurallyOk(l) ==
    CASE l.origin = "conditional_capacity_conflict" -> Confirmed(l)
      [] l.origin \in {"exact_r_family", "capacity_family"} ->
           l.clause \in proven /\ l.clause \in supported
      [] OTHER -> l.clause \in proven

Lemma == doc.lemmas[at + 1]

Judging == pc = "lemmas" /\ at < Len(doc.lemmas)

Implied(C) == Entails(ClausesOf(cnf), C)

RaiseOnLemma == Judging /\ Tautology(Lemma.clause) /\ Raise

AcceptLemma ==
    /\ Judging /\ ~Tautology(Lemma.clause)
    /\ StructurallyOk(Lemma) /\ Implied(Lemma.clause)
    /\ accepted' = accepted \cup {Lemma.clause}
    /\ at' = at + 1
    /\ UNCHANGED <<subject, pc, replayed, familied, refuted>>

\* The structural check fails, or the solver does not answer.
RejectLemma ==
    /\ Judging /\ ~Tautology(Lemma.clause)
    /\ at' = at + 1
    /\ UNCHANGED <<subject, pc, replayed, familied, verdicts>>

RefuteLemma ==
    /\ Judging /\ ~Tautology(Lemma.clause) /\ ~Implied(Lemma.clause)
    /\ refuted' = refuted \cup {at + 1}
    /\ at' = at + 1
    /\ UNCHANGED <<subject, pc, replayed, familied, accepted>>

\* LEMMA_VERIFY_BUDGET_SECONDS have passed: the other lemmas are listed as
\* not reached, each one once its clause is known to be one.
VerificationBudget ==
    /\ Judging
    /\ IF \E i \in at + 1 .. Len(doc.lemmas) : Tautology(doc.lemmas[i].clause)
         THEN Raise ELSE Proceed("done")

LemmasDone == pc = "lemmas" /\ at = Len(doc.lemmas) /\ Proceed("done")

\* The document has been dealt with, or the campaign has ended.
Done == pc \in {"done", "raised"} /\ UNCHANGED docVars

Verify ==
    \/ Parsed \/ RaiseOnFormula
    \/ ProveRecord \/ ComplainAboutRecord \/ RaiseOnRecord \/ ReplayDone
    \/ JudgeBox \/ RaiseOnBox \/ BoxesDone
    \/ JudgeResource \/ RaiseOnResource \/ ResourcesDone
    \/ RaiseOnLemma \/ AcceptLemma \/ RejectLemma \/ RefuteLemma
    \/ VerificationBudget \/ LemmasDone

Next == Verify \/ Done

Spec == Init /\ [][Next]_docVars

---------------------------------------------------------------------------
TypeOK ==
    /\ pc \in {"parse", "replay", "boxes", "resources", "lemmas", "done", "raised"}
    /\ at \in Nat
    /\ proven \subseteq Clause /\ supported \subseteq proven
    /\ replayErrors \subseteq Nat
    /\ accepted \subseteq Clause /\ refuted \subseteq Nat

(* replay_database: without a complaint, every clause it returns follows   *)
(* from the CNF, whoever wrote the document; so do the families.           *)
CleanReplayProves ==
    replayErrors = {} => \A C \in proven : Implied(C)

\* Nothing was complained about, and no two boxes share a variable.
CleanAndDisjoint ==
    /\ replayErrors = {} /\ familyErrors = {}
    /\ \A b, c \in DOMAIN doc.boxes :
         b # c => doc.boxes[b].group \cap doc.boxes[c].group = {}

OneIdEach ==
    \A r, q \in DOMAIN doc.resources :
        doc.resources[r].id = doc.resources[q].id => r = q

(* The structural checks, with no help from the solver: in a document      *)
(* without errors whose boxes do not overlap and whose resources have ids  *)
(* of their own, every lemma they confirm follows from the CNF.  The       *)
(* verifier checks neither of the two.                                     *)
StructuralCheckProves ==
    pc = "lemmas" /\ CleanAndDisjoint /\ OneIdEach =>
        \A i \in DOMAIN doc.lemmas :
            StructurallyOk(doc.lemmas[i]) => Implied(doc.lemmas[i].clause)

(* What the docstring of phase4b/lemmas.py promises of the replay: "each   *)
(* database clause is proved implied by resolution" (line 11).             *)
ProvenIsImplied == \A C \in proven : Implied(C)

=============================================================================
