------------------------------ MODULE MCWitness ------------------------------
(* Small witnesses for Witness: claims about formulas over two or three    *)
(* variables, right and wrong ones.                                        *)
EXTENDS Witness

\* Records of a database.
Original(C) == [clause |-> C, depth |-> 0, original |-> TRUE,
                parentA |-> 0, parentB |-> 0, pivot |-> 0]
Step(C, a, b, p) == [clause |-> C, depth |-> 1, original |-> FALSE,
                     parentA |-> a, parentB |-> b, pivot |-> p]

Originals(f) == [i \in DOMAIN f |-> Original(f[i])]

\* The evidence a witness can give: ids of the required clauses it has.
IdsOf(db, required) == {i \in DOMAIN db : db[i].clause \in required}

BoxIn(db, g, d, kind) ==
    [group |-> g, demand |-> d, kind |-> kind,
     evidence |-> IdsOf(db, LowerFamily(g, d)
                        \cup IF kind = "exact" THEN UpperFamily(g, d) ELSE {})]

ResourceIn(db, g, c) ==
    [group |-> g, capacity |-> c, evidence |-> IdsOf(db, UpperFamily(g, c))]

ResourceWith(rs, v) == CHOOSE r \in DOMAIN rs : v \in rs[r].group

InstanceOf(bs, rs) ==
    [demands    |-> [b \in DOMAIN bs |-> bs[b].demand],
     capacities |-> [r \in DOMAIN rs |-> rs[r].capacity],
     reachable  |-> [b \in DOMAIN bs |->
         {ResourceWith(rs, v) : v \in bs[b].group \cap UNION {rs[r].group : r \in DOMAIN rs}}]]

\* Witnesses for f over a database, boxes and resources whose mapping and
\* numbers are those the checker expects, one per cut.
Consistent(f, db, bs, rs) ==
    {[of |-> f, database |-> db, boxes |-> bs, resources |-> rs,
      mapping |-> [v \in UNION {rs[r].group : r \in DOMAIN rs} |-> ResourceWith(rs, v)],
      flow |-> [boxes |-> rb, resources |-> rr,
                sourceCut |-> SourceCut(inst, rb),
                edgeCut |-> EdgeCut(inst, rb, rr),
                resourceCut |-> ResourceCut(inst, rr),
                cut |-> CutCapacity(inst, rb, rr),
                demand |-> TotalDemand(inst)]] :
        inst \in {InstanceOf(bs, rs)}, rb \in SUBSET DOMAIN bs, rr \in SUBSET DOMAIN rs}

---------------------------------------------------------------------------
(* Every way to claim boxes and resources over variables 1 and 2. *)

BoxChoices(db) ==
    LET demands(g) == 0 .. Cardinality(g)
        pairs(g, h) == {<<BoxIn(db, g, d, k), BoxIn(db, h, e, k)>> :
                          d \in demands(g), e \in demands(h), k \in {"exact", "atleast"}}
    IN  {<<BoxIn(db, {1, 2}, d, k)>> : d \in 0 .. 3, k \in {"exact", "atleast"}}
        \cup pairs({1}, {2}) \cup pairs({1}, {1, 2}) \cup pairs({1}, {1})

ResourceChoices(db) ==
    {<<ResourceIn(db, {1, 2}, c)>> : c \in -1 .. 1}
    \cup {<<ResourceIn(db, {1}, c), ResourceIn(db, {2}, d)>> : c \in 0 .. 1, d \in 0 .. 1}
    \cup {<<ResourceIn(db, {1}, 0), ResourceIn(db, {1, 2}, 1)>>}
    \cup {<<ResourceIn(db, {1}, 1)>>}

ClaimsOn(f, db) ==
    {f} \X UNION {Consistent(f, db, bs, rs) :
                    bs \in BoxChoices(db), rs \in ResourceChoices(db)}

\* Two pigeons, one hole; the same without one pigeon; the hole alone.
Pigeons == << {1}, {2}, {-1, -2} >>
OnePigeon == << {1}, {1, 2}, {-1, -2} >>
NoPigeon == << {1, 2}, {-1, -2} >>

\* The unit clause {1} is hidden behind variable 3.
Hidden == << {1, 3}, {1, -3}, {2}, {-1, -2}, {2} >>
HiddenSteps == << Step({1}, 1, 2, 3) >>

Systematic ==
    UNION {ClaimsOn(g[1], g[2]) :
             g \in {<<f, Originals(f)>> : f \in {Pigeons, OnePigeon, NoPigeon}}}

---------------------------------------------------------------------------
(* Databases with one forged step. *)

HiddenBase == SubSeq(Originals(Hidden), 1, 4)

HiddenShort == SubSeq(HiddenBase, 1, 3)

Forged ==
    {HiddenBase \o << Step(C, a, b, p) >> :
        C \in {{1}, {2}, {}, {1, -1}}, a \in 0 .. 4, b \in {1, 2, 5}, p \in {1, 3, -3}}
    \cup {HiddenBase, Tail(HiddenBase), HiddenShort, <<Original({1})>> \o HiddenBase,
          HiddenBase \o <<Original({1})>>,
          [HiddenBase EXCEPT ![1] = [@ EXCEPT !.depth = 1]]}

\* Extra complementary literals: nothing follows from resolving twice.
Twisted == << {1, 2}, {-1, -2} >>
ForgedTwist == Originals(Twisted) \o << Step({}, 1, 2, 1) >>

\* The cut that would refute two pigeons in one hole.
TwoPigeons(f, db) ==
    {w \in UNION {Consistent(f, db, bs, rs) :
                    bs \in {<<BoxIn(db, {1}, 1, "atleast"), BoxIn(db, {2}, 1, "atleast")>>},
                    rs \in {<<ResourceIn(db, {1, 2}, 1)>>}} :
        w.flow.boxes = {1, 2} /\ w.flow.resources = {1}}

Stolen == {NoPigeon} \X TwoPigeons(Pigeons, Originals(Pigeons))

\* A right witness with one field changed; the reached boxes and resources
\* may be named twice, or not exist.
Spoiled ==
    {Pigeons} \X UNION {
        {[right EXCEPT !.flow.cut = 0],
         [right EXCEPT !.flow.demand = 3],
         [right EXCEPT !.flow.boxes = {0, 1, 2}],
         [right EXCEPT !.flow.boxes = {1, 2, 3}],
         [right EXCEPT !.flow.resources = {1, 2}],
         [right EXCEPT !.boxes[1].demand = 2],
         [right EXCEPT !.boxes[2].kind = "exactly"],
         [right EXCEPT !.boxes[1].evidence = {}],
         [right EXCEPT !.resources[1].evidence = {1, 3}],
         [right EXCEPT !.mapping[1] = 2]} : right \in TwoPigeons(Pigeons, Originals(Pigeons))}

MCClaims ==
    Systematic \cup Stolen \cup Spoiled
    \cup {Hidden} \X UNION {TwoPigeons(Hidden, db) : db \in Forged \cup {HiddenBase \o HiddenSteps}}
    \cup {Twisted} \X TwoPigeons(Twisted, ForgedTwist)
=============================================================================
