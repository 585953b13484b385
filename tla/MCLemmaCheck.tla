---------------------------- MODULE MCLemmaCheck ----------------------------
(* Genuine and altered lemma documents for LemmaCheck, over two boxes and   *)
(* two resources.                                                          *)
EXTENDS LemmaCheck, SmallFormulas

\* Feasible, and {-1, -4} does not follow; 5 may be derived away.
Formula == Holes2 \o << {2, 5}, {4, -5} >>

Original(C) == [clause |-> C, original |-> TRUE, parentA |-> 0, parentB |-> 0, pivot |-> 0]
Step(C, a, b, p) == [clause |-> C, original |-> FALSE, parentA |-> a, parentB |-> b, pivot |-> p]

Originals == [i \in DOMAIN Formula |-> Original(Formula[i])]

Genuine == Originals \o << Step({2, 4}, 7, 8, 5) >>

Databases ==
    {Genuine, Originals,
     \* a clause that is no original, and a step from it
     Originals \o << Original({1}), Step({-3}, 9, 5, 1) >>,
     \* parents that come later, are missing, or are the step itself
     << Step({2, 4}, 8, 9, 5) >> \o Originals,
     Originals \o << Step({2, 4}, 9, 9, 5) >>,
     Originals \o << Step({2, 4}, 0, 8, 5) >>,
     \* a pivot that does not clash, and a step that forgets a literal
     Originals \o << Step({2, 4}, 7, 8, 2) >>,
     Originals \o << Step({4}, 7, 8, 5) >>,
     \* a step on two clashing variables
     Originals \o << Step({2, -2}, 1, 2, 1) >>,
     SubSeq(Originals, 2, 8)}

Box(g, d) == [group |-> g, demand |-> d]
Resource(i, g, c) == [id |-> i, group |-> g, capacity |-> c]

Boxes == {<< Box({1, 2}, 1), Box({3, 4}, 1) >>,
          << Box({1, 2}, 1), Box({1, 2}, 1) >>,
          << Box({1, 2}, 2), Box({3, 4}, 1) >>,
          << Box({1, 2}, 0), Box({3, 4}, 1) >>,
          << Box({3, 4}, 1) >>,
          \* no clause says so much, and a variable against itself
          << Box({1, 2}, 4) >>,
          << Box({1, -1}, 1) >>}

Resources == {<< Resource(0, {1, 3}, 1), Resource(1, {2, 4}, 1) >>,
              \* ids that are no positions, and two that are the same
              << Resource(7, {1, 3}, 1), Resource(2, {2, 4}, 1) >>,
              << Resource(1, {1, 3}, 1), Resource(1, {2, 4}, 1) >>,
              << Resource(0, {1, 3}, 1), Resource(1, {2, 4}, 0) >>,
              << Resource(0, {1, 3}, 1), Resource(1, {2}, 1), Resource(2, {2, 4}, 1) >>,
              << Resource(0, {1, 3}, 1) >>,
              << Resource(0, {1, 3}, -2) >>}

Conditional(C, S) ==
    [clause |-> C, origin |-> "conditional_capacity_conflict", support |-> S]

Lemmas ==
    {<< Conditional({-1, -3}, {1, 3}), Conditional({-1, -4}, {1, 4}),
        Conditional({-1}, {1, 3}), Conditional({-5}, {5}) >>,
     << [clause |-> {1, 2}, origin |-> "exact_r_family", support |-> {1, 2}],
        [clause |-> {2, 4}, origin |-> "exact_r_family", support |-> {1, 2}],
        [clause |-> {2, 4}, origin |-> "bounded_resolution_resolvent", support |-> {}],
        [clause |-> {-3}, origin |-> "bounded_resolution_resolvent", support |-> {}] >>,
     << Conditional({1, -1}, {1}) >>}

Document(db, bs, rs, ls) == [database |-> db, boxes |-> bs, resources |-> rs, lemmas |-> ls]

\* Boxes {1, 5} and {2, 6} draw from three resources, of which the first two
\* may go by one id.
Merged == << {1, 5}, {-1, -5}, {2, 6}, {-2, -6}, {-1, -3}, {-2, -4}, {-5, -6} >>

MergedDocument(id) ==
    Document([i \in DOMAIN Merged |-> Original(Merged[i])],
             << Box({1, 5}, 1), Box({2, 6}, 1) >>,
             << Resource(0, {1, 3}, 1), Resource(id, {2, 4}, 1), Resource(2, {5, 6}, 1) >>,
             << Conditional({-1, -2}, {1, 2}), Conditional({-5, -6}, {5, 6}) >>)

MCDocuments ==
    {<<Formula, Document(db, bs, rs, ls)>> :
        db \in Databases, bs \in Boxes, rs \in Resources, ls \in Lemmas}
    \cup {<<Merged, MergedDocument(id)>> : id \in 0 .. 2}
    \cup {<<Formula \o << {1, -1} >>,
            Document(Genuine, << Box({1, 2}, 1) >>, <<>>, <<>>)>>}
=============================================================================
