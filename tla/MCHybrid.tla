------------------------------ MODULE MCHybrid ------------------------------
(* Small formulas for Hybrid. *)
EXTENDS Hybrid, SmallFormulas

\* Three pigeons of which the clause {1, 2}, or {-1, -2}, is found only by
\* resolution on variable 7.
Hidden == << {1, 2, 7}, {1, 2, -7} >> \o Tail(Holes3)
HiddenBelow == << {1, 2}, {-1, -2, 7}, {-1, -2, -7} >> \o SubSeq(Holes3, 3, Len(Holes3))

\* Two hidden clauses, and no memory for the second one; one clause, or
\* some pairs to resolve, too many.
HiddenTwice == << {1, 2, 7}, {1, 2, -7}, {-1, -2}, {3, 4, 8}, {3, 4, -8} >>
                 \o SubSeq(Holes3, 4, Len(Holes3))
Large == HiddenTwice \o << {7, 8} >>
Dense == Overlap \o << {1, 2, 3}, {2, 3, 4} >>

\* The boxes have an allocation, the formula has no model.
Contradiction == Holes2 \o << {5}, {-5} >>

\* Nothing for the first gate, and nothing for the second.
Plain == << {1, -2, 3} >>
Weak == << {1, 2}, {-1, -2} >>

MCFormulas == {Holes2, Holes3, Hidden, HiddenBelow, HiddenTwice, Large, Dense,
               Contradiction, Twice, Overlap, Shared, Partial, Loose, Cap2, Plain, Weak}
=============================================================================
