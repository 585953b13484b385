----------------------------- MODULE MCRecovery -----------------------------
(* Small formulas for Recovery. *)
EXTENDS Recovery

\* Every sequence of three clauses out of a pool with units, a duplicate
\* draw, a clashing pair and clauses with two pivots.
Pool == {{1}, {-1, 2}, {-2, 3}, {-3}, {1, 2}, {-1, -2}, {2, 3}, {-1, 3}}
Triples == [1 .. 3 -> Pool]

\* At-least-two of three, mirrored on variable 4 so that the positive family
\* exists only after resolution on 4.
Mirrored == << {1, 2, 4}, {1, 2, -4}, {-1, -2, -3}, {1, 3}, {2, 3} >>

\* A chain whose last left clause meets a right one of depth two: the empty
\* clause would have depth three, on account of the right clause alone.
Chain == << {1}, {-1, 2}, {-2, 3}, {-3} >>

\* A longer one, of which the budget of derived clauses cuts off the closure.
Longer == << {1}, {-1, 2}, {-2, 3}, {-3, 4}, {-4} >>

\* A cycle of implications, of which the memory budget cuts off the closure.
Deep == << {1, 2}, {-2, 3}, {-3, 4}, {-4, 5}, {-5, 1}, {-1, 5} >>

\* An original left clause and a derived right one: the other clash of the
\* left clause makes a resolvent that is too long.
Late == << {1}, {-2, 4, 5}, {-1, 2, 3} >>

MCFormulas == Triples \cup {Mirrored, Chain, Longer, Deep, Late}
=============================================================================
