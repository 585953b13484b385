----------------------------- MODULE MCTransfer -----------------------------
(* Small recoveries for Transfer. *)
EXTENDS Transfer, SmallFormulas

Original == [original |-> TRUE, a |-> 0, b |-> 0, pivot |-> 0]
Step(a, b, p) == [original |-> FALSE, a |-> a, b |-> b, pivot |-> p]

Recovered(ending, f, derived, steps) ==
    [formula |-> f, status |-> ending, clauses |-> f \o derived,
     steps |-> [i \in DOMAIN f |-> Original] \o steps]

Plain(f) == Recovered("COMPLETE", f, <<>>, <<>>)

\* Nothing was recovered: a gate skipped the front end.
Skipped(f) == [formula |-> f, status |-> "COMPLETE", clauses |-> <<>>, steps |-> <<>>]

One(a, b) == << {a, b}, {-a, -b} >>

\* Three boxes in a ring: either all go one way or all the other.
Ring == One(1, 2) \o One(3, 4) \o One(5, 6)
          \o << {-1, -5}, {-3, -6}, {-2, -4} >>

\* The boxes {1, 2} and {3, 4} need both of their resources, so 5 is false.
Forced == One(1, 2) \o One(3, 4)
            \o << {5, 6, 9}, {-5, -6}, {-5, -9}, {-6, -9} >>
            \o One(7, 8)
            \o << {-1, -3}, {-1, -5}, {-3, -5}, {-2, -4}, {-6, -7}, {-8, -9} >>

\* Two of {1, 2, 3, 8}: the pairs 1, 2 and 3, 8 starve another box.  With the
\* clause {4, 6}, which is derived, there is one lemma more than may be kept.
Paired == << {1, 2, 3}, {1, 2, 8}, {1, 3, 8}, {2, 3, 8},
             {-1, -2, -3}, {-1, -2, -8}, {-1, -3, -8}, {-2, -3, -8} >>
            \o One(4, 5) \o One(6, 7)
            \o << {-1, -4}, {-2, -5}, {-3, -6}, {-7, -8}, {4, 9}, {6, -9} >>

\* Infeasible, beside a box of which no variable has a resource.
Beside == Holes3 \o One(7, 8)

\* Three boxes meet in one resource and have nowhere else to go on record.
Open == One(1, 2) \o One(3, 4) \o One(5, 6) \o << {-1, -3}, {-1, -5}, {-3, -5} >>

\* The clause {1, 2} has to be derived, and {1, 2, 3} need not be.
Split == << {1, 2, 5}, {1, 2, -5}, {-1, -2} >> \o One(3, 4) \o << {-1, -3}, {-2, -4} >>
Subsumed == << {1, 2}, {-1, -2}, {1, 2, -5}, {3, 5} >>

\* The native parser takes a clause with complementary literals.
Tautological == Holes2 \o << {1, -1} >>

MCDatabases ==
    {Plain(f) : f \in {Tautological, Holes2, Holes3, Ring, Forced, Beside, Open,
                       Overlap, Cap2}}
    \cup {Skipped(<< {1, 2}, {2, 3} >>),
          Recovered("COMPLETE", Paired, << {4, 6} >>,
                    << Step(Len(Paired) - 1, Len(Paired), 9) >>),
          Recovered("COMPLETE", Split, << {1, 2} >>, << Step(1, 2, 5) >>),
          Recovered("ABORT", Split, << {1, 2} >>, << Step(1, 2, 5) >>),
          Recovered("ABORT", Split, <<>>, <<>>),
          Recovered("COMPLETE", Subsumed, << {1, 2, 3} >>, << Step(3, 4, -5) >>)}

MCBudgets == {15, 45, 1000}
MCRegistryBudgets == {6, 1000}
=============================================================================
