------------------------------ MODULE MCNative ------------------------------
(* Small files and the campaign's commands for Native. *)
EXTENDS Native, SmallFormulas

File(f) == [declared |-> Len(f), body |-> f]

\* A SATLIB trailer, a genuine empty clause, and two wrong headers.
Trailed == [declared |-> Len(Holes2), body |-> Holes2 \o << {} >>]
WithEmpty == File(<< {1, 2}, {}, {-1} >>)
Short == [declared |-> 3, body |-> << {1, 2}, {-1} >>]
Long == [declared |-> 1, body |-> << {1, 2}, {-1} >>]

\* Refuted, in files that the checker does not read: with a trailer, with a tautology.  The
\* two literals of its variable clash with no other clause, and recovery passes them over.
TrailedHoles == [declared |-> Len(Holes3), body |-> Holes3 \o << {} >>]
Tautological == Holes3 \o << {7, -7} >>

\* A box that the registry finds and cannot place on a resource.
Hidden == << {1, 2, 7}, {1, 2, -7} >> \o Tail(Holes3)
Open == Holes2 \o << {5, 6}, {-5, -6} >>

Plain == << {1, -2, 3} >>

MCFiles == {Trailed, TrailedHoles, WithEmpty, Short, Long}
             \cup {File(f) : f \in {Holes3, Tautological, Hidden, Open, Pigeons, Twice, Plain}}

Command(solver, stop, written, loose) ==
    [fallback |-> solver, stopAfter |-> stop, witness |-> written, oneSided |-> loose]

\* config["modes"] and config["ablation_variants"], and phase 6.
MCCommands ==
    {Command("cadical", s, FALSE, FALSE) : s \in {"none", "gate", "recovery", "registry"}}
      \cup {Command("kissat", "flow", TRUE, FALSE), Command("selector", "flow", TRUE, FALSE),
            Command("selector", "flow", TRUE, TRUE), Command("none", "flow", FALSE, TRUE)}
=============================================================================
