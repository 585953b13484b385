------------------------------- MODULE MCFlow -------------------------------
(* Small capacity instances for Flow. *)
EXTENDS Flow

Small(B, R) ==
    [demands : [1 .. B -> 1 .. 2], capacities : [1 .. R -> 1 .. 2],
     reachable : [1 .. B -> SUBSET (1 .. R)]]

\* The shapes of phase2/generator.py's overlapping_hall_violation, and a
\* matching whose last unit has to be rerouted through every box.
Overlapping ==
    [demands |-> <<1, 1, 1, 1, 1>>, capacities |-> <<1, 1, 1, 1>>,
     reachable |-> <<{1, 2}, {1, 2}, {1, 2}, {3, 4}, {3, 4}>>]
Rerouted ==
    [demands |-> <<1, 1, 1>>, capacities |-> <<1, 1, 1>>,
     reachable |-> <<{1, 2}, {2, 3}, {1}>>]

MCInstances == Small(2, 2) \cup {Rerouted}
MCWide == Small(3, 2)
=============================================================================
