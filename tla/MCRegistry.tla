----------------------------- MODULE MCRegistry -----------------------------
(* Small clause databases for Registries. *)
EXTENDS Registries, SmallFormulas

Complete(f) == [status |-> "COMPLETE", clauses |-> f]

Bases == {Holes2, Holes3, Twice, Overlap, Cap2, Cap21, Loose, Shared, Partial,
          Pigeons, Stray}

MCDatabases ==
    {Complete(f) : f \in Bases}
    \cup {Complete(Without(Holes3, k)) : k \in DOMAIN Holes3}
    \cup {Complete(Without(Twice, k)) : k \in DOMAIN Twice}
    \cup {[status |-> "ABORT", clauses |-> Holes3]}

MCBudgets == {3, 12, 25, 36, 48, 70, 1000}
=============================================================================
