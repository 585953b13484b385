--------------------------- MODULE SmallFormulas ---------------------------
(* Small formulas with cardinality structure, for the MC modules.          *)
EXTENDS Integers, Sequences

\* Variable of a box that draws from a resource.
Cell(b, r) == 2 * (b - 1) + r

\* The pigeonhole formula: n boxes over two resources, each exactly one.
Row(b) == << {Cell(b, 1), Cell(b, 2)}, {-Cell(b, 1), -Cell(b, 2)} >>
Column(b, c) == << {-Cell(b, 1), -Cell(c, 1)}, {-Cell(b, 2), -Cell(c, 2)} >>
Holes2 == Row(1) \o Row(2) \o Column(1, 2)
Holes3 == Holes2 \o Row(3) \o Column(1, 3) \o Column(2, 3)

\* The standard pigeonhole formula: every box at least one.
Pigeons == << {1, 2}, {3, 4}, {5, 6} >>
             \o Column(1, 2) \o Column(1, 3) \o Column(2, 3)

\* Exactly-one boxes that refute, and a positive clause no resource covers.
Stray == Holes3 \o << {7, 8} >>

\* Exactly two of three, three times, over three resources of capacity one.
Two(a, b, c) == << {a, b}, {a, c}, {b, c}, {-a, -b, -c} >>
AtMostOne(a, b) == << {-a, -b} >>
Twice == Two(1, 2, 3) \o Two(4, 5, 6)
           \o AtMostOne(1, 4) \o AtMostOne(2, 5) \o AtMostOne(3, 6)

\* Families of different sizes that overlap, and a resource that crosses
\* boxes twice.
Overlap == Two(1, 2, 3) \o << {3, 4}, {-3, -4}, {-1, -4}, {5, 6}, {-5, -6},
                              {-1, -5}, {-2, -6}, {-3, -6} >>

\* A capacity of two over three boxes.
Cap2 == Row(1) \o Row(2) \o Row(3) \o << {-1, -3, -5}, {-2, -4, -6} >>
Cap21 == Cap2 \o << {-1, -3}, {-2, -4}, {-2, -6}, {-4, -6} >>

\* Parity-like clauses: pairs that share two variables but no family.
Loose == << {1, 2, 3}, {-1, -2}, {-1, -3}, {2, 3}, {-2, -3, -4}, {3, 4} >>

\* Boxes {1, 2} and {1, 3} overlap: only one of them may be counted.
Shared == << {1, 2}, {-1, -2}, {1, 3}, {-1, -3}, {4, 5}, {-4, -5},
             {-2, -3}, {-1, -4}, {-2, -5}, {-3, -5} >>

\* A pair that suggests a family of which most clauses are missing.
Partial == << {1, 2}, {-1, -2, -3} >>

Without(f, k) == [i \in 1 .. Len(f) - 1 |-> IF i < k THEN f[i] ELSE f[i + 1]]
=============================================================================
