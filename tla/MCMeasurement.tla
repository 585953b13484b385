----------------------------- MODULE MCMeasurement ----------------------------
(* Small corpora for both programs, and what the solvers do with the files. *)
EXTENDS Measurement

Native(name, solver, stop) ==
    [name |-> name, kind |-> "native", fallback |-> solver, stopAfter |-> stop]
Direct(name, solver) == [name |-> name, kind |-> "direct", fallback |-> solver]

\* The modes; of the variants, one that stops early and the two that do not.
MCModes == << Direct("A_cadical", "cadical"), Direct("B_kissat", "kissat"),
              Native("C_lkk_cadical", "linked", "flow"),
              Native("D_lkk_kissat", "kissat", "flow"),
              Native("E_lkk_selector", "selector", "flow") >>

MCVariants == << Native("A_lkk_disabled", "linked", "none"),
                 Native("E_full_flow", "linked", "flow"),
                 Native("F_full_selector", "selector", "flow") >>

MCSeeds == << 1 >>
MCSolvers == << "cadical", "kissat" >>
MCTimeouts == << 2, 4, 8 >>

Thresholds(boxes, clauses, signal) ==
    [minBoxes |-> boxes, minClauses |-> clauses, minSignal |-> signal]
MCThresholds == << Thresholds(1, 5, 0), Thresholds(1, 9, 0), Thresholds(3, 5, 0),
                   Thresholds(3, 9, 0) >>

Item(name, content, declared) ==
    [instance |-> name, sha256 |-> content, actual |-> content, declared |-> declared,
     status |-> "OK", present |-> TRUE]

One == Item("one", 1, "")
Two == Item("two", 2, "SATISFIABLE")
Three == Item("three", 3, "")
Four == Item("four", 4, "UNSATISFIABLE")
Five == Item("five", 5, "")
Six == Item("six", 6, "")
Copy == Item("copy", 2, "")
Lost == [Item("lost", 4, "") EXCEPT !.present = FALSE]
Tampered == [Item("tampered", 5, "") EXCEPT !.actual = 2]

MCManifests == { << One, Five, Two, Four, Three, Copy >>, << Lost, Five, Three >>,
                 << One, Tampered >>, << Four, One >>, << Six, Five, Two >>, << Two >>, << >> }

\* One has no structure, Two and Three have the same, Four is refuted by the flow,
\* Five is left open by the registry, Six by the flow.
Features(content) ==
    LET run == [Blank EXCEPT !.gate = "RUN_LKK", !.recovery = "COMPLETE",
                             !.registry = "UNKNOWN", !.structural = "UNKNOWN"]
    IN  CASE content = 1 -> [Blank EXCEPT !.gate = "SKIP_LKK", !.clauses = 7]
          [] content = 4 -> [run EXCEPT !.structural = "UNSAT", !.registry = "COMPLETE",
                                        !.boxes = 4, !.groups = 2, !.monotone = 4]
          [] content = 5 -> [run EXCEPT !.boxes = 3, !.overBudget = TRUE, !.mirror = 1]
          [] content = 6 -> [run EXCEPT !.structural = "FEASIBLE", !.registry = "COMPLETE",
                                        !.boxes = 4, !.groups = 1, !.monotone = 4]
          [] OTHER -> [run EXCEPT !.boxes = content - 1, !.monotone = 2]

Truth(content) == IF content = 4 THEN "UNSATISFIABLE" ELSE "SATISFIABLE"

Wrong(content) == IF content = 4 THEN "SATISFIABLE" ELSE "UNSATISFIABLE"

\* fast[c] is the engine that is quick with c; wrong, an engine and a file it is wrong on.
File(content, fast, wrong) ==
    [truth |-> Truth(content), features |-> Features(content),
     front |-> IF content = 3 THEN 2 ELSE 1, trailer |-> content \in {2, 5},
     engines |-> [e \in {"cadical", "kissat", "linked"} |->
        [takes |-> IF (e = "kissat") = (content \in fast) THEN 1 + (content % 2) ELSE content + 2,
         says |-> IF <<e, content>> = wrong THEN Wrong(content) ELSE Truth(content)]]]

MCProfiles == {[c \in 1..6 |-> File(c, fast, wrong)] :
                 fast \in {{3, 5}, {2}}, wrong \in {<<"none", 0>>, <<"linked", 5>>, <<"kissat", 4>>}}

MCCalibrated == {1, 2, 3}
=============================================================================
