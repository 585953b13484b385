------------------------------- MODULE Export -------------------------------
(***************************************************************************)
(* create_witness (phase2/witness.py) and write_witness, its C++ twin      *)
(* (native/core/lkk_core.hpp): the file that the checker of module Witness *)
(* reads, made from what recovery, registry and flow hand over.            *)
(***************************************************************************)
EXTENDS CNF, Capacity, Sequences

IdsOf(records, family) == {i \in DOMAIN records : records[i].clause \in family}

\* What the registry found a box in; one-sided boxes are found in a single
\* clause.
BoxEvidence(box, kind) ==
    Combinations(box.group, Cardinality(box.group) - box.demand + 1, 1)
      \cup IF kind = "exact" THEN Combinations(box.group, box.demand + 1, -1) ELSE {}

ResourceEvidence(resource) == Combinations(resource.group, resource.capacity + 1, -1)

\* The flow named boxes bs and resources rs.
FlowEntry(inst, bs, rs, cut) ==
    [boxes |-> bs, resources |-> rs,
     sourceCut |-> SourceCut(inst, bs),
     edgeCut |-> EdgeCut(inst, bs, rs),
     resourceCut |-> ResourceCut(inst, rs),
     cut |-> cut, demand |-> TotalDemand(inst)]

CreateWitness(f, records, boxes, kinds, resources, flow) ==
    [of |-> f,
     database |-> records,
     boxes |-> [b \in DOMAIN boxes |->
        [group |-> boxes[b].group, demand |-> boxes[b].demand, kind |-> kinds[b],
         evidence |-> IdsOf(records, BoxEvidence(boxes[b], kinds[b]))]],
     resources |-> [r \in DOMAIN resources |->
        [group |-> resources[r].group, capacity |-> resources[r].capacity,
         evidence |-> IdsOf(records, ResourceEvidence(resources[r]))]],
     mapping |-> [v \in UNION {resources[r].group : r \in DOMAIN resources} |->
        CHOOSE r \in DOMAIN resources : v \in resources[r].group],
     flow |-> flow]
=============================================================================
