SPECIFICATION Spec
CONSTANT Documents <- MCDocuments
INVARIANT ProvenIsImplied
