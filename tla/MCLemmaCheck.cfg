SPECIFICATION Spec
CONSTANT Documents <- MCDocuments
INVARIANTS TypeOK CleanReplayProves StructuralCheckProves
