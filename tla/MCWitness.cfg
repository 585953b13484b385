SPECIFICATION Spec
CONSTANT Claims <- MCClaims
INVARIANTS TypeOK RebuiltIsImplied EvidenceProves ValidMeansUnsat
