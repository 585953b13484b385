SPECIFICATION Spec
CONSTANT Instances <- MCInstances
INVARIANTS AgreesWithOracle AnswerIsExplained
PROPERTY Terminates
