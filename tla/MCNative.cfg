SPECIFICATION Spec
CONSTANTS
  Files <- MCFiles
  Commands <- MCCommands
  PivotLimit = 2
  MaxDepth = 8
  MaxSize = 12
  DerivedBudget = 5000
  MemoryBudget = 1250
  Budgets = {60}
  MaxCapacity = 2
  MinSignal = 2
  MaxClauses = 14
  MaxPairs = 34
  MinBoxes = 3
  LargeFormula = 13
  MinOpenSignal = 4
INVARIANTS WitnessesAccepted DerivedChoice
PROPERTY ImplementsSolver
