SPECIFICATION FairSpec
CONSTANTS
  Formulas <- MCFormulas
  PivotLimit = 2
  MaxDepth = 2
  MaxSize = 3
  DerivedBudget = 6
  MemoryBudget = 900
INVARIANTS TypeOK Sound Replayable ClosedWhenComplete WithinBudgets
PROPERTIES Terminates ImplementsResolution
