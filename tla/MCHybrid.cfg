SPECIFICATION Spec
CONSTANTS
  Formulas <- MCFormulas
  PivotLimit = 2
  MaxDepth = 8
  MaxSize = 12
  DerivedBudget = 5000
  MemoryBudget = 1250
  Budgets = {40, 200}
  MaxCapacity = 3
  MinSignal = 3
  MaxClauses = 14
  MaxPairs = 34
INVARIANTS NeverRaises ChildReaped
PROPERTY ImplementsSolver
