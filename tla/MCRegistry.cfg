SPECIFICATION Spec
CONSTANTS
  Databases <- MCDatabases
  Budgets <- MCBudgets
  MaxCapacity = 2
INVARIANTS FamiliesHold RefutationIsSound SameWhenUnbounded NeverFewerBoxes
