SPECIFICATION TransferSpec
CONSTANTS
  Databases <- MCDatabases
  Budgets <- MCBudgets
  RegistryBudgets <- MCRegistryBudgets
  MaxCapacity = 2
  MaxLemmas = 2
  MaxLength = 3
  FlowBudget = 15
INVARIANTS ConclusionsImplied VerifierConfirms AnswerUnchanged
PROPERTY TransferTerminates
