SPECIFICATION ServerSpec
CONSTANTS
  Setups <- MCSetups Budgets <- MCBudgets
  c1 = c1 n1 = n1 u1 = u1
INVARIANT SavedAtShutdown
CHECK_DEADLOCK FALSE
