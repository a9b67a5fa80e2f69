SPECIFICATION ServerSpec
CONSTANTS
  Setups <- MCSetups Budgets <- MCBudgets
  c1 = c1 n1 = n1 u1 = u1
INVARIANTS ConnectionSound PluginsSound
PROPERTIES ConnectionSettles SavedInTheEnd
CHECK_DEADLOCK FALSE
