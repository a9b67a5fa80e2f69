SPECIFICATION Spec
CONSTANTS
  None = None
  Clients = {c1, c2}
  Names = {n1, n2}
  Budgets <- KickedBudgets
PROPERTIES SubscribingSynchronizes
CHECK_DEADLOCK FALSE
