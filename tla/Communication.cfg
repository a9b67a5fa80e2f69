CONSTANTS
  c1 = c1
  c2 = c2
  home = home
  session = session
  Clients = {c1, c2}
  Groups = {home, session}
  Home = home
  Limit = 2
  Budgets <- MCBudgets
SPECIFICATION Spec
INVARIANTS RegistrySound
PROPERTIES QueuesDrain
CHECK_DEADLOCK FALSE
