SPECIFICATION Spec
CONSTANTS c1 = c1 c2 = c2 x = x y = y a1 = a1 None = none

Conns = {c1, c2}
Names = {x}
Default = dflt
Accounts = {dflt}
Online <- OnlineTree
Bare = {}
Stored <- StoredTree
StoredAcl <- RootAcl
SheetSets = {}
GrantSets = {}
Budgets <- BudgetsTree
CHECK_DEADLOCK FALSE
INVARIANTS BrowserAgrees SubscriptionsAgree TreeSound
SYMMETRY Symmetry
