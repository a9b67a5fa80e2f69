SPECIFICATION Spec
CONSTANTS c1 = c1 c2 = c2 x = x y = y a1 = a1 None = none

Conns = {c1, c2}
Names = {y}
Default = dflt
Accounts = {dflt, a1}
Online <- OnlineAcl
Bare = {}
Stored <- StoredTree
StoredAcl <- RootAcl
SheetSets <- SheetsAcl
GrantSets <- GrantsAcl
Budgets <- BudgetsAcl
CHECK_DEADLOCK FALSE
INVARIANTS BrowserAgrees AclSound
