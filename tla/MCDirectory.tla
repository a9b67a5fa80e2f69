---------------------------- MODULE MCDirectory ----------------------------
EXTENDS DirectoryService
CONSTANTS c1, c2, x, y, a1
Everything == Server!Everything
Nobody == [op \in {"explore", "folder", "note", "sync", "remove", "subscribe", "chat", "save",
                   "close", "cancel", "query-acl", "set-acl", "accounts", "account", "connect",
                   "disconnect", "timeout", "local-explore", "local-add", "local-remove",
                   "local-subscribe", "toggle-chat", "plugin", "local-account", "local-set-acl", "login",
                   "storage", "fail", "any"} |-> 0]
OnlineTree == c1 :> Default @@ c2 :> Default
StoredTree == <<x>> :> "note"
BudgetsTree == {[Nobody EXCEPT !["any"] = 3, !["explore"] = 2, !["note"] = 1, !["sync"] = 1, !["remove"] = 1,
                 !["subscribe"] = 2, !["chat"] = 1, !["save"] = 1, !["close"] = 1, !["cancel"] = 1, !["disconnect"] = 1,
                 !["local-add"] = 1, !["local-remove"] = 1, !["local-subscribe"] = 1, !["toggle-chat"] = 1,
                 !["plugin"] = 1, !["local-explore"] = 1, !["connect"] = 1, !["timeout"] = 1, !["fail"] = 1]}
OnlineAcl == c1 :> a1 @@ c2 :> Default
RootAcl == Default :> Everything
ForAcl == [Nobody EXCEPT !["any"] = 2, !["explore"] = 2, !["query-acl"] = 1, !["set-acl"] = 1, !["local-set-acl"] = 1]
BudgetsAcl == {[ForAcl EXCEPT !["folder"] = 1, !["subscribe"] = 1, !["login"] = 1, !["storage"] = 1],
               [ForAcl EXCEPT !["explore"] = 1, !["accounts"] = 1, !["account"] = 1, !["local-account"] = 1]}
GrantsAcl == {a1 :> ("explore" :> FALSE)}
SheetsAcl == {Default :> [Everything EXCEPT !["explore"] = FALSE],
              Default :> [Everything EXCEPT !["subscribe"] = FALSE] @@ a1 :> ("query-acl" :> FALSE)}
Symmetry == Permutations(Conns)
=============================================================================
