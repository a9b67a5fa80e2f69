---------------------------- MODULE DirectoryTree ----------------------------
(***************************************************************************)
(* What the server's directory (infd-directory.c) and the client's browser *)
(* (infc-browser.c) have in common: a tree of nodes and the access control *)
(* lists on it (inf-acl.c, inf_browser_check_acl).  A tree is a function   *)
(* from node ids to records with at least the fields parent, name, type    *)
(* and acl; node 0 is the root.                                            *)
(***************************************************************************)
EXTENDS Naturals, FiniteSets, Sequences, SequencesExt, FiniteSetsExt, TLC

CONSTANTS Conns,        \* the connections to the server
          Names,        \* names that new nodes are given
          Accounts,     \* the accounts, Default among them
          Default,      \* the account of a connection nobody logged in on
          None          \* NULL

ASSUME TreeAssumption == Default \in Accounts /\ None \notin Nat

\* The permissions the modelled operations ask for.
Perms == {"explore", "add", "remove", "subscribe", "sync-in", "chat", "query-acl",
          "set-acl", "accounts", "create", "delete"}

Root == 0
Children(T, n) == {m \in DOMAIN T : T[m].parent = n}

\* The nodes from n up to the root, n first.
RECURSIVE Lineage(_, _)
Lineage(T, n) == IF n = None THEN <<>> ELSE <<n>> \o Lineage(T, T[n].parent)

\* n and everything below it.
Subtree(T, n) == {m \in DOMAIN T : n \in Range(Lineage(T, m))}

\* The path of n: the names from the root down.
Path(T, n) == LET l == Lineage(T, n)
              IN  [i \in 1..Len(l) - 1 |-> T[l[Len(l) - i]].name]

\* A sheet is a partial function from permissions to BOOLEAN: its domain is
\* the mask, its values are the permission bits.  A sheet set maps accounts
\* to sheets; an account without a sheet is not in its domain.
NoSheets == <<>>

\* inf_acl_sheet_set_merge_sheets: the new sheets replace the old ones of
\* the same accounts, a sheet with an empty mask removes the account's.
MergeSheets(acl, new) ==
  LET keep == (DOMAIN acl \ DOMAIN new) \union
              {a \in DOMAIN new : DOMAIN new[a] # {}}
  IN  [a \in keep |-> IF a \in DOMAIN new THEN new[a] ELSE acl[a]]

\* inf_acl_sheet_set_get_clear_sheets and the removal of an account.
WithoutAccount(acl, a) == [b \in DOMAIN acl \ {a} |-> acl[b]]

\* What one node's sheets say of permission p for account a: its own sheet
\* first, the default account's where that one leaves the bit open.
Says(acl, a, p) ==
  {acl[b][p] : b \in {b \in DOMAIN acl \intersect {a} : p \in DOMAIN acl[b]}}
DecidedBy(acl, a, p) ==
  IF Says(acl, a, p) # {} THEN Says(acl, a, p) ELSE Says(acl, Default, p)

\* inf_browser_check_acl: the nearest node that decides, on the way to the
\* root, decides.
CheckAcl(T, n, a, p) ==
  LET l == SelectSeq(Lineage(T, n), LAMBDA m : DecidedBy(T[m].acl, a, p) # {})
  IN  l # <<>> /\ DecidedBy(T[l[1]].acl, a, p) = {TRUE}

\* inf_acl_sheet_set_to_xml for one connection: everything if it has queried
\* the ACL, else the sheets of the default and of its own account.
SheetsFor(acl, all, a) ==
  [b \in {b \in DOMAIN acl : all \/ b \in {Default, a}} |-> acl[b]]

\* inf_communication_group_send_message to the connections in S.
SendTo(D, S, m) == [c \in S |-> Append(D[c], m)] @@ D
==============================================================================
