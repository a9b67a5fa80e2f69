--------------------------- MODULE DirectoryService ---------------------------
(***************************************************************************)
(* The server's directory and the clients' browsers, joined by one         *)
(* connection for each client that delivers messages in order until it is  *)
(* lost.  An action is one callback of the code: a call of the application *)
(* on either side, a message taken from a connection, a timeout, or the    *)
(* loss of a connection.                                                   *)
(***************************************************************************)
EXTENDS DirectoryTree

CONSTANTS Online,   \* connection -> account of the clients connected at first
          Bare,     \* the clients that do not have the note plugin
          Stored,   \* what a background storage holds at first
          StoredAcl,\* the root's list in a storage that is set later
          SheetSets,\* the sheet sets that clients give to set_acl
          GrantSets,\* those the server itself gives
          Budgets   \* each: how often each kind of operation is called; "any" bounds all
                    \* operations but explore, connect and query-acl

ASSUME ServiceAssumption == DOMAIN Online \subseteq Conns /\ Bare \subseteq Conns

VARIABLES dir,    \* the server's directory
          br,     \* br[c]: the browser of the client at c
          up,     \* up[c]: messages on the way from the client to the server
          left,   \* how often each kind of operation may still be called
          beyond, \* history: the connections that kept something they may no longer have
                  \* when the server itself changed a list or a refused one acknowledged
          misled  \* history: those whose browser may have kept something when their login
                  \* was changed, for it enforces before it has the new account's sheets
vars == <<dir, br, up, left, beyond, misled>>

Server == INSTANCE Directory
Client == INSTANCE Browser

RootNode == [Server!NewNode(None, None, "dir", FALSE) EXCEPT !.acl = (Default :> Server!Everything)]

Init ==
  /\ dir = [nodes |-> (Root :> RootNode), counter |-> 1, subreqs |-> <<>>, syncIns |-> {},
            proxies |-> <<>>, account |-> Online, accounts |-> Accounts,
            chat |-> {}, plugin |-> TRUE, store |-> Stored,
            out |-> [c \in Conns |-> <<>>], aborted |-> ""]
  /\ br = [c \in Conns |->
            LET B == Client!NewBrowser(c \notin Bare)
            IN  IF c \in DOMAIN Online
                THEN Client!HandleWelcome(B, [account |-> Online[c],
                                              sheets |-> (Default :> Server!Everything)])
                ELSE [B EXCEPT !.status = "closed"]]
  /\ up = [c \in Conns |-> <<>>]
  /\ left \in Budgets /\ beyond = {} /\ misled = {}

\* A failed assertion ends the program.
Running == dir.aborted = "" /\ \A c \in Conns : br[c].aborted = ""

Spend(op) == LET cost == IF op \in {"explore", "connect", "query-acl"} THEN 0 ELSE 1
             IN  /\ Running
                 /\ left[op] > 0 /\ left["any"] >= cost
                 /\ left' = [left EXCEPT ![op] = @ - 1, !["any"] = @ - cost]

\* Whether an access to the storage succeeds.
Outcome(ok) == IF ok THEN UNCHANGED left
               ELSE left["fail"] > 0 /\ left' = [left EXCEPT !["fail"] = @ - 1]

\* The browser of c becomes B and the messages of first are sent.  What else it
\* has given to the connection is sent too, up to the first acknowledgement:
\* the browser waits for the moment that one is sent.
Becomes(c, B, first) ==
  LET acks == {i \in DOMAIN B.out : B.out[i].tag = "subscribe-ack"}
      k == IF acks = {} THEN Len(B.out) ELSE Min(acks) - 1
  IN  /\ br' = [br EXCEPT ![c] = [B EXCEPT !.out = SubSeq(@, k + 1, Len(@))]]
      /\ up' = [up EXCEPT ![c] = @ \o first \o SubSeq(B.out, 1, k)]

(***************************************************************************)
(* The clients' applications                                               *)
(***************************************************************************)
\* A call of an open browser that sends a request.
Request(c, op, n, m) ==
  /\ Spend(op)
  /\ br[c].status = "open"
  /\ Becomes(c, Client!Ask(br[c], c, m.tag, n, m), <<>>)
  /\ UNCHANGED dir
NotAsked(c, kind, n) == Client!PendingKind(br[c], kind, n) = {}
Nodes(c) == DOMAIN br[c].nodes

\* infc_browser_browser_explore
Explore(c) == \E n \in Nodes(c) :
  /\ br[c].nodes[n].type = "dir" /\ ~br[c].nodes[n].explored
  /\ NotAsked(c, "explore-node", n)
  /\ Request(c, "explore", n, [tag |-> "explore-node", id |-> n])

\* infc_browser_browser_add_subdirectory
AddSubdirectory(c) == \E n \in Nodes(c), name \in Names :
  /\ br[c].nodes[n].explored
  /\ Request(c, "folder", n, [tag |-> "add-node", parent |-> n, name |-> name, type |-> "dir",
                              sub |-> FALSE, sync |-> FALSE])

\* infc_browser_browser_add_note; with a session the request carries it until
\* the server asks for it.
AddNote(c) == \E n \in Nodes(c), name \in Names, sub, sync \in BOOLEAN :
  /\ br[c].nodes[n].explored
  /\ Spend(IF sync THEN "sync" ELSE "note")
  /\ br[c].status = "open"
  /\ LET B == Client!Ask(br[c], c, "add-node", n,
                         [tag |-> "add-node", parent |-> n, name |-> name, type |-> "note",
                          sub |-> sub, sync |-> sync])
     IN  Becomes(c, [B EXCEPT !.reqs[br[c].seq].session = sync], <<>>)
  /\ UNCHANGED dir

\* infc_browser_browser_remove_node
RemoveNode(c) == \E n \in Nodes(c) \ {Root} :
  Request(c, "remove", n, [tag |-> "remove-node", id |-> n])

\* infc_browser_browser_subscribe
Subscribe(c) == \E n \in Nodes(c) :
  /\ br[c].nodes[n].type = "note" /\ ~br[c].nodes[n].session
  /\ NotAsked(c, "subscribe-session", n)
  /\ Request(c, "subscribe", n, [tag |-> "subscribe-session", id |-> n])

\* infc_browser_subscribe_chat
SubscribeChat(c) ==
  /\ ~br[c].chat /\ NotAsked(c, "subscribe-chat", None)
  /\ Request(c, "chat", None, [tag |-> "subscribe-chat"])

\* infc_browser_iter_save_session
SaveSession(c) == \E n \in Nodes(c) :
  /\ br[c].nodes[n].session /\ NotAsked(c, "save-session", n)
  /\ Request(c, "save", n, [tag |-> "save-session", id |-> n])

\* infc_session_proxy_unsubscribe_connection: the application closes a
\* session, or the chat.
CloseSession(c) == \E n \in Nodes(c) \union {None} :
  /\ Spend("close")
  /\ IF n = None THEN br[c].chat ELSE br[c].nodes[n].session /\ n \notin DOMAIN br[c].syncs
  /\ LET B == IF n = None THEN [br[c] EXCEPT !.chat = FALSE]
              ELSE Client!RemoveSessions(br[c], {n})
     IN  Becomes(c, Client!Post(B, [tag |-> "session-unsubscribe", id |-> n]), <<>>)
  /\ UNCHANGED dir

\* inf_session_synchronize_to has sent the document of a note that is being
\* synchronized in.
SyncSent(c) == \E n \in DOMAIN br[c].syncs :
  /\ Running /\ br[c].syncs[n] = "progress"
  /\ Becomes(c, Client!Post([br[c] EXCEPT !.syncs[n] = "awaiting"],
                            [tag |-> "sync-end", id |-> n]), <<>>)
  /\ UNCHANGED <<dir, left>>

\* inf_session_cancel_synchronization before that.
SyncCancel(c) == \E n \in DOMAIN br[c].syncs :
  /\ Spend("cancel") /\ br[c].syncs[n] = "progress"
  /\ Becomes(c, Client!Post(Client!FreeNodes(Client!RemoveSessions(br[c], {n}), {n}),
                            [tag |-> "sync-cancel", id |-> n]), <<>>)
  /\ UNCHANGED dir

\* infc_browser_query_acl, infc_browser_set_acl
QueryAcl(c) == \E n \in Nodes(c) :
  /\ ~br[c].nodes[n].queried /\ NotAsked(c, "query-acl", n)
  /\ Request(c, "query-acl", n, [tag |-> "query-acl", id |-> n])
SetAcl(c) == \E n \in Nodes(c), sheets \in SheetSets :
  /\ br[c].nodes[n].queried
  /\ Request(c, "set-acl", n, [tag |-> "set-acl", id |-> n, sheets |-> sheets])

\* infc_browser_query_acl_account_list, _create_acl_account, _remove_acl_account
QueryAclAccountList(c) ==
  /\ ~br[c].notify /\ \A k \in DOMAIN br[c].reqs : br[c].reqs[k].kind # "query-acl-account-list"
  /\ Request(c, "accounts", {}, [tag |-> "query-acl-account-list"])
CreateAclAccount(c) == \E a \in Accounts :
  Request(c, "account", a, [tag |-> "create-acl-account", account |-> a])
RemoveAclAccount(c) == \E a \in br[c].accounts \ {Default} :
  Request(c, "account", a, [tag |-> "remove-acl-account", account |-> a])

\* infc_browser_lookup_acl_accounts: an account the browser knows, or would have
\* been told of, is not asked for.
LookupAclAccounts(c) == \E a \in Accounts :
  /\ ~br[c].notify /\ a \notin br[c].accounts
  /\ Request(c, "accounts", a, [tag |-> "lookup-acl-accounts", account |-> a])

(***************************************************************************)
(* The connection                                                          *)
(***************************************************************************)
\* An acknowledgement is sent: infc_browser_communication_object_sent.
Sent(c) ==
  /\ Running /\ br[c].out # <<>>
  /\ LET m == Head(br[c].out)
     IN  Becomes(c, Client!AckSent([br[c] EXCEPT !.out = Tail(@)], m), <<m>>)
  /\ UNCHANGED <<dir, left>>

\* The server takes a message.
ServerReceives(c, ok) ==
  /\ Running /\ up[c] # <<>> /\ Outcome(ok)
  /\ dir' = Server!Receive(dir, c, Head(up[c]), ok)
  /\ up' = [up EXCEPT ![c] = Tail(@)]
  /\ UNCHANGED br

\* A client takes a message.
ClientReceives(c) ==
  /\ Running /\ dir.out[c] # <<>>
  /\ Becomes(c, Client!Receive(br[c], c, Head(dir.out[c])), <<>>)
  /\ dir' = [dir EXCEPT !.out[c] = Tail(@)]
  /\ UNCHANGED left

\* A client connects; the server greets it.
Connect(c) == \E a \in dir.accounts :
  /\ Spend("connect") /\ c \notin DOMAIN dir.account
  /\ dir' = Server!AddConnection(dir, c, a)
  /\ br' = [br EXCEPT ![c] = Client!NewBrowser(@.plugin)]
  /\ UNCHANGED up

\* The connection is lost, with everything that is on the way.
Disconnect(c) ==
  /\ Spend("disconnect") /\ c \in DOMAIN dir.account
  /\ dir' = Server!MemberRemoved(dir, c)
  /\ br' = [br EXCEPT ![c] = Client!Disconnected(@)]
  /\ up' = [up EXCEPT ![c] = <<>>]

\* infc_browser_welcome_timeout_func: the server's welcome did not come.
WelcomeTimeout(c) ==
  /\ Spend("timeout") /\ br[c].status = "opening"
  /\ br' = [br EXCEPT ![c].status = "closed"]
  /\ UNCHANGED <<dir, up>>

(***************************************************************************)
(* The server's application                                                *)
(***************************************************************************)
Local(D) == dir' = D /\ UNCHANGED <<br, up>>
Folders == {n \in DOMAIN dir.nodes : dir.nodes[n].type = "dir" /\ dir.nodes[n].explored}

\* infd_directory_browser_explore, _add_subdirectory, _add_note, _remove_node
LocalExplore == \E n \in DOMAIN dir.nodes :
  /\ Spend("local-explore") /\ dir.nodes[n].type = "dir" /\ ~dir.nodes[n].explored
  /\ Local(Server!HandleExploreNode(dir, None, [id |-> n, seq |-> None], TRUE))
LocalAdd == \E n \in Folders, name \in Names, type \in {"dir", "note"} :
  /\ Spend("local-add")
  /\ Local(Server!HandleAddNode(dir, None,
             [parent |-> n, name |-> name, type |-> type, sub |-> FALSE, sync |-> FALSE,
              seq |-> None], TRUE))
LocalRemove == \E n \in DOMAIN dir.nodes \ {Root} :
  /\ Spend("local-remove")
  /\ Local(Server!HandleRemoveNode(dir, None, [id |-> n, seq |-> None], TRUE))

\* infd_directory_browser_subscribe
LocalSubscribe == \E n \in DOMAIN dir.nodes :
  /\ Spend("local-subscribe")
  /\ dir.nodes[n].type = "note" /\ ~Server!Linked(dir, n)
  /\ Local(Server!BrowserSubscribe(dir, n, TRUE))

\* infd_directory_session_save_timeout_func
SaveTimeout(n, ok) ==
  /\ Running /\ n \in DOMAIN dir.nodes /\ Outcome(ok)
  /\ dir.nodes[n].timer
  /\ Local(Server!SessionSaveTimeout(dir, n, ok))

\* infd_directory_enable_chat, infd_directory_add_plugin, _remove_plugin
ToggleChat == Spend("toggle-chat") /\ Local(Server!EnableChat(dir, dir.chat = None))
TogglePlugin ==
  Spend("plugin") /\ Local(IF dir.plugin THEN Server!RemovePlugin(dir) ELSE Server!AddPlugin(dir))

\* infd_directory_create_acl_account, infd_directory_remove_acl_account
LocalAccount == \E a \in Accounts :
  /\ Spend("local-account")
  /\ Local(LET m == [account |-> a, seq |-> None]
           IN  IF a \in dir.accounts THEN Server!HandleRemoveAclAccount(dir, None, m, TRUE)
               ELSE Server!HandleCreateAclAccount(dir, None, m, TRUE))

\* infd_directory_browser_set_acl
LocalSetAcl == \E n \in DOMAIN dir.nodes, sheets \in GrantSets :
  /\ Spend("local-set-acl") /\ DOMAIN sheets \subseteq dir.accounts
  /\ Local(Server!BrowserSetAcl(dir, n, sheets))

\* infd_directory_set_acl_account_for_connection
SetAclAccountForConnection == \E c \in DOMAIN dir.account, a \in dir.accounts :
  /\ Spend("login") /\ a # dir.account[c]
  /\ Local(Server!ChangeAclAccount(dir, c, a))
  /\ LET loses == \E n \in DOMAIN dir.nodes :
           \/ c \in dir.nodes[n].conns \ dir'.nodes[n].conns
           \/ c \in dir.nodes[n].aclConns \ dir'.nodes[n].aclConns
         sheets == \E n \in DOMAIN dir.nodes : a # Default /\ a \in DOMAIN dir.nodes[n].acl
     IN  misled' = IF loses /\ sheets THEN misled \union {c} ELSE misled

\* infd_directory_set_storage
ChangeStorage == \E ok, listed \in BOOLEAN :
  Spend("storage") /\ Local(Server!SetStorage(dir, Stored, StoredAcl, ok, listed))

\* What c has explored, queried and subscribed to it may.
Entitled(D, c) == \A n \in DOMAIN D.nodes :
  LET v == D.nodes[n]
      May(p) == CheckAcl(D.nodes, n, D.account[c], p)
  IN  /\ c \in v.conns => May("explore")
      /\ c \in v.aclConns => May("query-acl")
      /\ v.proxy # None /\ c \in D.proxies[v.proxy].subs => May("subscribe")
Exceeding(D) == {c \in DOMAIN D.account : ~Entitled(D, c)}

ClientNext(c) ==
  \/ Explore(c) \/ AddSubdirectory(c) \/ AddNote(c) \/ RemoveNode(c) \/ Subscribe(c)
  \/ SubscribeChat(c) \/ SaveSession(c) \/ CloseSession(c) \/ SyncSent(c) \/ SyncCancel(c)
  \/ QueryAcl(c) \/ SetAcl(c) \/ QueryAclAccountList(c) \/ CreateAclAccount(c)
  \/ RemoveAclAccount(c) \/ LookupAclAccounts(c) \/ Sent(c) \/ ClientReceives(c) \/ WelcomeTimeout(c)
ServerNext ==
  \/ LocalExplore \/ LocalAdd \/ LocalRemove \/ LocalSubscribe \/ ToggleChat \/ TogglePlugin
  \/ LocalAccount
  \/ \E n \in DOMAIN dir.nodes, ok \in BOOLEAN : SaveTimeout(n, ok)
  \/ \E c \in Conns : Connect(c)
Acknowledged(c) == Head(up[c]).tag = "subscribe-ack"
Next ==
  \/ (ServerNext \/ \E c \in Conns : ClientNext(c)) /\ UNCHANGED <<beyond, misled>>
  \/ SetAclAccountForConnection /\ UNCHANGED beyond
  \/ (LocalSetAcl \/ ChangeStorage) /\ beyond' = beyond \union Exceeding(dir') /\ UNCHANGED misled
  \/ \E c \in Conns, ok \in BOOLEAN :
       /\ ServerReceives(c, ok)
       /\ beyond' = beyond \union (IF Acknowledged(c) THEN Exceeding(dir') \intersect {c} ELSE {})
       /\ UNCHANGED misled
  \/ \E c \in Conns : Disconnect(c) /\ beyond' = beyond \ {c} /\ misled' = misled \ {c}
Spec == Init /\ [][Next]_vars

(***************************************************************************)
(* Properties                                                              *)
(***************************************************************************)
Quiet(c) == /\ Running /\ br[c].status = "open" /\ c \in DOMAIN dir.account
            /\ up[c] = <<>> /\ br[c].out = <<>> /\ dir.out[c] = <<>>

\* What c is shown of a node that is in the server's tree.
Shown(c, n) == LET v == dir.nodes[n]
               IN  [parent |-> v.parent, name |-> v.name,
                    type |-> IF v.type # "dir" /\ c \in Bare THEN "unknown" ELSE v.type]
Seen(c, n) == LET v == br[c].nodes[n]
              IN  [parent |-> v.parent, name |-> v.name, type |-> v.type]

\* When everything sent has arrived, a browser shows the root and exactly the
\* contents of the folders the server believes it has explored; a note it is
\* still sending is not yet the server's.  The browser enforces every change of a list,
\* the server not its own, so that the views differ after one of those; and after a
\* change of its login a browser may keep what a sheet it gets only then denies.
ViewAgrees == \A c \in Conns \ (beyond \union misled) : Quiet(c) =>
  LET open == {n \in DOMAIN dir.nodes : c \in dir.nodes[n].conns}
      tree == Nodes(c) \ DOMAIN br[c].syncs
  IN  /\ open = {n \in Nodes(c) : br[c].nodes[n].explored}
      /\ tree = {Root} \union {n \in DOMAIN dir.nodes : dir.nodes[n].parent \in open}
      /\ \A n \in tree \ {Root} : dir.plugin => Shown(c, n) = Seen(c, n)

\* When everything sent has arrived and the server waits for nobody's answer, a
\* browser has exactly the sessions the server has it subscribed to, and the chat.
SubscriptionsAgree == \A c \in Conns : Quiet(c) /\ dir.subreqs = <<>> =>
  LET open == {n \in Nodes(c) : br[c].nodes[n].session}
      held == {p \in DOMAIN dir.proxies : c \in dir.proxies[p].subs}
  IN  /\ open = {dir.proxies[p].id : p \in held} /\ Cardinality(open) = Cardinality(held)
      /\ br[c].chat = (dir.chat # None /\ c \in dir.chat)

\* No request waits for an answer the server will not give, but one to add or remove
\* a node of a folder that was taken away from the browser meanwhile: that is answered
\* only to those who have the folder.
NoOrphanRequest == \A c \in Conns : Quiet(c) =>
  /\ br[c].subs = <<>>
  /\ \A k \in DOMAIN br[c].reqs :
       LET q == br[c].reqs[k]
       IN  \/ q.kind = "add-node" /\ (q.id \in Nodes(c) => ~br[c].nodes[q.id].explored)
           \/ q.kind = "remove-node" /\ q.id \notin Nodes(c)

\* A browser's idea of the tree and of its requests is the server's.
BrowserAgrees == ViewAgrees /\ NoOrphanRequest

\* Two notes of a folder never have the same name, not even one that is still
\* to be created.
NamesUnique ==
  LET named == {<<n, dir.nodes[n].parent, dir.nodes[n].name>> : n \in DOMAIN dir.nodes}
               \union {<<r.id, r.parent, r.name>> :
                         r \in {r \in Range(dir.subreqs) : Server!Creates(r) /\ r.parent # None}}
               \union {<<s.id, s.parent, s.name>> : s \in dir.syncIns}
  IN  \A x, y \in named : x[2] = y[2] /\ x[3] = y[3] => x[1] = y[1]

\* Every node of the tree is in the storage under its path, whatever fails: a note
\* with its document, unless its session is still there to be written, or was given
\* up when the note plugin was removed.
NodesStored == \A n \in DOMAIN dir.nodes \ {Root} :
  LET v == dir.nodes[n]
      path == Path(dir.nodes, n)
  IN  /\ path \in DOMAIN dir.store
      /\ (dir.store[path] = "dir") = (v.type = "dir")
      /\ dir.store[path] = "stub" => v.proxy # None \/ \E b \in Budgets : left["plugin"] < b["plugin"]

\* A document is edited in one session only, the one of its node, as long as
\* its plugin is there.
OneSession == Running => \A p \in DOMAIN dir.proxies, n \in DOMAIN dir.nodes :
  dir.proxies[p].subs # {} /\ dir.proxies[p].id = n /\ dir.nodes[n].type = "note" =>
    dir.nodes[n].proxy = p

\* The server's tree is sound: names, files and sessions belong to one node each.
TreeSound == NamesUnique /\ NodesStored /\ OneSession

\* When everything sent has arrived, a browser knows of the access control lists
\* exactly what it is entitled to: all sheets of a list it has queried, of the
\* others those of its own and of the default account; and, once it has asked
\* for them, all accounts.
ListsAgree == \A c \in Conns \ (beyond \union misled) : Quiet(c) =>
  /\ br[c].account = dir.account[c]
  /\ br[c].notify => br[c].accounts = dir.accounts
  /\ \A n \in Nodes(c) \intersect DOMAIN dir.nodes :
       LET all == c \in dir.nodes[n].aclConns
       IN  /\ br[c].nodes[n].queried = all
           /\ br[c].nodes[n].acl = SheetsFor(dir.nodes[n].acl, all, dir.account[c])

\* A connection sees, edits and reads the list of what its account may: a change of a
\* list by a client, of an account or of a login takes it away at once.  Not so a change
\* by the server itself, and a connection that is refused when it acknowledges is
\* subscribed nevertheless.
AclEnforced == Exceeding(dir) \subseteq beyond

\* What the lists say is what every browser knows and what the server lets it do.
AclSound == ListsAgree /\ AclEnforced
===============================================================================
