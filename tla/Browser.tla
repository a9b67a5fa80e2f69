------------------------------- MODULE Browser -------------------------------
(***************************************************************************)
(* The client's view of a directory, infc-browser.c, with the requests it  *)
(* waits for, infc-request-manager.c.  A browser is a record B:            *)
(*   status   "opening", "open" or "closed"                                *)
(*   nodes    id -> node, the part of the tree it has explored             *)
(*   seq      the next request's number                                    *)
(*   reqs     number -> pending request                                    *)
(*   subs     subscription_requests: acknowledged, the message not sent yet*)
(*   syncs    sync_ins: node -> "progress" or "awaiting"                   *)
(*   chat     whether it has a chat session                                *)
(*   plugin   whether the note plugin is installed                         *)
(*   account, accounts, notify                                             *)
(*            local_account, the accounts it knows, account_list_status    *)
(*   out      messages given to the communication manager                  *)
(*   aborted  the assertion that failed, "" if none did                    *)
(* Each operator is one function of the code, m the message it handles and *)
(* k the request of this browser the message answers, None if there is no  *)
(* such request.                                                           *)
(***************************************************************************)
EXTENDS DirectoryTree

NewBrowser(plugin) ==
  [status |-> "opening", nodes |-> <<>>, seq |-> 0, reqs |-> <<>>, subs |-> <<>>,
   syncs |-> <<>>, chat |-> FALSE, plugin |-> plugin, account |-> Default,
   accounts |-> {}, notify |-> FALSE, out |-> <<>>, aborted |-> ""]

Stop(B, why) == IF B.aborted = "" THEN [B EXCEPT !.aborted = why] ELSE B
Without(f, D) == [x \in DOMAIN f \ D |-> f[x]]
Post(B, m) == [B EXCEPT !.out = Append(@, m)]

(***************************************************************************)
(* Requests                                                                *)
(***************************************************************************)
\* infc_request_manager_add_request and the message that asks the server.
Ask(B, c, kind, n, m) ==
  Post([B EXCEPT !.seq = @ + 1,
                 !.reqs = (B.seq :> [kind |-> kind, id |-> n, begun |-> FALSE, left |-> 0,
                                     session |-> FALSE]) @@ @],
       [seq |-> <<c, B.seq>>] @@ m)
\* infc_request_manager_finish_request and _fail_request
Done(B, K) == [B EXCEPT !.reqs = Without(@, K)]
\* infc_request_manager_get_request_by_xml: the number a message answers,
\* if it answers this browser.
RequestOf(B, c, m) ==
  IF "seq" \in DOMAIN m /\ m.seq # None /\ m.seq[1] = c /\ m.seq[2] \in DOMAIN B.reqs
  THEN m.seq[2] ELSE None
IsKind(B, k, kind) == k # None /\ B.reqs[k].kind = kind
PendingKind(B, kind, n) == {k \in DOMAIN B.reqs : B.reqs[k].kind = kind /\ B.reqs[k].id = n}

\* infc_browser_communication_object_received: a message that cannot be
\* processed fails the request it answers.
Unprocessed(B, k) == Done(B, {k})
\* infc_browser_validate_progress_request and infc_progress_request_progress
MayProgress(B, k) == B.reqs[k].begun /\ B.reqs[k].left > 0
Progress(B, k) == [B EXCEPT !.reqs[k].left = @ - 1]

(***************************************************************************)
(* Nodes                                                                   *)
(***************************************************************************)
NewEntry(parent, name, type, acl) ==
  [parent |-> parent, name |-> name, type |-> type, explored |-> FALSE,
   session |-> FALSE, acl |-> acl, queried |-> FALSE]
\* infc_browser_node_add_subdirectory and infc_browser_node_add_note
NoteType(B, type) == IF type = "note" /\ ~B.plugin THEN "unknown" ELSE type
AddEntry(B, n, m) ==
  [B EXCEPT !.nodes = (n :> NewEntry(m.parent, m.name, NoteType(B, m.type), m.sheets)) @@ @]
IsFolder(B, n) == n \in DOMAIN B.nodes /\ B.nodes[n].type = "dir"

\* infc_browser_session_remove_session
RemoveSessions(B, N) ==
  [B EXCEPT !.nodes = [n \in DOMAIN @ |->
     IF n \in N THEN [@[n] EXCEPT !.session = FALSE] ELSE @[n]]]

\* The subscriptions that need a node in N: the node itself or, for a note to
\* be added, its folder.
LoseTarget(B, N, types) ==
  LET hit == {i \in DOMAIN B.subs : B.subs[i].at \in N /\ B.subs[i].type \in types}
  IN  [Done(B, {B.subs[i].req : i \in hit}) EXCEPT
         !.subs = [i \in DOMAIN @ |-> IF i \in hit
                     THEN [@[i] EXCEPT !.at = None, !.req = None] ELSE @[i]]]

\* infc_browser_node_free: it asserts that the node has no session, and that
\* no chat subscription is pending.
FreeNodes(B, N) ==
  LET T == IF \E n \in N : B.nodes[n].session THEN Stop(B, "session is open")
           ELSE IF N # {} /\ \E i \in DOMAIN B.subs : B.subs[i].type = "chat"
           THEN Stop(B, "chat subscription") ELSE B
  IN  LoseTarget([T EXCEPT !.nodes = Without(@, N), !.syncs = Without(@, N)], N,
                 {"session", "add-node", "sync-in"})

(***************************************************************************)
(* Access control lists                                                    *)
(***************************************************************************)
\* A variant for the mutation checks: a folder that may no longer be explored
\* is kept.
EnforceSheetsOnly(B, n, new) ==
  IF B.nodes[n].queried /\ CheckAcl(B.nodes, n, B.account, "query-acl") THEN B
  ELSE [B EXCEPT !.nodes[n].queried = FALSE,
                 !.nodes[n].acl = SheetsFor(B.nodes[n].acl, FALSE, B.account)]

\* infc_browser_enforce_single_acl: a folder that may no longer be explored
\* is forgotten, so are the sheets of others once the list may not be queried.
EnforceSingle(B, n, new) ==
  LET v == B.nodes[n]
      May(p) == CheckAcl(B.nodes, n, B.account, p)
      T == FreeNodes(Done(B, PendingKind(B, "explore-node", n)), Subtree(B.nodes, n) \ {n})
      U == [LoseTarget(T, {n}, {"add-node", "sync-in"}) EXCEPT !.nodes[n].explored = FALSE]
      W == IF v.explored /\ ~May("explore") THEN U ELSE B
      queried == v.queried /\ May("query-acl")
      fresh == n \in DOMAIN new /\ B.account # Default
      acl == SheetsFor(v.acl, FALSE, B.account)
  IN  IF queried THEN W
      ELSE IF fresh /\ B.account \in DOMAIN acl THEN Stop(W, "sheet of the account")
      ELSE [W EXCEPT !.nodes[n].queried = FALSE,
                     !.nodes[n].acl = IF fresh THEN (B.account :> new[n]) @@ acl ELSE acl]

\* infc_browser_enforce_acl: n, then what is left below it.
RECURSIVE Enforce(_, _, _)
Enforce(B, n, new) ==
  LET S == EnforceSingle(B, n, new)
      T == IF n = Root THEN [S EXCEPT !.notify = @ /\ CheckAcl(B.nodes, n, B.account, "accounts")]
           ELSE S
  IN  FoldSet(LAMBDA m, U : Enforce(U, m, new), T, Children(T.nodes, n))

(***************************************************************************)
(* What the server sends                                                   *)
(***************************************************************************)
\* infc_browser_handle_welcome, once
HandleWelcome(B, m) ==
  IF B.status # "opening" THEN B
  ELSE [B EXCEPT !.status = "open", !.account = m.account,
                 !.accounts = {Default, m.account},
                 !.nodes = (Root :> NewEntry(None, None, "dir", m.sheets))]

\* infc_browser_handle_explore_begin and infc_browser_handle_explore_end
HandleExploreBegin(B, k, m) ==
  IF ~IsKind(B, k, "explore-node") \/ ~IsFolder(B, B.reqs[k].id)
  THEN Unprocessed(B, k)
  ELSE IF B.nodes[B.reqs[k].id].explored THEN Unprocessed(B, k)
  ELSE [B EXCEPT !.nodes[B.reqs[k].id].explored = TRUE,
                 !.reqs[k].begun = TRUE, !.reqs[k].left = m.total]
HandleExploreEnd(B, k) ==
  IF IsKind(B, k, "explore-node") /\ B.reqs[k].left = 0 /\ B.reqs[k].id \notin DOMAIN B.nodes
  THEN Stop(B, "explored node is gone")
  ELSE Done(B, {k})

\* infc_browser_subscribe_ack and _nack: the answer, whose effect comes when
\* it has been sent.
Acknowledge(B, type, n, at, k, m) ==
  Post([B EXCEPT !.subs = <<[type |-> type, id |-> n, at |-> at, req |-> k, m |-> m]>> \o @],
       [tag |-> "subscribe-ack", id |-> n, seq |-> None])
Refuse(B, n, k) ==
  Post(Unprocessed(B, k), [tag |-> "subscribe-nack", id |-> n, seq |-> None])

\* infc_browser_handle_add_node; a node may come alone, in answer to
\* explore-node or in answer to add-node.
Known(B, n) == n \in DOMAIN B.nodes \/ \E i \in DOMAIN B.subs : B.subs[i].id = n
HandleAddNode(B, k, m) ==
  LET explore == IsKind(B, k, "explore-node")
  IN  IF \/ Known(B, m.id) \/ ~IsFolder(B, m.parent)
         \/ k # None /\ ~explore /\ ~IsKind(B, k, "add-node")
      THEN Unprocessed(B, k)
      ELSE IF ~B.nodes[m.parent].explored \/ (explore /\ (m.sub \/ ~MayProgress(B, k)))
      THEN Unprocessed(B, k)
      ELSE IF m.sub
      THEN IF B.plugin THEN Acknowledge(B, "add-node", m.id, m.parent, k, m)
           ELSE Refuse(B, m.id, k)
      ELSE IF explore THEN Progress(AddEntry(B, m.id, m), k)
      ELSE Done(AddEntry(B, m.id, m), {k})

\* infc_browser_handle_sync_in: the request gives up its session.
HandleSyncIn(B, k, m) ==
  IF \/ Known(B, m.id) \/ ~IsFolder(B, m.parent) \/ ~IsKind(B, k, "add-node")
  THEN Unprocessed(B, k)
  ELSE IF ~B.reqs[k].session THEN Unprocessed(B, k)
  ELSE Acknowledge([B EXCEPT !.reqs[k].session = FALSE], "sync-in", m.id, m.parent, k, m)

\* infc_browser_handle_remove_node; a session that is still open is left with
\* the last reference to it, infc_session_proxy_dispose.
HandleRemoveNode(B, k, m) ==
  LET gone == Subtree(B.nodes, m.id)
      own == IF IsKind(B, k, "remove-node") THEN {k} ELSE {}
      left == SetToSeq({n \in gone : B.nodes[n].session})
      T == [Done(B, own) EXCEPT !.out = @ \o
              [i \in DOMAIN left |-> [tag |-> "session-unsubscribe", id |-> left[i]]]]
  IN  IF m.id \notin DOMAIN B.nodes THEN Unprocessed(B, k)
      ELSE FreeNodes(RemoveSessions(T, gone), gone)

\* infc_browser_handle_subscribe_session and _subscribe_chat
HandleSubscribeSession(B, k, m) ==
  IF m.id \notin DOMAIN B.nodes \/ IsFolder(B, m.id) THEN Unprocessed(B, k)
  ELSE IF B.nodes[m.id].type = "unknown" THEN Refuse(B, m.id, k)
  ELSE IF B.nodes[m.id].session THEN Unprocessed(B, k)
  ELSE Acknowledge(B, "session", m.id, m.id, k, m)
HandleSubscribeChat(B, k, m) ==
  IF B.chat THEN Unprocessed(B, k) ELSE Acknowledge(B, "chat", None, None, k, m)

\* infc_browser_handle_acl_account_list_begin, _end, _add_acl_account,
\* _create_acl_account
HandleAccountListBegin(B, k, m) ==
  IF ~IsKind(B, k, "query-acl-account-list") THEN Unprocessed(B, k)
  ELSE [B EXCEPT !.notify = TRUE, !.reqs[k].begun = TRUE, !.reqs[k].left = m.total,
                 !.reqs[k].id = {}]
HandleAccountListEnd(B, k) ==
  IF ~IsKind(B, k, "query-acl-account-list") \/ B.reqs[k].left > 0 THEN Unprocessed(B, k)
  ELSE Done([B EXCEPT !.accounts = {a \in @ : a \in {B.account, Default} \union B.reqs[k].id}],
            {k})
HandleAddAclAccount(B, k, m) ==
  LET T == [B EXCEPT !.accounts = @ \union {m.account},
                     !.reqs = [j \in DOMAIN @ |->
                        IF @[j].kind = "query-acl-account-list" /\ @[j].begun
                        THEN [@[j] EXCEPT !.id = @ \union {m.account}] ELSE @[j]]]
  IN  IF k = None THEN T ELSE IF MayProgress(B, k) THEN Progress(T, k) ELSE Unprocessed(B, k)
HandleCreateAclAccount(B, k, m) ==
  IF ~IsKind(B, k, "create-acl-account") THEN Unprocessed(B, k)
  ELSE Done([B EXCEPT !.accounts = @ \union {m.account}], {k})

\* infc_browser_handle_lookup_acl_accounts
HandleLookupAclAccounts(B, k, m) == Done([B EXCEPT !.accounts = @ \union m.accounts], {k})

\* infc_browser_handle_change_acl_account: the permissions are enforced with
\* the sheets known so far, the new account's own sheets are stored with each
\* node after the node has been looked at.
HandleChangeAclAccount(B, m) ==
  IF Root \notin DOMAIN B.nodes THEN Stop(B, "there is no root")
  ELSE Enforce([B EXCEPT !.account = m.account, !.accounts = @ \union {m.account}], Root, m.sheets)

\* infc_browser_handle_remove_acl_account
HandleRemoveAclAccount(B, k, m) ==
  LET T == IF B.account # m.account THEN B
           ELSE Enforce([B EXCEPT !.account = Default], Root, <<>>)
      own == IF IsKind(B, k, "remove-acl-account") THEN {k} ELSE {}
  IN  Done([T EXCEPT !.accounts = @ \ {m.account},
                     !.nodes = [n \in DOMAIN @ |->
                        [@[n] EXCEPT !.acl = WithoutAccount(@, m.account)]]], own)

\* infc_browser_handle_set_acl: the answer to query-acl or set-acl, or news.
HandleSetAcl(B, k, m) ==
  LET query == IsKind(B, k, "query-acl")
      T == [B EXCEPT !.nodes[m.id].queried = @ \/ query,
                     !.nodes[m.id].acl = MergeSheets(@, m.sheets)]
      U == IF DOMAIN m.sheets = {} THEN T ELSE Enforce(T, m.id, <<>>)
  IN  IF m.id \notin DOMAIN B.nodes \/ (k # None /\ ~query /\ ~IsKind(B, k, "set-acl"))
      THEN Unprocessed(B, k)
      ELSE IF query /\ B.nodes[m.id].queried THEN Stop(B, "ACL queried twice")
      ELSE Done(U, {k})

\* The session is closed by the server: infc_session_proxy_handle_session_close;
\* a note that is being synchronized in disappears with its session,
\* infc_browser_sync_in_synchronization_failed_cb.
HandleSessionClose(B, m) ==
  IF m.id = None THEN [B EXCEPT !.chat = FALSE]
  ELSE IF m.id \in DOMAIN B.syncs THEN FreeNodes(RemoveSessions(B, {m.id}), {m.id})
  ELSE RemoveSessions(B, {m.id})
\* infc_browser_sync_in_synchronization_complete_cb
HandleSyncAck(B, m) == [B EXCEPT !.syncs = Without(@, {m.id})]

\* infc_browser_communication_object_received.  The server answers a saved
\* session with a message the browser does not know.
Receive(B, c, m) ==
  LET k == RequestOf(B, c, m)
  IN  CASE m.tag = "welcome"                -> HandleWelcome(B, m)
        [] m.tag = "explore-begin"          -> HandleExploreBegin(B, k, m)
        [] m.tag = "explore-end"            -> HandleExploreEnd(B, k)
        [] m.tag = "add-node"               -> HandleAddNode(B, k, m)
        [] m.tag = "sync-in"                -> HandleSyncIn(B, k, m)
        [] m.tag = "remove-node"            -> HandleRemoveNode(B, k, m)
        [] m.tag = "subscribe-session"      -> HandleSubscribeSession(B, k, m)
        [] m.tag = "subscribe-chat"         -> HandleSubscribeChat(B, k, m)
        [] m.tag = "acl-account-list-begin" -> HandleAccountListBegin(B, k, m)
        [] m.tag = "acl-account-list-end"   -> HandleAccountListEnd(B, k)
        [] m.tag = "add-acl-account"        -> HandleAddAclAccount(B, k, m)
        [] m.tag = "create-acl-account"     -> HandleCreateAclAccount(B, k, m)
        [] m.tag = "lookup-acl-accounts"    -> HandleLookupAclAccounts(B, k, m)
        [] m.tag = "change-acl-account"     -> HandleChangeAclAccount(B, m)
        [] m.tag = "remove-acl-account"     -> HandleRemoveAclAccount(B, k, m)
        [] m.tag = "set-acl"                -> HandleSetAcl(B, k, m)
        [] m.tag = "session-close"          -> HandleSessionClose(B, m)
        [] m.tag = "sync-ack"               -> HandleSyncAck(B, m)
        [] m.tag = "request-failed"         -> Done(B, {k})
        [] OTHER                            -> Unprocessed(B, k)

\* infc_browser_communication_object_sent: the acknowledgement is on its way,
\* the session is opened and the request finished.
AckSent(B, m) ==
  LET i == Min({j \in DOMAIN B.subs : B.subs[j].id = m.id})
      s == B.subs[i]
      T == [B EXCEPT !.subs = RemoveAt(@, i)]
      Open(U, n) == [U EXCEPT !.nodes[n].session = TRUE]
      N == AddEntry(T, s.id, [parent |-> s.at, name |-> s.m.name, type |-> "note",
                              sheets |-> NoSheets])
      twice == s.type # "chat" /\ s.id \in DOMAIN B.nodes /\
               (s.type # "session" \/ B.nodes[s.id].session)
  IN  IF ~\E j \in DOMAIN B.subs : B.subs[j].id = m.id THEN B
      ELSE IF s.type = "chat"
      THEN IF B.chat THEN Stop(B, "chat session") ELSE Done([T EXCEPT !.chat = TRUE], {s.req})
      ELSE IF s.at = None THEN T
      ELSE IF twice THEN Stop(B, "acknowledged twice")
      ELSE CASE s.type = "session"  -> Done(Open(T, s.id), {s.req})
             [] s.type = "add-node" -> Done(Open(N, s.id), {s.req})
             [] s.type = "sync-in"  ->
                  Done([(IF s.m.sub THEN Open(N, s.id) ELSE N) EXCEPT
                         !.syncs = (s.id :> "progress") @@ @], {s.req})

\* infc_browser_disconnected: everything is dropped, the pending requests too.
Disconnected(B) == [NewBrowser(B.plugin) EXCEPT !.status = "closed"]
==============================================================================
