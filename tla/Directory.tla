------------------------------ MODULE Directory ------------------------------
(***************************************************************************)
(* The server's directory, infd-directory.c: the tree of notes and folders *)
(* it serves, the connections that have explored each folder, the          *)
(* subscription requests that wait for a client's answer, the notes that   *)
(* are being synchronized in, and the session proxies of the notes.        *)
(*                                                                         *)
(* A directory is a record S:                                              *)
(*   nodes    id -> node; node 0 is the root                               *)
(*   counter  node_counter                                                 *)
(*   subreqs  subscription_requests, the newest first                      *)
(*   syncIns  sync_ins                                                     *)
(*   proxies  the session proxies that are alive                           *)
(*   account  connection -> account of the connections                     *)
(*   accounts the accounts there are                                       *)
(*   chat     None, or the connections subscribed to the chat              *)
(*   plugin   whether the note plugin is installed                         *)
(*   store    the background storage: path -> "dir", "note", or "stub": a  *)
(*            note that was stored empty, before its document had come     *)
(*   out      messages on the way to each client                           *)
(*   aborted  the assertion that failed, "" if none did                    *)
(* Each operator is one function of the code and returns the directory the *)
(* function leaves behind; ok is the outcome of its storage access.  The   *)
(* connection c of a request is None for a request of the server itself.   *)
(***************************************************************************)
EXTENDS DirectoryTree

Abort(S, why) == IF S.aborted = "" THEN [S EXCEPT !.aborted = why] ELSE S
Send(S, C, m) == [S EXCEPT !.out = SendTo(S.out, C, m)]
Failed(S, c, m) == Send(S, {c} \ {None}, [tag |-> "request-failed", seq |-> m.seq])

\* infd_directory_check_auth: the server itself may do everything.
CheckAuth(S, n, c, perms) ==
  c = None \/ \A p \in perms : CheckAcl(S.nodes, n, S.account[c], p)

NewNode(parent, name, type, explored) ==
  [parent |-> parent, name |-> name, type |-> type, explored |-> explored,
   conns |-> {}, proxy |-> None, weak |-> FALSE, timer |-> FALSE,
   acl |-> NoSheets, aclConns |-> {}]
AddNode(S, n, node) == [S EXCEPT !.nodes = (n :> node) @@ @]
IsDir(S, n) == n \in DOMAIN S.nodes /\ S.nodes[n].type = "dir"

(***************************************************************************)
(* Session proxies                                                         *)
(***************************************************************************)
\* Who holds a reference: a node that is linked, not weakly, to its session,
\* a subscription request, a synchronization.
Held(S) == {S.nodes[n].proxy : n \in {n \in DOMAIN S.nodes : ~S.nodes[n].weak}}
           \union {r.proxy : r \in Range(S.subreqs)}
           \union {s.proxy : s \in S.syncIns}

\* infd_session_proxy_dispose and infd_directory_session_weak_ref_cb: a proxy
\* without references closes its session.
Collect(S) ==
  LET dead == DOMAIN S.proxies \ Held(S)
      Closed(T, p) == Send(T, S.proxies[p].subs \union ({S.proxies[p].sync} \ {None}),
                           [tag |-> "session-close", id |-> S.proxies[p].id])
      T == FoldSet(LAMBDA p, T : Closed(T, p), S, dead)
  IN  [T EXCEPT
        !.proxies = [p \in DOMAIN @ \ dead |-> @[p]],
        !.nodes = [n \in DOMAIN @ |-> IF @[n].proxy \in dead
                                      THEN [@[n] EXCEPT !.proxy = None, !.weak = FALSE]
                                      ELSE @[n]]]

\* infd_directory_create_session_proxy
NewProxy(S) == CHOOSE p \in 1..Cardinality(DOMAIN S.proxies) + 1 : p \notin DOMAIN S.proxies
CreateProxy(S, n) ==
  [S EXCEPT !.proxies = (NewProxy(S) :> [id |-> n, subs |-> {}, sync |-> None]) @@ @]
IsIdle(S, p) == S.proxies[p].subs = {} /\ S.proxies[p].sync = None

\* infd_session_proxy_add_subscription, _remove_subscription and
\* infd_directory_session_idle_notify_cb.
SetSubs(S, p, subs) ==
  LET T == [S EXCEPT !.proxies[p].subs = subs]
      Notify(v) == IF IsIdle(T, p) THEN [v EXCEPT !.timer = @ \/ ~v.weak]
                                   ELSE [v EXCEPT !.timer = FALSE, !.weak = FALSE]
  IN  IF IsIdle(T, p) = IsIdle(S, p) THEN T
      ELSE [T EXCEPT !.nodes = [n \in DOMAIN @ |->
                                  IF @[n].proxy = p THEN Notify(@[n]) ELSE @[n]]]
\* infd_session_proxy_subscribe_to and infd_session_proxy_unsubscribe
SubscribeTo(S, p, c) == SetSubs(S, p, S.proxies[p].subs \union {c})
Unsubscribe(S, p, c) ==
  SetSubs(Send(S, {c}, [tag |-> "session-close", id |-> S.proxies[p].id]),
          p, S.proxies[p].subs \ {c})

\* infd_directory_browser_subscribe_session, _unsubscribe_session and
\* infd_directory_release_session.
LinkSession(S, n, p) ==
  [S EXCEPT !.nodes[n].proxy = p, !.nodes[n].weak = FALSE,
            !.nodes[n].timer = IsIdle(S, p)]
UnlinkSessions(S, N) ==
  LET linked == {n \in N : S.nodes[n].proxy # None}
  IN  Collect([S EXCEPT !.nodes = [n \in DOMAIN @ |->
        IF n \in linked THEN [@[n] EXCEPT !.weak = TRUE, !.timer = FALSE] ELSE @[n]]])
ReleaseSession(S, n) ==
  Collect([S EXCEPT !.nodes[n].proxy = None, !.nodes[n].weak = FALSE,
                    !.nodes[n].timer = FALSE])

\* infd_directory_session_save_timeout_func: a session nobody uses is written
\* and dropped; it stays in memory if it cannot be written.
SessionSaveTimeout(S, n, ok) ==
  LET T == [S EXCEPT !.nodes[n].timer = FALSE]
  IN  IF ok THEN UnlinkSessions([T EXCEPT !.store = (Path(S.nodes, n) :> "note") @@ @], {n})
      ELSE T

(***************************************************************************)
(* Subscription requests and synchronizations                              *)
(***************************************************************************)
NoSubreq == [type |-> "chat", conn |-> None, id |-> None, parent |-> None, name |-> None,
             proxy |-> None, req |-> FALSE, plugin |-> FALSE, sub |-> TRUE]
AddSubreq(S, r) == [S EXCEPT !.subreqs = <<r>> \o @]
RemoveSubreqs(S, gone) ==
  Collect([S EXCEPT !.subreqs = SelectSeq(@, LAMBDA r : r \notin gone)])
RemoveSyncIns(S, gone) == Collect([S EXCEPT !.syncIns = @ \ gone])

\* The subscription requests for a node that is to be created; they point to
\* the folder it will be in.
Creates(r) == r.type \in {"add-node", "sync-in"}
PendingIn(S, n) == {r \in Range(S.subreqs) : Creates(r) /\ r.parent = n}
ClearParent(S, pending) ==
  [S EXCEPT !.subreqs = [i \in DOMAIN @ |->
      IF @[i] \in pending THEN [@[i] EXCEPT !.parent = None] ELSE @[i]]]

\* A variant for the mutation checks: nodes still to be created are forgotten.
NameTakenByNode(S, parent, name) ==
  \E n \in Children(S.nodes, parent) : S.nodes[n].name = name

\* infd_directory_node_is_name_available
NameTaken(S, parent, name) ==
  \/ \E n \in Children(S.nodes, parent) : S.nodes[n].name = name
  \/ \E r \in PendingIn(S, parent) : r.name = name
  \/ \E s \in S.syncIns : s.parent = parent /\ s.name = name

(***************************************************************************)
(* Access control lists                                                    *)
(***************************************************************************)
\* The connection c may no longer see the contents of folder n: it leaves the
\* folder's connections, its pending requests for nodes there lose their
\* folder.  The loop reads parent->id of every pending request of c, also of
\* one whose folder was cleared before.
LeaveFolder(S, c, n) ==
  LET T == IF \E r \in PendingIn(S, None) : r.conn = c THEN Abort(S, "parent is NULL") ELSE S
      U == ClearParent([T EXCEPT !.nodes[n].conns = @ \ {c}],
                       {r \in PendingIn(S, n) : r.conn = c})
  IN  RemoveSyncIns(U, {s \in S.syncIns : s.conn = c /\ s.parent = n})

\* infd_directory_enforce_single_acl; visible is is_explored.
RECURSIVE EnforceSingleAcl(_, _, _, _)
EnforceSingleAcl(S, c, n, visible) ==
  LET v == S.nodes[n]
      May(p) == visible /\ CheckAcl(S.nodes, n, S.account[c], p)
      T == IF May("query-acl") THEN S ELSE [S EXCEPT !.nodes[n].aclConns = @ \ {c}]
  IN  CASE v.type = "dir" /\ c \in v.conns /\ ~May("explore") ->
             FoldSet(LAMBDA m, U : EnforceSingleAcl(U, c, m, FALSE),
                     LeaveFolder(T, c, n), Children(S.nodes, n))
        [] v.proxy # None /\ c \in S.proxies[v.proxy].subs /\ ~May("subscribe") ->
             Unsubscribe(T, v.proxy, c)
        [] OTHER -> T

\* A variant for the mutation checks: what is below n is not looked at.
EnforceAclHere(S, c, n) == EnforceSingleAcl(S, c, n, TRUE)

\* infd_directory_enforce_acl: n and what c can see below it.
RECURSIVE EnforceAcl(_, _, _)
EnforceAcl(S, c, n) ==
  LET T == EnforceSingleAcl(S, c, n, TRUE)
  IN  IF c \notin T.nodes[n].conns THEN T
      ELSE FoldSet(LAMBDA m, U : EnforceAcl(U, c, m), T, Children(T.nodes, n))

\* A variant for the mutation checks: only those who have queried the list are
\* told.
AnnounceToQueried(S, n, sheets, except) ==
  Send(S, S.nodes[n].aclConns \ {except},
       [tag |-> "set-acl", id |-> n, sheets |-> sheets, seq |-> None])

\* infd_directory_announce_acl_sheets: everybody who can see n learns the new
\* sheets that concern him.
AnnounceSheets(S, n, sheets, except) ==
  LET see == (IF n = Root THEN DOMAIN S.account ELSE S.nodes[S.nodes[n].parent].conns)
      For(c) == SheetsFor(sheets, c \in S.nodes[n].aclConns, S.account[c])
      Tell(T, c) == Send(T, {c}, [tag |-> "set-acl", id |-> n, sheets |-> For(c), seq |-> None])
  IN  FoldSet(LAMBDA c, T : Tell(T, c), S,
              {c \in see \ {except} : DOMAIN For(c) # {}})

\* infd_directory_change_acl_account
ChangeAclAccount(S, c, a) ==
  LET T == EnforceAcl([S EXCEPT !.account[c] = a], c, Root)
      seen == {n \in DOMAIN T.nodes : n = Root \/ c \in T.nodes[T.nodes[n].parent].conns}
      own == {n \in seen : a # Default /\ a \in DOMAIN T.nodes[n].acl}
  IN  IF S.account[c] = a THEN S
      ELSE Send(T, {c}, [tag |-> "change-acl-account", account |-> a,
                         sheets |-> [n \in own |-> T.nodes[n].acl[a]]])

(***************************************************************************)
(* Adding and removing nodes                                               *)
(***************************************************************************)
\* infd_directory_node_desc_register_to_xml; a note of an unknown type is
\* announced as a note.
AddNodeMsg(S, n, c, seq) ==
  LET v == S.nodes[n]
  IN  [tag |-> "add-node", id |-> n, parent |-> v.parent, name |-> v.name,
       type |-> IF v.type = "dir" THEN "dir" ELSE "note", seq |-> seq, sub |-> FALSE,
       sheets |-> SheetsFor(v.acl, c \in v.aclConns, S.account[c])]

\* A variant for the mutation checks: the client that asked is not told.
UnregisterOthers(S, n, seq) ==
  Send(S, {c \in S.nodes[S.nodes[n].parent].conns : seq = None \/ c # seq[1]},
       [tag |-> "remove-node", id |-> n, seq |-> seq])

\* infd_directory_node_register and infd_directory_node_unregister
Register(S, n, except, seq) ==
  FoldSet(LAMBDA c, T : Send(T, {c}, AddNodeMsg(S, n, c, seq)), S,
          S.nodes[S.nodes[n].parent].conns \ {except})
Unregister(S, n, seq) ==
  Send(S, S.nodes[S.nodes[n].parent].conns, [tag |-> "remove-node", id |-> n, seq |-> seq])

\* infd_directory_node_free: n and what is below it, children first.  Freeing
\* a node reads parent->id of every pending request, also of one that lost its
\* folder before, or when a child of n was freed.
NodeFree(S, n) ==
  LET freed == Subtree(S.nodes, n)
      T == IF \E m \in (freed \ {n}) \union {None} : PendingIn(S, m) # {}
           THEN Abort(S, "parent is NULL") ELSE S
      U == ClearParent([T EXCEPT !.nodes = [m \in DOMAIN @ \ freed |-> @[m]]],
                       UNION {PendingIn(S, m) : m \in freed})
  IN  RemoveSyncIns(U, {s \in S.syncIns : s.parent \in freed})

\* infd_directory_node_explore: the folder's contents become nodes.
NodeExplore(S, n) ==
  LET path == Path(S.nodes, n)
      Type(p) == CASE S.store[p] = "dir" -> "dir" [] S.plugin -> "note" [] OTHER -> "unknown"
      Add(T, p) == Register([AddNode(T, T.counter, NewNode(n, Last(p), Type(p), FALSE))
                              EXCEPT !.counter = @ + 1], T.counter, None, None)
      found == {p \in DOMAIN S.store : p # <<>> /\ Front(p) = path}
  IN  FoldSet(LAMBDA p, T : Add(T, p), [S EXCEPT !.nodes[n].explored = TRUE], found)

\* infd_directory_handle_explore_node, infd_directory_browser_explore
HandleExploreNode(S, c, m, ok) ==
  LET n == m.id
      T == IF S.nodes[n].explored THEN S ELSE NodeExplore(S, n)
      kids == SetToSeq(Children(T.nodes, n))
      reply == <<[tag |-> "explore-begin", total |-> Len(kids), seq |-> m.seq]>>
               \o [i \in DOMAIN kids |-> AddNodeMsg(T, kids[i], c, m.seq)]
               \o <<[tag |-> "explore-end", seq |-> m.seq]>>
  IN  IF ~IsDir(S, n) \/ ~CheckAuth(S, n, c, {"explore"}) \/ (~S.nodes[n].explored /\ ~ok)
      THEN Failed(S, c, m)
      ELSE IF c \in T.nodes[n].conns THEN Failed(T, c, m)
      ELSE IF c = None THEN T
      ELSE [T EXCEPT !.out[c] = @ \o reply, !.nodes[n].conns = @ \union {c}]

\* infd_directory_node_add_subdirectory
NodeAddSubdirectory(S, c, m, ok) ==
  LET n == S.counter
      T == [AddNode(S, n, NewNode(m.parent, m.name, "dir", TRUE)) EXCEPT
              !.counter = @ + 1,
              !.store = (Append(Path(S.nodes, m.parent), m.name) :> "dir") @@ @]
  IN  IF ok THEN Register(T, n, None, m.seq) ELSE Failed(S, c, m)

\* infd_directory_node_add_note: with a subscription the node is created when
\* the client has acknowledged, until then only its storage exists.
NodeAddNote(S, c, m, ok) ==
  LET n == S.counter
      p == NewProxy(S)
      C == [CreateProxy(S, n) EXCEPT
              !.counter = @ + 1,
              !.store = (Append(Path(S.nodes, m.parent), m.name) :> "note") @@ @]
      T == AddNode(C, n, NewNode(m.parent, m.name, "note", FALSE))
      r == [NoSubreq EXCEPT !.type = "add-node", !.conn = c, !.id = n, !.parent = m.parent,
              !.name = m.name, !.proxy = p, !.req = TRUE, !.plugin = TRUE]
  IN  IF ~ok THEN Failed([S EXCEPT !.counter = @ + 1], c, m)
      ELSE IF m.sub THEN
        Send(AddSubreq(C, r), {c},
             [AddNodeMsg(T, n, c, m.seq) EXCEPT !.sub = TRUE])
      ELSE LinkSession(Register(T, n, None, m.seq), n, p)

\* A variant for the mutation checks: the storage sees the note only when its
\* document is there.
NodeAddSyncInUnsaved(S, c, m, ok) ==
  LET n == S.counter
      r == [NoSubreq EXCEPT !.type = "sync-in", !.conn = c, !.id = n, !.parent = m.parent,
              !.name = m.name, !.proxy = NewProxy(S), !.req = TRUE, !.plugin = TRUE,
              !.sub = m.sub]
  IN  Send(AddSubreq([CreateProxy(S, n) EXCEPT !.counter = @ + 1], r), {c},
           [tag |-> "sync-in", id |-> n, parent |-> m.parent, name |-> m.name,
            sub |-> m.sub, seq |-> m.seq])

\* infd_directory_node_add_sync_in and infd_directory_add_subreq_sync_in: the note
\* is written to the storage, still empty (infd_directory_session_proxy_ensure).
NodeAddSyncIn(S, c, m, ok) ==
  LET n == S.counter
      T == [S EXCEPT !.counter = @ + 1]
      U == [CreateProxy(T, n) EXCEPT
              !.store = (Append(Path(S.nodes, m.parent), m.name) :> "stub") @@ @]
      r == [NoSubreq EXCEPT !.type = "sync-in", !.conn = c, !.id = n, !.parent = m.parent,
              !.name = m.name, !.proxy = NewProxy(S), !.req = TRUE, !.plugin = TRUE,
              !.sub = m.sub]
  IN  IF ~ok THEN Failed(T, c, m)
      ELSE Send(AddSubreq(U, r), {c},
                [tag |-> "sync-in", id |-> n, parent |-> m.parent, name |-> m.name,
                 sub |-> m.sub, seq |-> m.seq])

\* infd_directory_handle_add_node, infd_directory_browser_add_note and
\* _add_subdirectory.  That the folder is explored is only asserted.
HandleAddNode(S, c, m, ok) ==
  LET perms == {"add"} \union (IF m.sub THEN {"subscribe"} ELSE {})
                       \union (IF m.sync THEN {"sync-in"} ELSE {})
  IN  IF \/ ~IsDir(S, m.parent) \/ ~CheckAuth(S, m.parent, c, perms)
         \/ m.type = "note" /\ ~S.plugin
      THEN Failed(S, c, m)
      ELSE IF ~S.nodes[m.parent].explored THEN Abort(S, "folder is not explored")
      ELSE IF NameTaken(S, m.parent, m.name) THEN Failed(S, c, m)
      ELSE IF m.type = "dir" THEN NodeAddSubdirectory(S, c, m, ok)
      ELSE IF m.sync THEN NodeAddSyncIn(S, c, m, ok)
      ELSE NodeAddNote(S, c, m, ok)

\* infd_directory_handle_remove_node, infd_directory_browser_remove_node and
\* infd_directory_node_remove
HandleRemoveNode(S, c, m, ok) ==
  LET n == m.id
      path == Path(S.nodes, n)
      T == [UnlinkSessions(S, Subtree(S.nodes, n)) EXCEPT
              !.store = [p \in {p \in DOMAIN @ : ~IsPrefix(path, p)} |-> @[p]]]
  IN  IF \/ n \notin DOMAIN S.nodes \/ n = Root \/ ~ok
         \/ ~CheckAuth(S, S.nodes[n].parent, c, {"remove"})
      THEN Failed(S, c, m)
      ELSE NodeFree(Unregister(T, n, m.seq), n)

(***************************************************************************)
(* Subscribing                                                             *)
(***************************************************************************)
Pending(S, n) == {r \in Range(S.subreqs) : r.type = "session" /\ r.id = n}
Linked(S, n) == S.nodes[n].proxy # None /\ ~S.nodes[n].weak

\* infd_directory_handle_subscribe_session: all connections that wait for the
\* same session share its request and its proxy.  The session is read from the
\* storage, infd_directory_node_make_session, unless it is still in memory.
HandleSubscribeSession(S, c, m, ok) ==
  LET n == m.id
      v == S.nodes[n]
      shared == Pending(S, n)
      fresh == shared = {} /\ v.proxy = None
      p == IF shared # {} THEN (CHOOSE r \in shared : TRUE).proxy
           ELSE IF fresh THEN NewProxy(S) ELSE v.proxy
      req == IF shared # {} THEN (CHOOSE r \in shared : TRUE).req ELSE ~Linked(S, n)
      T == IF fresh THEN CreateProxy(S, n) ELSE S
      r == [NoSubreq EXCEPT !.type = "session", !.conn = c, !.id = n, !.proxy = p, !.req = req]
  IN  IF \/ n \notin DOMAIN S.nodes \/ v.type # "note"
         \/ ~CheckAuth(S, n, c, {"subscribe"})
         \/ \E q \in shared : q.conn = c
         \/ fresh /\ ~ok
      THEN Failed(S, c, m)
      ELSE Send(AddSubreq(T, r), {c}, [tag |-> "subscribe-session", id |-> n, seq |-> m.seq])

\* infd_directory_browser_subscribe: the server itself takes the session, and
\* with it the request the connections wait for.
TakeRequest(S, n) ==
  [S EXCEPT !.subreqs = [i \in DOMAIN @ |->
     IF @[i] \in Pending(S, n) THEN [@[i] EXCEPT !.req = FALSE] ELSE @[i]]]
BrowserSubscribe(S, n, ok) ==
  LET shared == Pending(S, n)
      T == TakeRequest(S, n)
  IN  IF shared # {} THEN LinkSession(T, n, (CHOOSE r \in shared : TRUE).proxy)
      ELSE IF S.nodes[n].weak THEN LinkSession(S, n, S.nodes[n].proxy)
      ELSE IF ok THEN LinkSession(CreateProxy(S, n), n, NewProxy(S))
      ELSE S

\* infd_directory_handle_subscribe_chat
HandleSubscribeChat(S, c, m) ==
  IF S.chat = None \/ ~CheckAuth(S, Root, c, {"chat"}) THEN Failed(S, c, m)
  ELSE Send(AddSubreq(S, [NoSubreq EXCEPT !.conn = c]), {c},
            [tag |-> "subscribe-chat", seq |-> m.seq])

\* infd_directory_handle_save_session answers session-saved.
HandleSaveSession(S, c, m, ok) ==
  LET n == m.id
      T == [S EXCEPT !.store = (Path(S.nodes, n) :> "note") @@ @]
  IN  IF n \notin DOMAIN S.nodes \/ S.nodes[n].type # "note" THEN Abort(S, "node is NULL")
      ELSE IF \/ S.nodes[n].proxy = None
              \/ c \notin S.proxies[S.nodes[n].proxy].subs \/ ~ok
      THEN Failed(S, c, m)
      ELSE Send(T, {c}, [tag |-> "session-saved", seq |-> m.seq])

\* infd_directory_get_subreq_from_xml: the newest chat request answers for
\* any connection.
Answered(S, c, m) ==
  {i \in DOMAIN S.subreqs :
     IF m.id = None THEN S.subreqs[i].type = "chat"
     ELSE S.subreqs[i].conn = c /\ S.subreqs[i].id = m.id}
Subreq(S, c, m) == S.subreqs[Min(Answered(S, c, m))]
Unlinked(S, c, m) == [S EXCEPT !.subreqs = RemoveAt(@, Min(Answered(S, c, m)))]

\* A variant for the mutation checks: nobody tells the client.
AckChatSilently(S, c) == IF S.chat # None THEN [S EXCEPT !.chat = @ \union {c}] ELSE S

\* The acknowledgement of subscribe-chat: if the chat was disabled meanwhile
\* the client sees it being closed.
AckChat(S, c) ==
  IF S.chat # None THEN [S EXCEPT !.chat = @ \union {c}]
  ELSE Send(S, {c}, [tag |-> "session-close", id |-> None])

\* The acknowledgement of subscribe-session: the first one links the session
\* to the node and finishes the request, which the others no longer have.
AckSession(S, c, r) ==
  LET n == r.id
      T == TakeRequest(S, n)
      granted == /\ n \in DOMAIN S.nodes /\ S.nodes[n].type # "unknown"
                 /\ CheckAuth(S, n, c, {"subscribe"})
      U == IF ~granted THEN T
           ELSE IF S.nodes[n].proxy \notin {None, r.proxy} \/ r.req # ~Linked(S, n)
           THEN Abort(T, "subscribe-ack")
           ELSE IF Linked(S, n) THEN T ELSE LinkSession(T, n, r.proxy)
  IN  Collect(SubscribeTo(U, r.proxy, c))

\* The acknowledgement of add-node: the node is created unless its folder, the
\* plugin or the permission has gone.
AckAddNode(S, c, r) ==
  LET granted == r.parent # None /\ r.plugin
                 /\ CheckAuth(S, r.parent, c, {"add", "subscribe"})
      T == AddNode(S, r.id, NewNode(r.parent, r.name, "note", FALSE))
      U == LinkSession(Register(T, r.id, c, None), r.id, r.proxy)
      sane == c \in S.nodes[r.parent].conns /\ ~NameTaken(S, r.parent, r.name)
  IN  IF granted THEN SubscribeTo(IF sane THEN U ELSE Abort(U, "add-node ack"), r.proxy, c)
      ELSE Collect(SubscribeTo(
             IF r.parent = None THEN S
             ELSE Send(S, {c}, [tag |-> "remove-node", id |-> r.id, seq |-> None]), r.proxy, c))

\* The acknowledgement of sync-in: the client starts to send the document.
AckSyncIn(S, c, r) ==
  LET granted == r.parent # None /\ r.plugin
                 /\ CheckAuth(S, r.parent, c, {"add", "subscribe"})
      s == [id |-> r.id, parent |-> r.parent, name |-> r.name, conn |-> c, proxy |-> r.proxy]
      U == [S EXCEPT !.proxies[r.proxy].sync = c]
      T == IF r.sub THEN SubscribeTo(U, r.proxy, c) ELSE U
  IN  Collect(IF granted THEN [T EXCEPT !.syncIns = @ \union {s}] ELSE T)

\* infd_directory_handle_subscribe_ack.  The request is unlinked first and
\* freed, with its reference to the proxy, last.
HandleSubscribeAck(S, c, m) ==
  LET r == Subreq(S, c, m)
      T == Unlinked(S, c, m)
  IN  IF Answered(S, c, m) = {} THEN Failed(S, c, m)
      ELSE CASE r.type = "chat"     -> AckChat(T, c)
             [] r.type = "session"  -> AckSession(T, c, r)
             [] r.type = "add-node" -> AckAddNode(T, c, r)
             [] r.type = "sync-in"  -> AckSyncIn(T, c, r)

\* infd_directory_handle_subscribe_nack: the storage of a note that was to be
\* created is removed again.  The path is built from a folder and a plugin
\* that may be gone.
HandleSubscribeNack(S, c, m, ok) ==
  LET r == Subreq(S, c, m)
      path == Append(Path(S.nodes, r.parent), r.name)
      T == Collect(Unlinked(S, c, m))
  IN  IF Answered(S, c, m) = {} THEN Failed(S, c, m)
      ELSE IF ~Creates(r) THEN T
      ELSE IF r.parent = None \/ ~r.plugin THEN Abort(S, "parent is NULL")
      ELSE IF ~ok \/ path \notin DOMAIN S.store THEN Failed(T, c, m)
      ELSE [T EXCEPT !.store = [p \in DOMAIN @ \ {path} |-> @[p]]]

\* infd_directory_sync_in_synchronization_complete_cb: the document is there.
\* A storage that refuses it is only warned about.
SyncInComplete(S, s, ok) ==
  LET p == s.proxy
      T == [AddNode(S, s.id, NewNode(s.parent, s.name, "note", FALSE)) EXCEPT
              !.proxies[p].sync = None]
      U == LinkSession(Register(T, s.id, s.conn, None), s.id, p)
      path == Path(U.nodes, s.id)
  IN  Send([U EXCEPT !.syncIns = @ \ {s},
                     !.store = IF ok THEN (path :> "note") @@ @ ELSE @],
           {s.conn}, [tag |-> "sync-ack", id |-> s.id])
\* infd_directory_sync_in_synchronization_failed_cb
SyncInFailed(S, s) == RemoveSyncIns(S, {s})

(***************************************************************************)
(* Access control lists and accounts, continued                            *)
(***************************************************************************)
\* infd_directory_handle_query_acl
HandleQueryAcl(S, c, m) ==
  LET n == m.id
      T == [S EXCEPT !.nodes[n].aclConns = @ \union {c}]
  IN  IF \/ n \notin DOMAIN S.nodes \/ c \in S.nodes[n].aclConns
         \/ ~CheckAuth(S, n, c, {"query-acl"})
      THEN Failed(S, c, m)
      ELSE Send(T, {c}, [tag |-> "set-acl", id |-> n, sheets |-> S.nodes[n].acl, seq |-> m.seq])

\* infd_directory_handle_set_acl
HandleSetAcl(S, c, m) ==
  LET n == m.id
      T == [S EXCEPT !.nodes[n].acl = MergeSheets(@, m.sheets)]
      hit == {d \in DOMAIN S.account : {Default, S.account[d]} \intersect DOMAIN m.sheets # {}}
      U == FoldSet(LAMBDA d, V : EnforceAcl(V, d, n), T, hit)
      W == AnnounceSheets(U, n, m.sheets, c)
  IN  IF \/ n \notin DOMAIN S.nodes \/ c \notin S.nodes[n].aclConns
         \/ ~CheckAuth(S, n, c, {"set-acl"}) \/ ~(DOMAIN m.sheets \subseteq S.accounts)
      THEN Failed(S, c, m)
      ELSE Send(W, {c}, [tag |-> "set-acl", id |-> n, seq |-> m.seq, sheets |->
                 SheetsFor(m.sheets, c \in U.nodes[n].aclConns, S.account[c])])

\* infd_directory_browser_set_acl: the server's own change is announced but
\* not enforced on the connections.
BrowserSetAcl(S, n, sheets) ==
  AnnounceSheets([S EXCEPT !.nodes[n].acl = MergeSheets(@, sheets)], n, sheets, None)

Everything == [p \in Perms |-> TRUE]

\* infd_directory_read_root_acl: the list of the root is replaced by the one
\* stored, in which the default account's sheet is complete; if it cannot be read
\* everything is revoked.  That is announced but not enforced.
ReadRootAcl(S, stored, ok) ==
  LET read == IF ok THEN (Default :> (stored[Default] @@ Everything)) @@ stored
              ELSE (Default :> [p \in Perms |-> FALSE])
      sheets == read @@ [a \in DOMAIN S.nodes[Root].acl |-> <<>>]
  IN  AnnounceSheets([S EXCEPT !.nodes[Root].acl = MergeSheets(@, sheets)], Root, sheets, None)

\* infd_directory_set_storage: the sessions are written to the old storage, the
\* contents of the root are replaced by those of the new one, if they can be listed.
SetStorage(S, store, stored, ok, listed) ==
  LET Drop(D, n) == NodeFree(Unregister(UnlinkSessions(D, Subtree(D.nodes, n)), n, None), n)
      T == FoldSet(LAMBDA n, U : Drop(U, n), S, Children(S.nodes, Root))
      U == ReadRootAcl([T EXCEPT !.store = store], stored, ok)
  IN  IF S.nodes[Root].explored /\ listed THEN NodeExplore(U, Root)
      ELSE [U EXCEPT !.nodes[Root].explored = FALSE]

\* infd_directory_handle_create_acl_account, infd_directory_announce_acl_account
MayListAccounts(S, a) == CheckAcl(S.nodes, Root, a, "accounts")
HandleCreateAclAccount(S, c, m, ok) ==
  LET T == [S EXCEPT !.accounts = @ \union {m.account}]
      told == {d \in DOMAIN S.account \ {c} : MayListAccounts(S, S.account[d])}
      U == Send(T, told, [tag |-> "add-acl-account", account |-> m.account, seq |-> None])
  IN  IF ~CheckAuth(S, Root, c, {"create"}) \/ m.account \in S.accounts \/ ~ok
      THEN Failed(S, c, m)
      ELSE IF c = None THEN U
      ELSE Send(U, {c}, [tag |-> "create-acl-account", account |-> m.account, seq |-> m.seq])

\* infd_directory_remove_acl_account and infd_directory_cleanup_acl_account:
\* the connections logged in with the account fall back to the default
\* account, its sheets are removed from every node.
HandleRemoveAclAccount(S, c, m, ok) ==
  LET a == m.account
      users == {d \in DOMAIN S.account : S.account[d] = a}
      T == FoldSet(LAMBDA d, U : EnforceAcl([U EXCEPT !.account[d] = Default], d, Root), S, users)
      told == users \union (IF MayListAccounts(S, a) THEN DOMAIN S.account ELSE {})
                    \union ({c} \ {None})
      V == [T EXCEPT !.accounts = @ \ {a},
                     !.nodes = [n \in DOMAIN @ |-> [@[n] EXCEPT !.acl = WithoutAccount(@, a)]]]
  IN  IF \/ ~CheckAuth(S, Root, c, {"delete"}) \/ a = Default \/ a \notin S.accounts \/ ~ok
      THEN Failed(S, c, m)
      ELSE Send(V, told, [tag |-> "remove-acl-account", account |-> a, seq |-> m.seq])

\* infd_directory_handle_query_acl_account_list
HandleQueryAclAccountList(S, c, m) ==
  LET rest == SetToSeq(S.accounts \ {Default, S.account[c]})
  IN  IF ~MayListAccounts(S, S.account[c]) THEN Failed(S, c, m)
      ELSE [S EXCEPT !.out[c] = @
              \o <<[tag |-> "acl-account-list-begin", total |-> Len(rest), seq |-> m.seq]>>
              \o [i \in DOMAIN rest |->
                    [tag |-> "add-acl-account", account |-> rest[i], seq |-> m.seq]]
              \o <<[tag |-> "acl-account-list-end", seq |-> m.seq]>>]

\* infd_directory_handle_lookup_acl_accounts
HandleLookupAclAccounts(S, c, m, ok) ==
  IF ~MayListAccounts(S, S.account[c]) \/ ~ok THEN Failed(S, c, m)
  ELSE Send(S, {c}, [tag |-> "lookup-acl-accounts", seq |-> m.seq,
                     accounts |-> {m.account} \intersect S.accounts])

(***************************************************************************)
(* Connections, plugins, the chat                                          *)
(***************************************************************************)
\* infd_directory_add_connection, infd_directory_send_welcome_message
AddConnection(S, c, a) ==
  Send([S EXCEPT !.account = (c :> a) @@ @], {c},
       [tag |-> "welcome", account |-> a,
        sheets |-> SheetsFor(S.nodes[Root].acl, FALSE, a)])

\* infd_directory_member_removed_cb and infd_session_proxy_member_removed_cb:
\* all that the connection had open is dropped.
MemberRemoved(S, c) ==
  LET T == RemoveSyncIns(S, {s \in S.syncIns : s.conn = c})
      U == RemoveSubreqs(T, {r \in Range(T.subreqs) : r.conn = c})
      V == [U EXCEPT !.nodes = [n \in DOMAIN @ |-> [@[n] EXCEPT !.conns = @ \ {c},
                                                                !.aclConns = @ \ {c}]],
                     !.account = [d \in DOMAIN @ \ {c} |-> @[d]],
                     !.chat = IF @ = None THEN None ELSE @ \ {c}]
      W == FoldSet(LAMBDA p, X : SetSubs(X, p, X.proxies[p].subs \ {c}), V, DOMAIN V.proxies)
  IN  [W EXCEPT !.out[c] = <<>>]

\* infd_session_proxy_handle_session_unsubscribe: from a member of the group.
HandleSessionUnsubscribe(S, c, n) ==
  IF n = None THEN [S EXCEPT !.chat = IF @ = None THEN None ELSE @ \ {c}]
  ELSE FoldSet(LAMBDA p, T : SetSubs(T, p, T.proxies[p].subs \ {c}), S,
               {p \in DOMAIN S.proxies : S.proxies[p].id = n})

\* infd_directory_enable_chat
EnableChat(S, on) ==
  IF on THEN [S EXCEPT !.chat = IF @ = None THEN {} ELSE @]
  ELSE [Send(S, IF S.chat = None THEN {} ELSE S.chat, [tag |-> "session-close", id |-> None])
         EXCEPT !.chat = None]

\* infd_directory_add_plugin and infd_directory_remove_plugin
AddPlugin(S) ==
  [S EXCEPT !.plugin = TRUE,
            !.nodes = [n \in DOMAIN @ |->
              IF @[n].type = "unknown" THEN [@[n] EXCEPT !.type = "note"] ELSE @[n]]]
RemovePlugin(S) ==
  LET notes == {n \in DOMAIN S.nodes : S.nodes[n].type = "note"}
      T == FoldSet(LAMBDA n, U : ReleaseSession(UnlinkSessions(U, {n}), n), S, notes)
      U == RemoveSyncIns(T, T.syncIns)
  IN  [U EXCEPT !.plugin = FALSE,
                !.nodes = [n \in DOMAIN @ |->
                  IF n \in notes THEN [@[n] EXCEPT !.type = "unknown"] ELSE @[n]],
                !.subreqs = [i \in DOMAIN @ |-> [@[i] EXCEPT !.plugin = FALSE]]]

\* infd_directory_communication_object_received, and what the group of a
\* session receives: the end of a synchronization or of a subscription.
Receive(S, c, m, ok) ==
  LET syncs == {s \in S.syncIns : s.conn = c /\ s.id = m.id}
  IN  CASE m.tag = "explore-node"           -> HandleExploreNode(S, c, m, ok)
        [] m.tag = "add-node"               -> HandleAddNode(S, c, m, ok)
        [] m.tag = "remove-node"            -> HandleRemoveNode(S, c, m, ok)
        [] m.tag = "subscribe-session"      -> HandleSubscribeSession(S, c, m, ok)
        [] m.tag = "save-session"           -> HandleSaveSession(S, c, m, ok)
        [] m.tag = "subscribe-chat"         -> HandleSubscribeChat(S, c, m)
        [] m.tag = "create-acl-account"     -> HandleCreateAclAccount(S, c, m, ok)
        [] m.tag = "remove-acl-account"     -> HandleRemoveAclAccount(S, c, m, ok)
        [] m.tag = "query-acl-account-list" -> HandleQueryAclAccountList(S, c, m)
        [] m.tag = "lookup-acl-accounts"    -> HandleLookupAclAccounts(S, c, m, ok)
        [] m.tag = "query-acl"              -> HandleQueryAcl(S, c, m)
        [] m.tag = "set-acl"                -> HandleSetAcl(S, c, m)
        [] m.tag = "subscribe-ack"          -> HandleSubscribeAck(S, c, m)
        [] m.tag = "subscribe-nack"         -> HandleSubscribeNack(S, c, m, ok)
        [] m.tag = "session-unsubscribe"    -> HandleSessionUnsubscribe(S, c, m.id)
        [] m.tag = "sync-end" /\ syncs # {} -> SyncInComplete(S, CHOOSE s \in syncs : TRUE, ok)
        [] m.tag = "sync-cancel" /\ syncs # {} -> SyncInFailed(S, CHOOSE s \in syncs : TRUE)
        [] OTHER                            -> S
==============================================================================
