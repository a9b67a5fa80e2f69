----------------------------- MODULE SessionClient -----------------------------
(***************************************************************************)
(* The client's side of a session: the InfSession that is synchronized     *)
(* from the server (inf-session.c) and the proxy that joins users          *)
(* (infc-session-proxy.c).  It is a record K:                              *)
(*   status   "none", "asked" (the browser's subscribe-session request is  *)
(*            pending), "sync" (SYNCHRONIZING) or "running"                *)
(*   total    messages_total, 0 before sync-begin                          *)
(*   got      messages_received                                            *)
(*   users    id -> [name, status, own], own with the flag LOCAL           *)
(*   reqs     seq of the pending user-join requests                        *)
(*   seq      the request manager's counter                                *)
(*   err      a message was refused with the error signal or sync-error    *)
(*   out      what is sent to the server                                   *)
(***************************************************************************)
EXTENDS Naturals, Sequences, TLC

NoSession == [status |-> "none", total |-> 0, got |-> 0, users |-> <<>>,
              reqs |-> {}, seq |-> 0, err |-> FALSE, out |-> <<>>]

Tell(K, m) == [K EXCEPT !.out = Append(@, m)]

\* infc_session_proxy_release_connection and the browser's
\* session_remove_session: requests are cleared, and the session is dropped.
ReleaseConnection(K) == [NoSession EXCEPT !.err = K.err, !.out = K.out]

\* The error path of a synchronization: inf_session_send_sync_error, and
\* synchronization-failed closes the session.
SyncError(K) == ReleaseConnection(Tell([K EXCEPT !.err = TRUE], [tag |-> "sync-error"]))

\* inf_session_add_user, refused if validate_user_props finds the id or the name
Clash(K, m, except) ==
  \E i \in DOMAIN K.users \ except : i = m.id \/ K.users[i].name = m.name
AddUser(K, m, own) ==
  [K EXCEPT !.users = (m.id :> [name |-> m.name, status |-> m.status, own |-> own]) @@ @]

\* inf_session_handle_received_sync_message
HandleSyncMessage(K, m) ==
  CASE m.tag = "sync-cancel" -> ReleaseConnection(K)
    [] m.tag = "sync-begin" ->
         IF K.total > 0 THEN SyncError(K)
         ELSE [K EXCEPT !.total = 2 + m.total, !.got = 1]
    [] m.tag = "sync-end" ->
         IF K.got + 1 # K.total THEN SyncError(K)
         ELSE Tell([K EXCEPT !.got = @ + 1, !.status = "running"], [tag |-> "sync-ack"])
    [] OTHER ->
         IF K.got = 0 \/ K.got = K.total - 1 \/ m.tag # "sync-user" THEN SyncError(K)
         ELSE IF Clash(K, m, {}) THEN SyncError(K)
         ELSE AddUser([K EXCEPT !.got = @ + 1], m, FALSE)

\* infc_session_proxy_handle_user_join; with handle_user_rejoin it decides by
\* the seq attribute whether the user is ours.
Answers(K, c, m) == m.to = c /\ m.seq \in K.reqs
HandleUserJoin(K, c, m) ==
  LET T == [K EXCEPT !.reqs = IF Answers(K, c, m) THEN @ \ {m.seq} ELSE @]
  IN  IF Clash(K, m, {}) THEN [T EXCEPT !.err = TRUE] ELSE AddUser(T, m, Answers(K, c, m))

\* A variant for the mutation checks: the flag LOCAL is kept from before.
HandleUserRejoinForeign(K, c, m) ==
  LET T == [K EXCEPT !.reqs = IF Answers(K, c, m) THEN @ \ {m.seq} ELSE @]
  IN  IF m.id \notin DOMAIN K.users \/ Clash(K, m, {m.id}) THEN [T EXCEPT !.err = TRUE]
      ELSE [T EXCEPT !.users[m.id].status = m.status]

\* infc_session_proxy_handle_user_rejoin
HandleUserRejoin(K, c, m) ==
  LET T == [K EXCEPT !.reqs = IF Answers(K, c, m) THEN @ \ {m.seq} ELSE @]
  IN  IF m.id \notin DOMAIN K.users \/ Clash(K, m, {m.id}) THEN [T EXCEPT !.err = TRUE]
      ELSE AddUser(T, m, Answers(K, c, m))

\* infc_session_proxy_handle_request_failed
HandleRequestFailed(K, m) ==
  IF m.seq \in K.reqs THEN [K EXCEPT !.reqs = @ \ {m.seq}] ELSE [K EXCEPT !.err = TRUE]

\* inf_session_handle_user_status_change
HandleStatusChange(K, m) ==
  IF m.id \notin DOMAIN K.users THEN [K EXCEPT !.err = TRUE]
  ELSE IF K.users[m.id].status = "unavailable" THEN [K EXCEPT !.err = TRUE]
  ELSE [K EXCEPT !.users[m.id].status = m.status]

\* infc_session_proxy_communication_object_received, and the browser's answer to
\* subscribe-session; without a session nobody listens.
ClientReceive(K, c, m) ==
  CASE K.status = "none"      -> K
    [] K.status = "asked"     ->
         IF m.tag = "subscribe-session"
         THEN Tell([K EXCEPT !.status = "sync"], [tag |-> "subscribe-ack"])
         ELSE IF m.tag = "subscribe-failed" THEN ReleaseConnection(K) ELSE K
    [] K.status = "sync"      -> HandleSyncMessage(K, m)
    [] m.tag = "user-join"    -> HandleUserJoin(K, c, m)
    [] m.tag = "user-rejoin"  -> HandleUserRejoin(K, c, m)
    [] m.tag = "request-failed" -> HandleRequestFailed(K, m)
    [] m.tag = "session-close"  -> ReleaseConnection(K)
    [] m.tag = "user-status-change" -> HandleStatusChange(K, m)
    [] OTHER                    -> [K EXCEPT !.err = TRUE]

\* infc_browser_subscribe_session's request
AskSession(K) == Tell([K EXCEPT !.status = "asked"], [tag |-> "subscribe-session"])

\* infc_session_proxy_join_user
JoinUser(K, name) ==
  Tell([K EXCEPT !.reqs = @ \union {K.seq}, !.seq = @ + 1],
       [tag |-> "user-join", name |-> name, seq |-> K.seq])

\* inf_session_set_user_status
SetOwnStatus(K, i, status) ==
  Tell([K EXCEPT !.users[i].status = status],
       [tag |-> "user-status-change", id |-> i, status |-> status])

\* inf_session_close: a session that is being synchronized is cancelled, the
\* proxy of a running one unsubscribes.
CloseSession(K) ==
  ReleaseConnection(Tell(K, [tag |-> IF K.status = "sync" THEN "sync-error"
                                     ELSE "session-unsubscribe"]))
===============================================================================
