----------------------------- MODULE SessionProxy -----------------------------
(***************************************************************************)
(* The server's side of one session: the running InfSession with its user  *)
(* table and the synchronizations it sends (inf-session.c), and the proxy  *)
(* that keeps the subscriptions (infd-session-proxy.c).  It is a record S: *)
(*   closed   the session's status is CLOSED                               *)
(*   users    id -> [name, status, at], at the connection the user joined  *)
(*            from, None for a local or an unavailable one                 *)
(*   counter  user_id_counter                                              *)
(*   subs     connection -> the users of its subscription; its domain is   *)
(*            the subscription group                                       *)
(*   local    local_users                                                  *)
(*   syncs    connection -> "progress" or "awaiting"                       *)
(*   idle     the idle property                                            *)
(*   queue    messages to each connection that are not enqueued yet; these *)
(*            can be cancelled                                             *)
(* Each operator is one function and returns the record it leaves behind.  *)
(***************************************************************************)
EXTENDS Naturals, Sequences, SequencesExt, FiniteSetsExt, TLC

CONSTANT None

Post(S, C, m) == [S EXCEPT !.queue = [c \in C |-> Append(S.queue[c], m)] @@ @]
Without(f, D) == [x \in DOMAIN f \ D |-> f[x]]

\* infd_session_proxy_check_idle, on whose answer idle is set
InUse(S) == DOMAIN S.subs # {} \/ S.local # {} \/ DOMAIN S.syncs # {}
CheckIdle(S) == IF InUse(S) THEN S ELSE [S EXCEPT !.idle = TRUE]

(***************************************************************************)
(* Users                                                                   *)
(***************************************************************************)
Available(S, i) == i \in DOMAIN S.users /\ S.users[i].status # "unavailable"
Named(users, name) == {i \in DOMAIN users : users[i].name = name}

\* infd_session_proxy_user_notify_status_cb: an unavailable user leaves its
\* subscription, or the local users.
SetStatus(S, i, status) ==
  LET u == S.users[i]
      T == [S EXCEPT !.users[i].status = status, !.users[i].at = None]
  IN  IF status # "unavailable" THEN [S EXCEPT !.users[i].status = status]
      ELSE IF u.at = None THEN CheckIdle([T EXCEPT !.local = @ \ {i}])
      ELSE [T EXCEPT !.subs[u.at] = @ \ {i}]

\* infd_session_proxy_perform_user_join: a new user, or one that has left and
\* comes back under its old id.  ok is FALSE if reject-user-join denies it.
PerformUserJoin(S, c, m, ok) ==
  LET known == Named(S.users, m.name)
      i == IF known = {} THEN S.counter ELSE CHOOSE i \in known : TRUE
      user == [name |-> m.name, status |-> "active", at |-> c]
      T == [S EXCEPT !.users = (i :> user) @@ @,
                     !.counter = IF known = {} THEN i + 1 ELSE @]
      U == Post(T, DOMAIN S.subs,
                [tag |-> IF known = {} THEN "user-join" ELSE "user-rejoin",
                 id |-> i, name |-> m.name, status |-> "active",
                 seq |-> m.seq, to |-> c])
  IN  IF ~ok \/ \E j \in known : Available(S, j)
      THEN Post(S, {c} \ {None}, [tag |-> "request-failed", seq |-> m.seq])
      ELSE IF c = None THEN [U EXCEPT !.local = @ \union {i}, !.idle = FALSE]
      ELSE [U EXCEPT !.subs[c] = @ \union {i}]

\* inf_session_handle_user_status_change: the message is passed on to the
\* other members.
HandleUserStatusChange(S, c, m) ==
  IF ~Available(S, m.id) THEN S
  ELSE IF S.users[m.id].at # c THEN S
  ELSE SetStatus(Post(S, DOMAIN S.subs \ {c}, m), m.id, m.status)

\* inf_session_set_user_status of a local user
SetUserStatus(S, i, status) ==
  SetStatus(Post(S, DOMAIN S.subs, [tag |-> "user-status-change", id |-> i, status |-> status]),
            i, status)

(***************************************************************************)
(* Subscriptions and synchronizations                                      *)
(***************************************************************************)
\* A variant for the mutation checks: nobody looks whether the session is idle.
RemoveSubscriptionBusy(S, c) ==
  LET T == FoldSet(LAMBDA i, U : SetStatus(U, i, "unavailable"), S, S.subs[c])
  IN  [T EXCEPT !.subs = Without(@, {c})]

\* infd_session_proxy_remove_subscription
RemoveSubscription(S, c) ==
  LET T == FoldSet(LAMBDA i, U : SetStatus(U, i, "unavailable"), S, S.subs[c])
  IN  CheckIdle([T EXCEPT !.subs = Without(@, {c})])

\* A variant for the mutation checks: the others are not told.
MemberRemovedSilently(S, c) == RemoveSubscription(S, c)

\* infd_session_proxy_member_removed_cb: the remaining subscriptions see the
\* users leave.
MemberRemoved(S, c) ==
  LET Gone(i) == [tag |-> "user-status-change", id |-> i, status |-> "unavailable"]
  IN  RemoveSubscription(
        FoldSet(LAMBDA i, T : Post(T, DOMAIN S.subs \ {c}, Gone(i)), S, S.subs[c]), c)

\* inf_session_synchronize_to: nothing happens if the connection is still being
\* synchronized; else everything is queued at once.
SynchronizeTo(S, c) ==
  LET ids == SetToSeq(DOMAIN S.users)
      Item(i) == [tag |-> "sync-user", id |-> i, name |-> S.users[i].name,
                  status |-> S.users[i].status]
  IN  IF c \in DOMAIN S.syncs THEN S
      ELSE [S EXCEPT !.syncs = (c :> "progress") @@ @, !.idle = FALSE,
                     !.queue[c] = @ \o <<[tag |-> "sync-begin", total |-> Len(ids)]>>
                                    \o [k \in DOMAIN ids |-> Item(ids[k])]
                                    \o <<[tag |-> "sync-end"]>>]

\* infd_session_proxy_subscribe_to, infd_session_proxy_add_subscription
SubscribeTo(S, c) ==
  IF c \in DOMAIN S.subs \/ S.closed THEN S
  ELSE SynchronizeTo([S EXCEPT !.subs = (c :> {}) @@ @, !.idle = FALSE], c)

\* The synchronization-failed signal of a running session: the connection is
\* unsubscribed before, idle is looked at after the synchronization has been
\* removed, and local users are forgotten then.
SynchronizationFailed(S, c) ==
  LET T == IF c \in DOMAIN S.subs THEN MemberRemoved(S, c) ELSE S
      U == [T EXCEPT !.syncs = Without(@, {c})]
  IN  [U EXCEPT !.idle = @ \/ (DOMAIN U.subs = {} /\ DOMAIN U.syncs = {})]

\* A variant for the mutation checks: what is queued is still sent.
CancelSynchronizationLate(S, c) ==
  SynchronizationFailed(IF S.syncs[c] = "progress" THEN Post(S, {c}, [tag |-> "sync-cancel"])
                        ELSE S, c)

\* A variant for the mutation checks: the receiver is not told.
CancelSynchronizationQuietly(S, c) ==
  SynchronizationFailed(IF S.syncs[c] = "progress" THEN [S EXCEPT !.queue[c] = <<>>] ELSE S, c)

\* inf_session_cancel_synchronization: what is not enqueued yet is taken back.
CancelSynchronization(S, c) ==
  SynchronizationFailed(IF S.syncs[c] = "progress"
                        THEN [S EXCEPT !.queue[c] = <<[tag |-> "sync-cancel"]>>] ELSE S, c)

\* infd_session_proxy_unsubscribe; a connection that waits for the acknowledgement only
\* is left in the synchronizations.  After the cancellation of one in progress, which frees
\* the subscription, the code still reads the subscription's connection to remove the
\* member, which is gone: the model takes this as harmless (see README).
Progressing(S, c) == c \in DOMAIN S.syncs /\ S.syncs[c] = "progress"
Unsubscribe(S, c) ==
  IF Progressing(S, c) THEN CancelSynchronization(S, c)
  ELSE MemberRemoved(Post(S, {c}, [tag |-> "session-close"]), c)

\* infd_session_proxy_session_close_cb and inf_session_close_handler
Close(S) ==
  LET Leave(T, c) == IF Progressing(S, c) THEN [T EXCEPT !.queue[c] = <<[tag |-> "sync-cancel"]>>]
                     ELSE Post(T, {c}, [tag |-> "session-close"])
      T == FoldSet(LAMBDA c, U : Leave(U, c), S, DOMAIN S.subs)
  IN  [T EXCEPT !.closed = TRUE, !.subs = <<>>, !.local = {}, !.syncs = <<>>,
                !.users = [i \in DOMAIN @ |->
                             [@[i] EXCEPT !.status = "unavailable", !.at = None]]]

\* A synchronization is answered: inf_session_communication_object_received of a
\* running session.
SyncAnswered(S, c, m) ==
  CASE m.tag = "sync-error" -> SynchronizationFailed([S EXCEPT !.queue[c] = <<>>], c)
    [] m.tag = "sync-ack" /\ S.syncs[c] = "awaiting" ->
         CheckIdle([S EXCEPT !.syncs = Without(@, {c})])
    [] OTHER -> S

\* infd_session_proxy_communication_object_received; what comes from a
\* connection that is not in the group is dropped.
Receive(S, c, m, ok) ==
  CASE c \notin DOMAIN S.subs          -> S
    [] c \in DOMAIN S.syncs            -> SyncAnswered(S, c, m)
    [] m.tag = "user-join"             -> PerformUserJoin(S, c, m, ok)
    [] m.tag = "session-unsubscribe"   -> MemberRemoved(S, c)
    [] m.tag = "user-status-change"    -> HandleUserStatusChange(S, c, m)
    [] OTHER                           -> S

\* inf_session_communication_object_enqueued: with the end of a synchronization
\* on its way only the acknowledgement is missing.
Enqueued(S, c) ==
  [S EXCEPT !.queue[c] = Tail(@),
            !.syncs = IF Head(S.queue[c]).tag = "sync-end" /\ Progressing(S, c)
                      THEN (c :> "awaiting") @@ @ ELSE @]

\* inf_session_connection_notify_status_cb and the group's removal of the member
ConnectionClosed(S, c) ==
  LET T == IF c \in DOMAIN S.syncs THEN SynchronizationFailed(S, c)
           ELSE IF c \in DOMAIN S.subs THEN MemberRemoved(S, c) ELSE S
      U == IF c \in DOMAIN T.subs THEN MemberRemoved(T, c) ELSE T
  IN  [U EXCEPT !.queue[c] = <<>>]
===============================================================================
