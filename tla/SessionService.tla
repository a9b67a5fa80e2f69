---------------------------- MODULE SessionService ----------------------------
(***************************************************************************)
(* A session of the server, its clients, and the connections between them. *)
(* The directory's handshake (subscribe-session, subscribe-ack) is reduced *)
(* to its messages; the module Directory has the whole of it.              *)
(***************************************************************************)
EXTENDS SessionProxy, SessionClient

CONSTANTS Clients, Names,
          Budgets   \* triples: how often clients are put out, how often the connection of one
                    \* is lost and it comes back, how many operations there are in all

VARIABLES srv,    \* the server's side, a record of SessionProxy
          cl,     \* the clients, records of SessionClient
          up,     \* messages on their way to the server
          down,   \* messages on their way to the clients
          left    \* what is left of the budget

vars == <<srv, cl, up, down, left>>

Statuses == {"active", "inactive", "unavailable"}

\* What is left at first: each client may subscribe once, and one of them again.
Again == CHOOSE c \in Clients : TRUE
Budget(kick, again, any) ==
  [c \in Clients |-> IF c = Again THEN 1 + again ELSE 1] @@
  [any |-> any, join |-> 2, status |-> 1, leave |-> 1, kick |-> kick, local |-> 2,
   close |-> 1, disconnect |-> again]

\* infd_session_proxy_init, _constructed: nobody is subscribed.
Init ==
  /\ srv = [closed |-> FALSE, users |-> <<>>, counter |-> 1, subs |-> <<>>, local |-> {},
            syncs |-> <<>>, idle |-> TRUE, queue |-> [c \in Clients |-> <<>>]]
  /\ cl = [c \in Clients |-> NoSession]
  /\ up = [c \in Clients |-> <<>>]
  /\ down = [c \in Clients |-> <<>>]
  /\ \E b \in Budgets : left = Budget(b[1], b[2], b[3])

\* Every operation but Ask also uses up one of "any".
Spend(op) ==
  /\ left[op] > 0 /\ left["any"] > 0
  /\ left' = [left EXCEPT ![op] = @ - 1, !["any"] = @ - 1]

\* The client's new record; what it sends is on its way at once.
ClientBecomes(c, K) ==
  /\ cl' = [cl EXCEPT ![c] = [K EXCEPT !.out = <<>>]]
  /\ up' = [up EXCEPT ![c] = @ \o K.out]

(***************************************************************************)
(* The client's application                                                *)
(***************************************************************************)
Ask(c) ==
  /\ left[c] > 0 /\ left' = [left EXCEPT ![c] = @ - 1]
  /\ cl[c].status = "none"
  /\ ClientBecomes(c, AskSession(cl[c]))
  /\ UNCHANGED <<srv, down>>

Join(c) ==
  /\ Spend("join") /\ cl[c].status = "running"
  /\ \E name \in Names : ClientBecomes(c, JoinUser(cl[c], name))
  /\ UNCHANGED <<srv, down>>

Change(c) ==
  /\ Spend("status") /\ cl[c].status = "running"
  /\ \E i \in DOMAIN cl[c].users, status \in Statuses :
       /\ cl[c].users[i].own /\ cl[c].users[i].status \notin {"unavailable", status}
       /\ ClientBecomes(c, SetOwnStatus(cl[c], i, status))
  /\ UNCHANGED <<srv, down>>

Leave(c) ==
  /\ Spend("leave") /\ cl[c].status \in {"sync", "running"}
  /\ ClientBecomes(c, CloseSession(cl[c]))
  /\ UNCHANGED <<srv, down>>

(***************************************************************************)
(* The server's application                                                *)
(***************************************************************************)
Kick(c) ==
  /\ Spend("kick") /\ c \in DOMAIN srv.subs
  /\ srv' = Unsubscribe(srv, c)
  /\ UNCHANGED <<cl, up, down>>

LocalJoin ==
  /\ Spend("local") /\ ~srv.closed
  /\ \E name \in Names :
       srv' = PerformUserJoin(srv, None, [name |-> name, seq |-> None], TRUE)
  /\ UNCHANGED <<cl, up, down>>

LocalChange ==
  /\ Spend("local") /\ ~srv.closed
  /\ \E i \in srv.local, status \in Statuses :
       /\ srv.users[i].status # status
       /\ srv' = SetUserStatus(srv, i, status)
  /\ UNCHANGED <<cl, up, down>>

\* The directory keeps the session while somebody is about to subscribe.
Subscribing(c) ==
  \/ cl[c].status = "asked"
  \/ \E k \in DOMAIN up[c] : up[c][k].tag = "subscribe-ack"

ServerClose ==
  /\ Spend("close") /\ ~srv.closed /\ ~\E c \in Clients : Subscribing(c)
  /\ srv' = Close(srv)
  /\ UNCHANGED <<cl, up, down>>

(***************************************************************************)
(* The connections                                                         *)
(***************************************************************************)
\* infd_directory_handle_subscribe_session, _handle_subscribe_ack
Subscribe(S, c, m) ==
  IF m.tag = "subscribe-ack" THEN SubscribeTo(S, c)
  ELSE Post(S, {c}, [tag |-> IF S.closed \/ c \in DOMAIN S.subs THEN "subscribe-failed"
                             ELSE "subscribe-session"])

Enqueue(c) ==
  /\ srv.queue[c] # <<>>
  /\ down' = [down EXCEPT ![c] = Append(@, Head(srv.queue[c]))]
  /\ srv' = Enqueued(srv, c)
  /\ UNCHANGED <<cl, up, left>>

ServerReceives(c) ==
  /\ up[c] # <<>>
  /\ up' = [up EXCEPT ![c] = Tail(@)]
  /\ LET m == Head(up[c])
     IN  IF m.tag \in {"subscribe-session", "subscribe-ack"}
         THEN srv' = Subscribe(srv, c, m)
         ELSE \E ok \in BOOLEAN : srv' = Receive(srv, c, m, ok)
  /\ UNCHANGED <<cl, down, left>>

ClientReceives(c) ==
  /\ down[c] # <<>>
  /\ down' = [down EXCEPT ![c] = Tail(@)]
  /\ ClientBecomes(c, ClientReceive(cl[c], c, Head(down[c])))
  /\ UNCHANGED <<srv, left>>

\* The connection is lost, and may be opened again.
Disconnect(c) ==
  /\ Spend("disconnect") /\ cl[c].status # "none"
  /\ srv' = ConnectionClosed(srv, c)
  /\ cl' = [cl EXCEPT ![c] = NoSession]
  /\ up' = [up EXCEPT ![c] = <<>>]
  /\ down' = [down EXCEPT ![c] = <<>>]

\* The connection to a client is served at both of its ends.
Deliver(c) == Enqueue(c) \/ ServerReceives(c) \/ ClientReceives(c)

Next ==
  \/ \E c \in Clients :
       \/ Ask(c) \/ Join(c) \/ Change(c) \/ Leave(c)
       \/ Kick(c) \/ Disconnect(c)
       \/ Deliver(c)
  \/ LocalJoin \/ LocalChange \/ ServerClose

Fairness == \A c \in Clients :
              WF_vars(Enqueue(c)) /\ WF_vars(ServerReceives(c)) /\ WF_vars(ClientReceives(c))
Spec == Init /\ [][Next]_vars /\ Fairness

(***************************************************************************)
(* Properties                                                              *)
(***************************************************************************)
Quiet(c) == up[c] = <<>> /\ down[c] = <<>> /\ srv.queue[c] = <<>>
Table(users) == [i \in DOMAIN users |-> <<users[i].name, users[i].status>>]

\* Once everything sent has arrived, a running client knows exactly the users the
\* server knows, with their status, and the users it holds for its own are the
\* ones of its subscription: synchronization, user-join, user-rejoin,
\* user-status-change and the removal of a member never contradict each other,
\* whatever is joined, left or changed while a client is being synchronized.
UsersAgree ==
  \A c \in Clients : cl[c].status = "running" /\ Quiet(c) =>
    /\ c \in DOMAIN srv.subs
    /\ Table(cl[c].users) = Table(srv.users)
    /\ {i \in DOMAIN cl[c].users : cl[c].users[i].own /\ Available(srv, i)} = srv.subs[c]

\* No client ever sees a message that it does not expect where it is: none fails a
\* synchronization with sync-error, none emits the session's error signal.
NoProtocolError == \A c \in Clients : ~cl[c].err

\* The proxy calls itself idle, so that the directory saves and frees the session,
\* only when nobody is subscribed or being synchronized, and it does so as soon
\* as nobody is and no local user is left.
IdleExact ==
  /\ srv.idle => DOMAIN srv.subs = {} /\ DOMAIN srv.syncs = {}
  /\ ~InUse(srv) => srv.idle \/ srv.closed

\* Whatever happens during a synchronization, both sides stay in step.
SessionSound == UsersAgree /\ NoProtocolError /\ IdleExact

\* Once the applications do nothing new, no client is left waiting: one that has asked
\* for the session gets it or is told that it does not, none stays in SYNCHRONIZING,
\* and every user-join request is finished.
WaitsEnd ==
  <>[](\A c \in Clients : cl[c].status \in {"none", "running"} /\ cl[c].reqs = {})

\* A connection that is subscribed is synchronized first (infd_session_proxy_subscribe_to).
\* A client that was put out of the session while the server waits for its
\* acknowledgement has not been forgotten by inf_session_synchronize_to: when it comes
\* back it is subscribed without a synchronization.
SubscribingSynchronizes ==
  [][\A c \in Clients : c \in DOMAIN srv'.subs \ DOMAIN srv.subs =>
        \E k \in DOMAIN srv'.queue[c] : srv'.queue[c][k].tag = "sync-begin"]_vars

\* A budget that lets the client that was put out come back.
KickedBudgets == {<<1, 1, 1>>}
===============================================================================
