------------------------------ MODULE XmppLink ------------------------------
(***************************************************************************)
(* The two ends of an XMPP connection and the TCP stream between them,     *)
(* from the connection attempt to the close.  A closed connection is not   *)
(* opened again.                                                           *)
(***************************************************************************)
EXTENDS XmppConnection

CONSTANTS Setups,     \* the ends' policies, mechanisms and callbacks
          Budgets     \* how often each operation may happen

\* inf_xmpp_connection_set_tcp's security-policy, and the operations that have a budget
Policies == {"only_unsecured", "only_tls", "prefer_unsecured", "prefer_tls"}
Operations == {"client", "server", "send", "fail", "untrusted", "retry", "error", "more",
               "reset"}

ASSUME SetupsAssumption ==
  Setups \subseteq [client : Policies, server : Policies, suits : BOOLEAN, verifies : BOOLEAN]
ASSUME BudgetsAssumption == Budgets \subseteq [Operations -> Nat]

VARIABLES conn,     \* the ends, records of XmppConnection
          link,     \* what an end wrote and the other has not received
          left      \* what is left of the budget

vars == <<conn, link, left>>

Sites == {"client", "server"}
Other(s) == IF s = "client" THEN "server" ELSE "client"

\* inf_xmpp_connection_new: the client's TCP connection is being opened; the server's end is
\* made from a connection that infd-tcp-server.c accepted.
Start(site, policy, suits, verifies) ==
  [site |-> site, policy |-> policy, suits |-> suits, verifies |-> verifies,
   st |-> IF site = "client" THEN "connecting" ELSE "connected", tls |-> FALSE, sasl |-> "none",
   wait |-> FALSE, nested |-> FALSE, tcp |-> IF site = "client" THEN "connecting" ELSE "connected",
   out |-> <<>>, pos |-> 0, msgs |-> <<>>, told |-> {}, got |-> <<>>, bad |-> FALSE,
   fault |-> 0, parsing |-> FALSE]

Init ==
  /\ \E p \in Setups :
       conn = [s \in Sites |-> IF s = "client" THEN Start(s, p.client, p.suits, p.verifies)
                                               ELSE Start(s, p.server, TRUE, FALSE)]
  /\ link = [s \in Sites |-> <<>>]
  /\ left \in Budgets

Spend(op) == left[op] > 0 /\ left' = [left EXCEPT ![op] = @ - 1]

\* The end X at the begin of a handler: all that the handler sends can be written or queued,
\* or nothing is queued and one of the three sends that a handler makes at most fails.
Attempts(X, parsing) ==
  {X} \cup {[X EXCEPT !.fault = n, !.parsing = parsing] :
              n \in IF X.out = <<>> /\ X.tcp # "closed" THEN 1..3 ELSE {}}

\* An end's new record, if the send that was to fail was made.  Its socket is closed when its
\* owner drops the closed connection.
Becomes(s, X) ==
  /\ X.fault <= 0
  /\ conn' = [conn EXCEPT ![s] = X]
  /\ link' = [link EXCEPT ![s] = IF X.tcp = "closed" /\ conn[s].tcp # "closed"
                                 THEN Append(@, Unit("fin")) ELSE @]

(***************************************************************************)
(* TCP                                                                     *)
(***************************************************************************)
TcpConnected ==
  /\ conn["client"].tcp = "connecting"
  /\ \E C \in Attempts(conn["client"], FALSE) : Becomes("client", Connected(C))
  /\ UNCHANGED left

\* inf_tcp_connection_io_outgoing, or as much as inf_tcp_connection_send writes at once
Write(s) ==
  /\ conn[s].tcp = "connected"
  /\ \E n \in 1..Len(conn[s].out) :
       LET X == Written(conn[s], n)
       IN  /\ conn' = [conn EXCEPT ![s] = X]
           /\ link' = [link EXCEPT ![s] = @ \o SubSeq(conn[s].out, 1, n) \o
                                          (IF X.tcp = "closed" THEN <<Unit("fin")>> ELSE <<>>)]
  /\ UNCHANGED left

\* The client learns of a close before it is connected as a failed connection attempt.
Read(s) ==
  /\ conn[s].tcp = "connected" /\ link[Other(s)] # <<>>
  /\ LET e == Head(link[Other(s)])
     IN  \E outcome \in {"ok", "fail", "untrusted", "retry"} :
           /\ IF outcome = "ok" THEN UNCHANGED left ELSE Spend(outcome)
           /\ outcome \in {"fail", "untrusted"} => conn[s].st = "handshaking"
           /\ outcome = "untrusted" => e.k \in {"finished", "done"}
           /\ outcome = "retry" => e.k = "failure" /\ conn[s].st = "authenticating" /\ s = "client"
           /\ \E C \in Attempts(conn[s], TRUE) :
                LET X == Receive(C, e, outcome)
                IN  /\ X.fault <= 0
                    /\ conn' = [conn EXCEPT ![s] = X]
                    /\ link' = [link EXCEPT ![Other(s)] = Tail(@),
                                            ![s] = IF X.tcp = "closed" THEN Append(@, Unit("fin")) ELSE @]

\* inf_tcp_connection_connection_error without a further address to try,
\* inf_tcp_connection_error
TcpError(s) ==
  /\ Spend("error") /\ conn[s].tcp # "closed"
  /\ Becomes(s, TcpClose(conn[s]))

(***************************************************************************)
(* The applications                                                        *)
(***************************************************************************)
\* Closing a connection that waits for the answer to starttls, or that has no TLS session
\* between two streams, has no effect that could end it: see README.
AppClose(s) ==
  /\ Spend(s)
  /\ conn[s].st \notin Closing \cup {"closed", "encryption_requested"}
  /\ conn[s].st \in {"connected", "auth_connected"} => conn[s].tls
  /\ ~conn[s].bad
  /\ \E C \in Attempts(conn[s], FALSE) : Becomes(s, Close(C))

AppSend(s) ==
  /\ conn[s].st = "ready"
  /\ Spend("send")
  /\ \E C \in Attempts(conn[s], FALSE) : Becomes(s, Send(C, left["send"]))

SaslAnswers(s) ==
  /\ conn[s].sasl = "busy" /\ ~conn[s].bad
  /\ \E outcome \in {"more", "done", "error"} :
       /\ IF outcome = "done" THEN UNCHANGED left ELSE Spend(outcome)
       /\ \E C \in Attempts(conn[s], FALSE) : Becomes(s, SaslResult(C, outcome))

Verify(s) ==
  /\ conn[s].wait /\ ~conn[s].bad
  /\ \E C \in Attempts(conn[s], FALSE) : \/ Becomes(s, VerifyContinue(C))
                                        \/ Becomes(s, VerifyCancel(C))
  /\ UNCHANGED left

\* The server resets a session only while it waits for the client: see README.
Reset(s) ==
  /\ conn[s].st = "authenticating" /\ conn[s].sasl # "none"
  /\ s = "server" => conn[s].sasl = "idle"
  /\ ~conn[s].bad
  /\ Spend("reset")
  /\ \E C \in Attempts(conn[s], FALSE) : Becomes(s, ResetSasl(C))

Next ==
  \/ TcpConnected
  \/ \E s \in Sites : Write(s) \/ Read(s) \/ TcpError(s) \/ AppClose(s) \/ AppSend(s)
                      \/ SaslAnswers(s) \/ Verify(s) \/ Reset(s)

\* TCP connects, writes and delivers, the SASL context and the user answer.
Fairness ==
  /\ WF_vars(TcpConnected)
  /\ \A s \in Sites : WF_vars(Write(s)) /\ WF_vars(Read(s)) /\ WF_vars(SaslAnswers(s))
                      /\ WF_vars(Verify(s))

Spec == Init /\ [][Next]_vars /\ Fairness

(***************************************************************************)
(* What a connection promises                                              *)
(***************************************************************************)
\* No assertion of inf-xmpp-connection.c fails, and no message reaches an end that does not
\* expect messages yet, in whatever order the ends close, fail, abort or retry, unless a
\* handler goes on after one of its sends has failed.
NoAssertion == \A s \in Sites : conn[s].bad => conn[s].fault < 0


\* Ends that exchange messages agree whether TLS is in use, and it is in use if one of them
\* insists on it and not if one of them refuses it.
PolicyRespected ==
  \A s \in Sites : conn[s].st = "ready" =>
    /\ (\E t \in Sites : conn[t].policy = "only_tls") => conn[s].tls
    /\ (\E t \in Sites : conn[t].policy = "only_unsecured") => ~conn[s].tls
    /\ conn[Other(s)].st = "ready" => conn[s].tls = conn[Other(s)].tls

\* The position is what TCP has yet to write, and every message of the list ends where it
\* says: "sent" is reported when the last byte is written, neither earlier nor later.
PositionExact ==
  \A s \in Sites :
    LET X == conn[s]
    IN  X.fault = 0 =>
        /\ X.pos = Len(X.out)
        /\ \A i \in DOMAIN X.msgs : X.msgs[i].id # 0 => X.out[X.msgs[i].pos] = Payload(X.msgs[i].id)[2]
        /\ \A j \in DOMAIN X.out : X.out[j].id \notin X.told

\* In whatever order the two layers open, fail and close, the connection is what it says.
ConnectionSound == NoAssertion /\ PolicyRespected /\ PositionExact

\* Both ends closed without being asked to by the other one: nobody closes TCP.
Deaf == \A s \in Sites : conn[s].st = "closing_gnutls"

\* The status that a handler has set after one of its sends had failed stays.
Overwritten(s) == conn[s].fault < 0 /\ conn[s].st # "closed"

\* An attempt to connect and a close both come to an end, whatever is lost.
Settles ==
  \A s \in Sites : (conn[s].st \notin {"ready", "closed"}) ~>
                     (conn[s].st \in {"ready", "closed"} \/ Deaf \/ Overwritten(s))
=============================================================================
