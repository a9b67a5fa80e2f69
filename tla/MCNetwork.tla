------------------------------- MODULE MCNetwork -------------------------------
(***************************************************************************)
(* The main loop, asynchronous operations, the threads of authentication,   *)
(* TCP connections, the manager of the connections and the discovery, each  *)
(* on its own small instance.  They share no variables, so one run checks   *)
(* them side by side: part says which one a behaviour is about.             *)
(***************************************************************************)
EXTENDS AsyncOperation, StandaloneIo, SaslContext, TLC

CONSTANTS h0, h1, h2, ipa, ipb, x, y, n1, n2, a1, a2, a3, s1, s2, v1, v2, r1, nobody, u1, u2

VARIABLES part,
  tcp, res, done, given, wire, tried, failed, left,
  host, tree, keys, members, gone, changes,
  servers, pool, reached, daemon, clients, avail, browse, infos, xmpp, answered, asked, faults

MCBounds == (u1 :> [start |-> 2, feed |-> 2, ask |-> 2])
            @@ (u2 :> [start |-> 1, feed |-> 1, ask |-> 1])
Tcp == INSTANCE TcpConnection WITH
         Records <- {[host |-> h1, prio |-> 1, weight |-> 1], [host |-> h2, prio |-> 2, weight |-> 0]},
         Host <- h0, Addresses <- (h0 :> <<ipa>>) @@ (h1 :> <<ipa, ipb>>) @@ (h2 :> <<ipb>>),
         Lengths <- {1, 2}, Chunk <- 2,
         Limit <- ("open" :> 2) @@ ("close" :> 1) @@ ("send" :> 2) @@ ("lost" :> 1)
Manager == INSTANCE XmppManager WITH
             Conns <- {x, y}, Names <- {n1, n2}, Addrs <- {a1, a2, a3}, Changes <- 4, Nothing <- nobody
Discovery == INSTANCE Discovery WITH
               Servers <- {s1, s2}, Services <- {v1, v2}, Address <- [v \in {v1, v2} |-> a1],
               Resolves <- {r1}, Faults <- 2, Nothing <- nobody, tcp <- servers

asyncVars == <<memory, field, mutex, worker, main, status, result, queue, weak, io_alive, aborted>>
tcpVars == <<tcp, res, done, given, wire, tried, failed, left>>
managerVars == <<host, tree, keys, members, gone, changes>>
discoveryVars == <<servers, pool, reached, daemon, clients, avail, browse, infos, xmpp, answered,
                   asked, faults>>

Others(p) ==
  /\ p = "io" \/ UNCHANGED loopVars
  /\ p = "async" \/ UNCHANGED asyncVars
  /\ p = "sasl" \/ UNCHANGED saslVars
  /\ p = "tcp" \/ UNCHANGED tcpVars
  /\ p = "manager" \/ UNCHANGED managerVars
  /\ p = "discovery" \/ UNCHANGED discoveryVars

NetworkInit ==
  /\ part \in {"io", "async", "sasl", "tcp", "manager", "discovery"}
  /\ Init /\ LoopInit /\ SaslInit /\ Tcp!Init /\ Manager!Init /\ Discovery!Init
  /\ part # "manager" => \A c \in {x, y} : host[c].name = nobody
NetworkNext ==
  /\ UNCHANGED part
  /\ \/ part = "io" /\ LoopNext
     \/ part = "async" /\ Next
     \/ part = "sasl" /\ SaslNext
     \/ part = "tcp" /\ Tcp!Next
     \/ part = "manager" /\ Manager!Next
     \/ part = "discovery" /\ Discovery!Next
  /\ Others(part)

\* The fairness of each, as its own module states it.
NetworkVars == <<part, loopVars, asyncVars, saslVars, tcpVars, managerVars, discoveryVars>>
NetworkFairness ==
  /\ WF_loopVars(part = "io" /\ Step)
  /\ \A t \in Timeouts : WF_loopVars(part = "io" /\ Expire(t))
  /\ \A o \in Ops : WF_asyncVars(part = "async" /\ Worker(o)) /\ WF_asyncVars(part = "async" /\ Loop(o))
  /\ WF_saslVars(part = "sasl" /\ \E s \in Sessions : Stop(s))
  /\ WF_saslVars(part = "sasl" /\ \E s \in Sessions : StepDone(s))
  /\ \A s \in Sessions :
       WF_saslVars(part = "sasl" /\ Thread(s)) /\ WF_saslVars(part = "sasl" /\ Serve(s))
  /\ WF_tcpVars(part = "tcp" /\ Tcp!Run) /\ WF_tcpVars(part = "tcp" /\ Tcp!Resolved)
  /\ WF_tcpVars(part = "tcp" /\ Tcp!Answer)
  /\ WF_discoveryVars(part = "discovery" /\ Discovery!Callbacks)
NetworkSpec ==
  /\ NetworkInit
  /\ [][NetworkNext]_NetworkVars
  /\ NetworkFairness

(***************************************************************************)
(* The properties of the components                                        *)
(***************************************************************************)
\* TcpConnection, XmppManager: the bytes sent arrive in order, the addresses are tried in
\* their order, and the connection gives up only after all of them, without a socket or
\* after a late error; the manager's tree is exactly the keys of its members.
ConnectionsSound == Tcp!StreamExact /\ Tcp!AttemptExact /\ Manager!KeysExact
\* Discovery: what is published is open, and announced unless the daemon failed at it; a
\* request is answered once.
DiscoverySound == Discovery!PublishedExact /\ Discovery!AnsweredOnce
\* AsyncOperation, SaslContext: no operation that was started is left behind;
\* inf_sasl_context_stop_session returns, and what a session is fed is answered unless it
\* is stopped.
ThreadsEnd == EventuallyFreed /\ StopReturns /\ FeedAnswered
\* StandaloneIo, TcpConnection, Discovery: the loop serves what other threads give it, and
\* ends when it is told to; an attempt to connect ends, a resolve is answered.
NetworkLive == LoopServes /\ Tcp!AttemptEnds /\ Discovery!ResolveAnswered
================================================================================
