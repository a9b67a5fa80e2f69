------------------------------- MODULE Discovery -------------------------------
(***************************************************************************)
(* Servers that are announced in the local network, and the search for     *)
(* such servers: infd-tcp-server.c, infd-xmpp-server.c, infd-server-pool.c *)
(* and inf-discovery-avahi.c, whose client of the Avahi daemon does both.  *)
(* The daemon, its entry groups, browsers and resolvers are external.      *)
(***************************************************************************)
EXTENDS Naturals, Sequences, FiniteSets, TLC

CONSTANTS Servers,    \* servers of this program
          Services,   \* services others announce
          Address,    \* service -> address it resolves to
          Resolves,   \* calls of inf_discovery_resolve
          Nothing,
          Faults      \* how often the environment changes or fails

VARIABLES tcp,      \* tcp[s]: status of the TCP server
          pool,     \* pool[s]: entry of the server: in the pool, its item (name, group)
          reached,  \* connections accepted by s that the directory has
          daemon,   \* state of the client, as avahi_client_get_state tells it
          clients,  \* number of clients that were created
          avail,    \* services announced in the network
          browse,   \* the browser: wanted, running
          infos,    \* service -> InfDiscoveryInfo
          xmpp,     \* address -> status of the connection, Nothing if there is none
          answered, \* request -> how often its callback was called
          asked,    \* request -> the service it is for, Nothing if not made
          faults
discoveryVars == <<tcp, pool, reached, daemon, clients, avail, browse, infos, xmpp, answered, asked, faults>>
serverVars == <<tcp, pool, reached>>
clientVars == <<avail, browse, infos, xmpp, answered, asked>>

Addresses == {Address[v] : v \in Services}
\* An item without a name is no item.  group: there is no entry group, it is empty,
\* its service is announced; refused: the daemon failed at it since it was last put.
NoItem == [name |-> 0, group |-> "none", refused |-> FALSE]
NewItem == [NoItem EXCEPT !.name = 1]
Init ==
  /\ tcp = [s \in Servers |-> "closed"]
  /\ pool = [s \in Servers |-> [in |-> FALSE, local |-> FALSE, item |-> NoItem]]
  /\ reached = [s \in Servers |-> 0]
  /\ daemon = "connecting" /\ clients = 1 /\ avail = {}
  /\ browse = [wanted |-> FALSE, running |-> FALSE] /\ infos = <<>>
  /\ xmpp = [a \in Addresses |-> Nothing]
  /\ answered = [r \in Resolves |-> 0] /\ asked = [r \in Resolves |-> Nothing] /\ faults = 0

Fault == faults < Faults /\ faults' = faults + 1

(***************************************************************************)
(* Publishing                                                              *)
(***************************************************************************)
\* inf_discovery_avahi_entry_group_add_service and the commit, whose result is not
\* looked at: the name is changed until there is no collision with the names taken;
\* if the daemon refuses either the entry group remains, empty.
AddService(item, taken, ok) ==
  [name |-> CHOOSE n \in item.name..item.name + Cardinality(Servers) :
              n \notin taken /\ \A k \in item.name..n - 1 : k \in taken,
   group |-> IF ok THEN "announced" ELSE "empty", refused |-> ~ok]
\* inf_discovery_avahi_perform_publish_item
PublishItem(item, taken, ok) == IF item.group # "none" THEN item ELSE AddService(item, taken, ok)
\* inf_discovery_avahi_perform_unpublish_item
UnpublishItem(item) == [item EXCEPT !.group = "none"]

Taken(p) == {p[s].item.name : s \in {t \in Servers : p[t].item.group = "announced"}}

\* infd_server_pool_entry_publish_with, inf_discovery_avahi_publish
PublishWith(p, s, running, ok) ==
  IF p[s].item # NoItem \/ ~p[s].local THEN p
  ELSE [p EXCEPT ![s].item = IF running THEN PublishItem(NewItem, Taken(p), ok) ELSE NewItem]
\* infd_server_pool_entry_unpublish_with, inf_discovery_avahi_unpublish
UnpublishWith(p, s) == [p EXCEPT ![s].item = NoItem]

\* A variant for the mutation checks: a server that is bound counts as open.
NotifyStatusBound(p, s, status, ok) ==
  IF ~p[s].in THEN p
  ELSE IF status # "closed" THEN PublishWith(p, s, daemon = "running", ok) ELSE UnpublishWith(p, s)

\* infd_xmpp_server_notify_status_cb and infd_server_pool_notify_status_cb
NotifyStatus(p, s, status, ok) ==
  IF ~p[s].in THEN p
  ELSE IF status = "open" THEN PublishWith(p, s, daemon = "running", ok) ELSE UnpublishWith(p, s)

\* ok: the daemon takes what it is given in this step.
Taking(ok) == IF ok THEN UNCHANGED faults ELSE Fault
TcpStatus(s, status, ok) ==
  /\ tcp' = [tcp EXCEPT ![s] = status]
  /\ pool' = NotifyStatus(pool, s, status, ok) /\ Taking(ok)
  /\ UNCHANGED <<reached, daemon, clients, clientVars>>

\* infd_tcp_server_bind
Bind(s) == tcp[s] = "closed" /\ TcpStatus(s, "bound", TRUE)
\* infd_tcp_server_open, which binds the server first if it has to be; if it
\* fails the server is as it was.
Open(s, ok) == tcp[s] # "open" /\ TcpStatus(s, "open", ok)
\* infd_tcp_server_close; infd_xmpp_server_xml_server_close
Close(s) == tcp[s] # "closed" /\ TcpStatus(s, "closed", TRUE)

\* infd_tcp_server_io: connections are accepted until there is none; an error,
\* also of accept itself, closes the server.  infd_xmpp_server_new_connection_cb
\* and infd_server_pool_new_connection_cb hand them to the directory.
Accept(s, n, error) ==
  /\ tcp[s] = "open" /\ Fault
  /\ reached' = [reached EXCEPT ![s] = IF pool[s].in THEN @ + n ELSE @]
  /\ tcp' = [tcp EXCEPT ![s] = IF error THEN "closed" ELSE @]
  /\ pool' = IF error THEN NotifyStatus(pool, s, "closed", TRUE) ELSE pool
  /\ UNCHANGED <<daemon, clients, clientVars>>

\* infd_server_pool_add_server
AddServer(s) ==
  /\ ~pool[s].in
  /\ pool' = [pool EXCEPT ![s].in = TRUE]
  /\ UNCHANGED <<tcp, reached, daemon, clients, faults, clientVars>>
\* infd_server_pool_add_local_publisher
AddLocalPublisher(s, ok) ==
  LET p == [pool EXCEPT ![s].local = TRUE]
  IN  /\ pool[s].in /\ ~pool[s].local
      /\ pool' = IF tcp[s] = "open" THEN PublishWith(p, s, daemon = "running", ok) ELSE p
      /\ Taking(ok)
      /\ UNCHANGED <<tcp, reached, daemon, clients, clientVars>>
\* infd_server_pool_remove_server, infd_server_pool_entry_free
RemoveServer(s) ==
  /\ pool[s].in
  /\ pool' = [pool EXCEPT ![s] = [in |-> FALSE, local |-> FALSE, item |-> NoItem]]
  /\ UNCHANGED <<tcp, reached, daemon, clients, faults, clientVars>>

\* inf_discovery_avahi_entry_group_callback.  Another host has the name, the service
\* gets the next one; the entry group fails, it is removed.
Collision(s, ok) ==
  /\ pool[s].item.group = "announced" /\ Fault
  /\ pool' = [pool EXCEPT ![s].item = AddService([@ EXCEPT !.name = @ + 1],
                                                Taken([pool EXCEPT ![s].item = NoItem]), ok)]
  /\ UNCHANGED <<tcp, reached, daemon, clients, clientVars>>
EntryGroupFailure(s) ==
  /\ pool[s].item.group # "none" /\ Fault
  /\ pool' = [pool EXCEPT ![s].item = UnpublishItem([@ EXCEPT !.refused = TRUE])]
  /\ UNCHANGED <<tcp, reached, daemon, clients, clientVars>>

(***************************************************************************)
(* Discovering                                                             *)
(***************************************************************************)
\* The callbacks of the requests rs are called.
Answer(ans, rs) == [r \in Resolves |-> IF r \in rs THEN ans[r] + 1 ELSE ans[r]]
Waiting(fs) == UNION {fs[v].resolv : v \in DOMAIN fs}

\* A variant for the mutation checks: who waits is not told.
InfoFreeSilently(fs, ans, vs) ==
  [infos |-> [v \in DOMAIN fs \ vs |-> fs[v]], answered |-> ans]

\* inf_discovery_avahi_discovery_info_free of the infos of vs; who waits is told
\* that there is no connection.
InfoFree(fs, ans, vs) ==
  [infos |-> [v \in DOMAIN fs \ vs |-> fs[v]],
   answered |-> Answer(ans, UNION {fs[v].resolv : v \in vs \intersect DOMAIN fs})]

\* inf_discovery_avahi_discover
Discover ==
  /\ ~browse.wanted
  /\ browse' = [wanted |-> TRUE, running |-> daemon = "running"]
  /\ UNCHANGED <<serverVars, daemon, clients, avail, infos, xmpp, answered, asked, faults>>

\* inf_discovery_avahi_service_browser_callback: a service has come or gone.
BrowserNew(v) ==
  /\ browse.running /\ v \in avail \ DOMAIN infos
  /\ infos' = (v :> [resolver |-> FALSE, resolved |-> FALSE, resolv |-> {}]) @@ infos
  /\ UNCHANGED <<serverVars, daemon, clients, avail, browse, xmpp, answered, asked, faults>>
BrowserRemove(v) ==
  LET f == InfoFree(infos, answered, {v})
  IN  /\ browse.running /\ v \in DOMAIN infos \ avail
      /\ infos' = f.infos /\ answered' = f.answered
      /\ UNCHANGED <<serverVars, daemon, clients, avail, browse, xmpp, asked, faults>>

\* inf_discovery_avahi_perform_undiscover, also if the browser fails.
Undiscover ==
  LET f == InfoFree(infos, answered, DOMAIN infos)
  IN  infos' = f.infos /\ answered' = f.answered /\ browse' = [browse EXCEPT !.running = FALSE]
BrowserFailure ==
  /\ browse.running /\ Fault
  /\ Undiscover
  /\ UNCHANGED <<serverVars, daemon, clients, avail, xmpp, asked>>

\* What the application is given for the connection to address a: it is opened if
\* it is closed, there is none if it is closing.
Usable(a, opens) == xmpp[a] = "open" \/ (xmpp[a] \in {"closed", Nothing} /\ opens)
Opened(a, opens) ==
  [xmpp EXCEPT ![a] = IF xmpp[a] \in {"closed", Nothing} /\ opens THEN "open" ELSE @]

\* inf_discovery_avahi_resolve: the application calls it while the client runs,
\* as the code asserts; its callback does not call it again.  If the resolver cannot
\* be created everyone who waits is told the error (unless the program ends where
\* the code asks the resolver it has not got for its client).
Resolve(r, v, opens, created) ==
  LET a == Address[v]
  IN  /\ asked[r] = Nothing /\ v \in DOMAIN infos /\ daemon = "running"
      /\ asked' = [asked EXCEPT ![r] = v]
      /\ IF infos[v].resolved
         THEN /\ answered' = Answer(answered, {r}) /\ xmpp' = Opened(a, opens)
              /\ created /\ UNCHANGED infos
         ELSE IF created
         THEN /\ infos' = [infos EXCEPT ![v].resolv = @ \union {r}, ![v].resolver = TRUE]
              /\ UNCHANGED <<answered, xmpp>>
         ELSE /\ ~infos[v].resolver
              /\ answered' = Answer(answered, infos[v].resolv \union {r})
              /\ infos' = [infos EXCEPT ![v].resolv = {}]
              /\ UNCHANGED xmpp
      /\ Taking(created)
      /\ UNCHANGED <<serverVars, daemon, clients, avail, browse>>

\* inf_discovery_avahi_service_resolver_callback: a connection to the address is
\* looked for in the manager or made; if it cannot be opened there is none.
ResolverCallback(v, found, opens) ==
  LET a == Address[v]
  IN  /\ v \in DOMAIN infos /\ infos[v].resolver
      /\ infos' = [infos EXCEPT ![v].resolver = FALSE, ![v].resolved = found /\ (xmpp[a] # Nothing \/ opens),
                                ![v].resolv = {}]
      /\ answered' = Answer(answered, infos[v].resolv)
      /\ xmpp' = IF found THEN Opened(a, opens) ELSE xmpp
      /\ UNCHANGED <<serverVars, daemon, clients, avail, browse, asked, faults>>

(***************************************************************************)
(* The environment                                                         *)
(***************************************************************************)
\* Services come and go.
Announce(v) ==
  /\ Fault
  /\ avail' = IF v \in avail THEN avail \ {v} ELSE avail \union {v}
  /\ UNCHANGED <<serverVars, daemon, clients, browse, infos, xmpp, answered, asked>>
\* A connection is being closed, is closed, or, the last reference gone, is
\* destroyed: inf_discovery_avahi_discovery_info_resolved_destroy_cb.
XmppChange(a, status) ==
  /\ xmpp[a] # Nothing /\ status # xmpp[a] /\ Fault
  /\ xmpp' = [xmpp EXCEPT ![a] = status]
  /\ infos' = [v \in DOMAIN infos |->
                 [infos[v] EXCEPT !.resolved = @ /\ ~(status = Nothing /\ Address[v] = a)]]
  /\ UNCHANGED <<serverVars, daemon, clients, avail, browse, answered, asked>>

\* inf_discovery_avahi_client_callback
RECURSIVE PublishAll(_, _, _)
PublishAll(p, ss, ok) ==
  IF ss = {} THEN p
  ELSE LET s == CHOOSE t \in ss : TRUE
       IN  PublishAll([p EXCEPT ![s].item = IF @ = NoItem THEN @ ELSE PublishItem(@, Taken(p), ok[s])],
                      ss \ {s}, ok)
ClientRunning(ok) ==
  /\ daemon \in {"connecting", "registering"}
  /\ daemon' = "running"
  /\ pool' = PublishAll(pool, Servers, ok) /\ Taking(\A s \in Servers : ok[s])
  /\ browse' = [browse EXCEPT !.running = browse.wanted]
  /\ UNCHANGED <<tcp, reached, clients, avail, infos, xmpp, answered, asked>>
ClientRegistering ==
  /\ daemon = "running" /\ Fault
  /\ daemon' = "registering"
  /\ UNCHANGED <<serverVars, clients, clientVars>>
\* Everything is withdrawn; a new client is made unless the daemon is gone (or it
\* cannot be, which leaves the same state).
ClientFailure(disconnected) ==
  /\ daemon \in {"connecting", "registering", "running"} /\ Fault
  /\ pool' = [s \in Servers |-> [pool[s] EXCEPT !.item = UnpublishItem(@)]]
  /\ Undiscover
  /\ daemon' = IF disconnected THEN "failure" ELSE "connecting"
  /\ clients' = IF disconnected THEN clients ELSE clients + 1
  /\ UNCHANGED <<tcp, reached, avail, xmpp, asked>>

Callbacks == \E v \in Services, found, opens \in BOOLEAN : ResolverCallback(v, found, opens)
Next ==
  \/ \E s \in Servers : \/ Bind(s) \/ Close(s) \/ AddServer(s) \/ RemoveServer(s) \/ EntryGroupFailure(s)
                        \/ \E ok \in BOOLEAN : Open(s, ok) \/ AddLocalPublisher(s, ok) \/ Collision(s, ok)
                        \/ \E n \in 0..1, error \in BOOLEAN : (n > 0 \/ error) /\ Accept(s, n, error)
  \/ Discover \/ BrowserFailure \/ Callbacks
  \/ \E v \in Services : \/ BrowserNew(v) \/ BrowserRemove(v) \/ Announce(v)
                         \/ \E r \in Resolves, opens, created \in BOOLEAN : Resolve(r, v, opens, created)
  \/ \E a \in Addresses, status \in {"closing", "closed", Nothing} : XmppChange(a, status)
  \/ \E ok \in [Servers -> BOOLEAN] : ClientRunning(ok)
  \/ ClientRegistering \/ \E d \in BOOLEAN : ClientFailure(d)
Fairness == WF_discoveryVars(Callbacks)
Spec == Init /\ [][Next]_discoveryVars /\ Fairness

(***************************************************************************)
(* Properties                                                              *)
(***************************************************************************)
\* A server is published exactly while it is open and in the pool with a publisher: one
\* that is closed by an error is withdrawn, one that was opened while the daemon could
\* not be reached is announced when it can.  While the client runs all that is published
\* is announced, each server under a name of its own, but what the daemon itself failed
\* at; a new client announces that again.
PublishedExact ==
  /\ \A s \in Servers :
       /\ (pool[s].item # NoItem) = (pool[s].in /\ pool[s].local /\ tcp[s] = "open")
       /\ daemon = "running" /\ pool[s].item # NoItem =>
            (pool[s].item.group = "announced") = ~pool[s].item.refused
       /\ daemon \in {"connecting", "failure"} => pool[s].item.group = "none"
  /\ \A s, t \in Servers : s # t /\ pool[s].item.group = "announced" /\ pool[t].item.group = "announced"
       => pool[s].item.name # pool[t].item.name

\* A call of inf_discovery_resolve is answered at most once; one that is not
\* waits in the info of its service, whose resolver runs.
AnsweredOnce ==
  /\ \A r \in Resolves :
       /\ answered[r] + Cardinality({v \in DOMAIN infos : r \in infos[v].resolv})
            = (IF asked[r] = Nothing THEN 0 ELSE 1)
       /\ \A v \in DOMAIN infos : r \in infos[v].resolv => asked[r] = v /\ infos[v].resolver
  /\ infos # <<>> => browse.running
  /\ browse.running => daemon \in {"running", "registering"}

\* It is answered.
ResolveAnswered == \A r \in Resolves : asked[r] # Nothing ~> answered[r] = 1
================================================================================
