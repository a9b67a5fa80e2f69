------------------------------- MODULE MCServer -------------------------------
(***************************************************************************)
(* The two ends of an XMPP connection, with every pair of policies that     *)
(* matters and budgets that let one or two things go wrong at a time, and   *)
(* the server with its plugins.  They share no variables, so one run checks *)
(* them side by side: part says which one a behaviour is about.             *)
(***************************************************************************)
EXTENDS XmppLink

CONSTANTS c1, n1, u1

VARIABLES part, server, edits, faults, reloads

Setup(initiator, acceptor, suits, verifies) ==
  [client |-> initiator, server |-> acceptor, suits |-> suits, verifies |-> verifies]

\* The verification of a certificate matters where TLS may be used.
MCSetups ==
  {Setup(i, a, TRUE, v) : i \in {"only_tls", "prefer_unsecured", "prefer_tls"},
                          a \in {"only_tls", "prefer_tls"}, v \in BOOLEAN}
    \cup {Setup("only_unsecured", a, TRUE, FALSE) : a \in {"only_unsecured", "only_tls", "prefer_tls"}}
    \cup {Setup(i, "only_unsecured", TRUE, FALSE) : i \in {"only_tls", "prefer_unsecured", "prefer_tls"}}
    \cup {Setup("prefer_tls", "prefer_tls", FALSE, FALSE)}

Zero == [client |-> 0, server |-> 0, send |-> 0, fail |-> 0, untrusted |-> 0, retry |-> 0,
         error |-> 0, more |-> 0, reset |-> 0]

MCBudgets ==
  {[Zero EXCEPT !.client = 1, !.server = 1], [Zero EXCEPT !.server = 1, !.send = 2],
   [Zero EXCEPT !.more = 1, !.error = 2, !.retry = 1, !.client = 1],
   [Zero EXCEPT !.more = 1, !.reset = 1, !.retry = 1, !.server = 1],
   [Zero EXCEPT !.fail = 1, !.untrusted = 1, !.server = 1]}

\* Two configurations that between them name every kind of plugin.
MCPlans ==
  {<<"note-text", "autosave", "directory-sync", "linekeeper", "record", "traffic-logging", "logging">>,
   <<"autosave", "transformation-protection", "certificate-auth", "note-text">>}

Plugins == INSTANCE PluginManager WITH
             Conns <- {c1}, Notes <- {n1}, Users <- {u1}, Plans <- MCPlans, Keep <- 1,
             Bodies <- {0, 1}, Edits <- 2, Faults <- 1, Reloads <- 2
pluginVars == <<server, edits, faults, reloads>>

ServerVars == <<part, vars, pluginVars>>
ServerInit ==
  /\ part \in {"connection", "plugins"}
  /\ Init /\ Plugins!Init
  /\ part = "plugins" => /\ left["send"] = 2 /\ ~conn["client"].verifies
                         /\ \A s \in Sites : conn[s].policy = "only_tls"
ServerNext ==
  /\ UNCHANGED part
  /\ \/ part = "connection" /\ Next /\ UNCHANGED pluginVars
     \/ part = "plugins" /\ Plugins!Next /\ UNCHANGED vars

\* XmppLink assumes that each of TCP, the SASL contexts and the users goes on; that some of them
\* does is weaker, and enough for these instances.
ServerFairness ==
  /\ WF_vars(part = "connection" /\ (\/ TcpConnected
                                    \/ \E s \in Sites : Write(s) \/ Read(s) \/ SaslAnswers(s) \/ Verify(s)))
  /\ \A n \in {n1} :
       /\ WF_pluginVars(part = "plugins" /\ \E o \in Plugins!Outcomes : Plugins!AutosaveTimeout(n, o))
       /\ WF_pluginVars(part = "plugins" /\ \E o \in Plugins!Outcomes : Plugins!SyncTimeout(n, o))
       /\ WF_pluginVars(part = "plugins" /\ Plugins!KeeperDispatch(n))
ServerSpec == ServerInit /\ [][ServerNext]_ServerVars /\ ServerFairness

\* An attempt to connect and a close both come to an end, whatever is lost.
ConnectionSettles == part = "connection" => Settles
\* What the plugins keep is what they look after.
PluginsSound == Plugins!PluginsSound
\* "Another save attempt will be made when the server is shut down": a document that was open
\* when the server ends has been saved.
SavedAtShutdown == Plugins!SavedAtShutdown
\* A modified document is saved in the end, while its session and the plugin stay.
SavedInTheEnd == Plugins!SavedInTheEnd
===============================================================================
