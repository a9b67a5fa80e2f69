------------------------------- MODULE MCSession -------------------------------
(***************************************************************************)
(* The two layers of the session of a document: the sessions of the adOPTed *)
(* algorithm, which exchange requests, and the subscription of clients with *)
(* their users.  They share no variables, so one run checks them side by    *)
(* side: part says which one a behaviour is about.                          *)
(***************************************************************************)
EXTENDS AdoptedSession

CONSTANTS c1, c2, n1, n2, nobody

VARIABLES part, srv, cl, upward, downward, left

\* Two users at one client, one at the server, none at the other client.
MCHome == [u \in Users |-> IF u = 3 THEN Server ELSE "a"]
MCRequests == <<1, 0, 2>>

\* Either a client is put out of the session by the server, or it comes back after
\* it has left or its connection was lost.
Service == INSTANCE SessionService WITH
             None <- nobody, Clients <- {c1, c2}, Names <- {n1, n2},
             Budgets <- {<<1, 0, 3>>, <<0, 1, 2>>}, up <- upward, down <- downward

serviceVars == <<srv, cl, upward, downward, left>>

SessionInit ==
  /\ part \in {"requests", "service"}
  /\ Init /\ Service!Init
  /\ part = "requests" => left.kick = 0
SessionNext ==
  /\ UNCHANGED part
  /\ \/ part = "requests" /\ Next /\ UNCHANGED serviceVars
     \/ part = "service" /\ Service!Next /\ UNCHANGED vars

\* The modules assume that each site and each connection goes on; that some site and some
\* connection does is weaker, and enough for these instances.
SessionFairness ==
  /\ WF_vars(part = "requests" /\ \E s \in Sites : MainLoop(s))
  /\ WF_serviceVars(part = "service" /\ \E c \in {c1, c2} : Service!Deliver(c))
SessionSpec ==
  /\ SessionInit
  /\ [][SessionNext]_<<part, vars, serviceVars>>
  /\ SessionFairness

(***************************************************************************)
(* The properties of the parts; those of AdoptedSession have their own      *)
(* names.                                                                  *)
(***************************************************************************)
\* SessionService: whatever happens during a synchronization, both sides stay in step.
SessionSound == Service!SessionSound
\* SessionService: no client is left waiting.
WaitsEnd == Service!WaitsEnd
================================================================================
