--------------------------- MODULE MCCommunication ---------------------------
(***************************************************************************)
(* Two clients, the directory's group and the group of a session.          *)
(***************************************************************************)
EXTENDS Communication

CONSTANTS c1, c2, home, session

Budget(clients, senders, send, add, remove, close, cancel) ==
  [clients |-> clients, senders |-> senders, send |-> send, add |-> add, remove |-> remove,
   close |-> close, cancel |-> cancel]

\* One client, first without and then with failures: queues fill, the connection leaves and
\* comes back.  Two clients: messages are forwarded.
MCBudgets == {Budget({c1}, {<<"host", c1>>}, 4, 3, 1, 0, 0),
              Budget({c1}, {<<"host", c1>>}, 3, 1, 0, 1, 1),
              Budget({c1, c2}, {<<"client", c1>>, <<"host", c2>>}, 2, 3, 0, 0, 0)}
=============================================================================
