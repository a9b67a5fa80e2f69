---------------------------- MODULE Communication ----------------------------
(***************************************************************************)
(* Groups between a host and its clients (inf-communication-group.c and    *)
(* the subclasses, inf-communication-method.c,                             *)
(* inf-communication-central-method.c) over the registry of each side,     *)
(* inf-communication-registry.c.                                           *)
(* The host publishes the groups: a client's group message goes to the     *)
(* host, whose method forwards it to the other members.                    *)
(*                                                                         *)
(* An end <<side, c>> is one side of the connection to client c.           *)
(* Containers of different groups are sent in any order; within a group    *)
(* order is kept.  A connection that closed is not opened again.           *)
(***************************************************************************)
EXTENDS Integers, Sequences, FiniteSets

(***************************************************************************)
(* An entry of a registry: the messages of one group on                    *)
(* one connection.  Only Limit messages are given to the connection at a   *)
(* time (the inner queue, put into one container); the others wait in the  *)
(* entry's queue until these are sent.  An entry that is unregistered with *)
(* messages left stays until they are sent, and its activation count says  *)
(* how many "sent" notifications belong to the registration that is over.  *)
(*                                                                         *)
(* flight holds what the connection was given and has not reported as      *)
(* sent.  It belongs to the connection: it outlives the entry.             *)
(***************************************************************************)
CONSTANT Limit      \* INF_COMMUNICATION_REGISTRY_INNER_QUEUE_LIMIT

ASSUME LimitAssumption == Limit \in Nat \ {0}

\* No entry in the hash table.
NoEntry == [known |-> FALSE, registered |-> FALSE, inner |-> 0, act |-> 0,
            queue |-> <<>>, flight |-> <<>>]

\* inf_communication_registry_send_real: the first n messages of the queue, or all of them,
\* become one container.
SendReal(p, n) ==
  LET k == IF Len(p.queue) < n THEN Len(p.queue) ELSE n
  IN  [p EXCEPT !.queue = SubSeq(@, k + 1, Len(@)), !.inner = @ + k,
                !.flight = @ \o SubSeq(p.queue, 1, k)]

\* inf_communication_registry_entry_free: what is still queued is sent as long as the
\* connection is open.
EntryFree(p, open) ==
  IF open /\ p.queue # <<>>
  THEN [NoEntry EXCEPT !.flight = SendReal(p, Len(p.queue)).flight]
  ELSE [NoEntry EXCEPT !.flight = p.flight]

\* inf_communication_registry_register: a new entry, or one is reactivated.
Register(p) ==
  IF p.known THEN [p EXCEPT !.registered = TRUE]
             ELSE [NoEntry EXCEPT !.known = TRUE, !.registered = TRUE, !.flight = p.flight]

\* A bug: only what the connection was given is counted.
UnregisterInner(p, open) ==
  IF open /\ (p.queue # <<>> \/ p.inner > 0)
  THEN [p EXCEPT !.registered = FALSE, !.act = p.inner]
  ELSE EntryFree(p, open)

\* inf_communication_registry_unregister
Unregister(p, open) ==
  IF open /\ (p.queue # <<>> \/ p.inner > 0)
  THEN [p EXCEPT !.registered = FALSE, !.act = p.inner + Len(p.queue)]
  ELSE EntryFree(p, open)

\* A bug: the message is given to the connection although others wait.
SendPast(p, m) ==
  IF p.inner < Limit THEN [p EXCEPT !.inner = @ + 1, !.flight = Append(@, m)]
                     ELSE [p EXCEPT !.queue = Append(@, m)]

\* inf_communication_registry_send
Send(p, m) ==
  LET q == [p EXCEPT !.queue = Append(@, m)]
  IN  IF p.inner = 0 THEN SendReal(q, Limit - p.inner) ELSE q

\* inf_communication_registry_cancel_messages
CancelMessages(p) == [p EXCEPT !.queue = <<>>]

(***************************************************************************)
(* inf_communication_registry_sent_cb, for the first message of flight     *)
(***************************************************************************)
\* The method is told, unless the message is from before the last registration.
Tells(p) == p.known /\ p.act = 0

\* A bug: the queue is looked at only after an entry that is registered.
ContinueRegistered(p) ==
  IF p.inner = 0 /\ p.queue # <<>> /\ p.registered THEN SendReal(p, Limit - p.inner) ELSE p

\* What follows the last message of a container.
Continue(p) ==
  LET q == IF p.inner = 0 /\ p.queue # <<>> THEN SendReal(p, Limit - p.inner) ELSE p
  IN  IF p.inner = 0 /\ ~q.registered /\ q.act = 0 THEN EntryFree(q, TRUE) ELSE q

\* The message is sent, and the method was told if it had to be; the callback may have
\* unregistered the connection, in which case the message was counted once too often.
SentDone(p) ==
  LET q == [p EXCEPT !.flight = Tail(@)]
  IN  IF ~p.known THEN q
      ELSE Continue([q EXCEPT !.inner = @ - 1, !.act = IF @ > 0 THEN @ - 1 ELSE 0])

\* Nobody listens to the connection: the registration that was its last is gone.
SentUnheard(p) == [p EXCEPT !.flight = Tail(@)]

-----------------------------------------------------------------------------
CONSTANTS Clients, Groups,
          Home,       \* the group of the directory, which every connection stays in
          Budgets     \* the clients that connect, the ends that send, and how often each
                      \* operation may happen

ASSUME HomeAssumption == Home \in Groups

VARIABLES status,   \* of the connection, at either end
          member,   \* the groups an end's connection is a member of
          port,     \* the registry's entry for every end and group
          link,     \* messages written and not yet received by the other end
          inside,   \* the end and group whose "sent" callback runs, if one does
          got,      \* history: the messages an end's target received
          owed,     \* history: the messages an end was to send
          epoch,    \* history: how often an end was registered for a group
          broken,   \* history: clients and groups that left, closed, cancelled or missed one
          left      \* what is left of the budget

vars == <<status, member, port, link, inside, got, owed, epoch, broken, left>>

Ends == {"host", "client"} \X Clients

ASSUME BudgetsAssumption ==
  Budgets \subseteq [clients : SUBSET Clients, senders : SUBSET Ends, send : Nat, add : Nat,
                     remove : Nat, close : Nat, cancel : Nat]

Peer(e) == <<IF e[1] = "host" THEN "client" ELSE "host", e[2]>>
Nobody == <<>>

Table(v) == [e \in Ends |-> [g \in Groups |-> v]]

\* A connection being opened is already in the group of the directory.
Init ==
  /\ left \in Budgets
  /\ status = [e \in Ends |-> IF e[2] \in left.clients THEN "opening" ELSE "closed"]
  /\ member = [e \in Ends |-> {Home}]
  /\ port = Table(NoEntry)
  /\ link = Table(<<>>)
  /\ inside = Nobody
  /\ got = Table(<<>>)
  /\ owed = Table(<<>>)
  /\ epoch = Table(0)
  /\ broken = {}

Open(e) == status[e] = "open"
Spend(op) == left[op] > 0 /\ left' = [left EXCEPT ![op] = @ - 1]

\* inf_communication_registry_add_connection, _remove_connection: the registry listens to a
\* connection as long as one group is registered for it.
Listens(e) == \E g \in Groups : port[e][g].registered

\* inf_communication_registry_is_registered
IsRegistered(e, g) == port[e][g].known /\ port[e][g].registered

(***************************************************************************)
(* Members                                                                 *)
(***************************************************************************)
\* inf_communication_central_method_add_member.  A group that is created again under the
\* same name finds the messages of the former one sent.
AddMember(e, g) ==
  /\ status[e] # "closed" /\ g \notin member[e]
  /\ port[e][g].known \/ port[e][g].flight = <<>>
  /\ Spend("add")
  /\ member' = [member EXCEPT ![e] = @ \cup {g}]
  /\ IF Open(e)
     THEN /\ port' = [port EXCEPT ![e][g] = Register(@)]
          /\ epoch' = [epoch EXCEPT ![e][g] = @ + 1]
     ELSE UNCHANGED <<port, epoch>>
  /\ UNCHANGED <<status, link, inside, got, owed, broken>>

\* inf_communication_central_method_remove_member
RemoveMember(e, g) ==
  /\ status[e] # "closed" /\ g \in member[e] \ {Home}
  /\ Spend("remove")
  /\ member' = [member EXCEPT ![e] = @ \ {g}]
  /\ port' = IF IsRegistered(e, g) THEN [port EXCEPT ![e][g] = Unregister(@, Open(e))] ELSE port
  /\ broken' = broken \cup {<<e[2], g>>}
  /\ UNCHANGED <<status, link, inside, got, owed, epoch>>

\* inf_communication_registry_group_unrefed: the group of an unregistered entry is finalized.
GroupUnrefed(e, g) ==
  /\ inside = Nobody
  /\ port[e][g].known /\ ~port[e][g].registered
  /\ port' = [port EXCEPT ![e][g] = EntryFree(@, Open(e))]
  /\ UNCHANGED <<status, member, link, inside, got, owed, epoch, broken, left>>

(***************************************************************************)
(* Connections                                                             *)
(***************************************************************************)
\* inf_communication_central_method_notify_status_cb: OPEN
Opened(e) ==
  /\ inside = Nobody /\ status[e] = "opening"
  /\ status' = [status EXCEPT ![e] = "open"]
  /\ port' = [port EXCEPT ![e] = [g \in Groups |-> IF g \in member[e] THEN Register(@[g]) ELSE @[g]]]
  /\ epoch' = [epoch EXCEPT ![e] = [g \in Groups |-> IF g \in member[e] THEN @[g] + 1 ELSE @[g]]]
  /\ UNCHANGED <<member, link, inside, got, owed, broken, left>>

\* The same: CLOSING, CLOSED; inf_communication_registry_notify_status_cb frees the entries
\* that were unregistered before.  Nothing the connection holds is sent any more.
Closed(e) ==
  /\ inside = Nobody /\ status[e] # "closed"
  /\ Spend("close")
  /\ status' = [status EXCEPT ![e] = "closed"]
  /\ member' = [member EXCEPT ![e] = {}]
  /\ port' = [port EXCEPT ![e] = [g \in Groups |-> NoEntry]]
  /\ broken' = broken \cup ({e[2]} \X Groups)
  /\ UNCHANGED <<link, inside, got, owed, epoch>>

(***************************************************************************)
(* Messages                                                                *)
(***************************************************************************)
\* Who sent it first, whether it is for the whole group, and the registration it belongs to.
Message(by, scope) == [by |-> by, n |-> left["send"], scope |-> scope, epoch |-> 0]

\* inf_communication_registry_send to each of these ends.
SendTo(ends, g, m) ==
  /\ port' = [e \in Ends |->
                IF e \in ends THEN [port[e] EXCEPT ![g] = Send(@, [m EXCEPT !.epoch = epoch[e][g]])]
                              ELSE port[e]]
  /\ owed' = [e \in Ends |->
                IF e \in ends THEN [owed[e] EXCEPT ![g] = Append(@, [m EXCEPT !.epoch = epoch[e][g]])]
                              ELSE owed[e]]

\* inf_communication_central_method_broadcast: the registered connections of the host that
\* are open, except the one the message came from.
Recipients(g, except) ==
  {e \in Ends : e[1] = "host" /\ e # except /\ IsRegistered(e, g) /\ Open(e)}

\* inf_communication_group_send_message, inf_communication_central_method_send_single; a
\* client's group message has only the host to go to.
SendMessage(e, g) ==
  /\ Open(e) /\ IsRegistered(e, g) /\ e \in left.senders
  /\ Spend("send")
  /\ \E scope \in {"ptp"} \cup (IF e[1] = "client" THEN {"group"} ELSE {}) :
       SendTo({e}, g, Message(e, scope))
  /\ UNCHANGED <<status, member, link, inside, got, epoch, broken>>

\* inf_communication_group_send_group_message at the host,
\* inf_communication_central_method_send_all
SendGroupMessage(g) ==
  /\ Spend("send")
  /\ SendTo(Recipients(g, Nobody), g, Message(Nobody, "group"))
  /\ UNCHANGED <<status, member, link, inside, got, epoch, broken>>

\* inf_communication_group_cancel_messages.  Only the session cancels, and only what it
\* sent since the connection became a member.
CancelGroupMessages(e, g) ==
  /\ IsRegistered(e, g) /\ port[e][g].act = 0
  /\ Spend("cancel")
  /\ port' = [port EXCEPT ![e][g] = CancelMessages(@)]
  /\ broken' = broken \cup {<<e[2], g>>}
  /\ UNCHANGED <<status, member, link, inside, got, owed, epoch>>

\* The connection wrote a message.  If the method is told, its callback may itself send,
\* cancel, remove or add members before it returns.
Sent(e, g) ==
  /\ inside = Nobody /\ Open(e) /\ port[e][g].flight # <<>>
  /\ link' = [link EXCEPT ![e][g] = Append(@, Head(port[e][g].flight))]
  /\ IF Listens(e) /\ Tells(port[e][g])
     THEN inside' = <<e, g>> /\ UNCHANGED port
     ELSE /\ port' = [port EXCEPT ![e][g] = IF Listens(e) THEN SentDone(@) ELSE SentUnheard(@)]
          /\ UNCHANGED inside
  /\ UNCHANGED <<status, member, got, owed, epoch, broken, left>>

SentReturns(e, g) ==
  /\ inside = <<e, g>>
  /\ inside' = Nobody
  /\ port' = [port EXCEPT ![e][g] = SentDone(@)]
  /\ UNCHANGED <<status, member, link, got, owed, epoch, broken, left>>

\* inf_communication_registry_received_cb, inf_communication_central_method_received: the
\* target of a registered group gets the message; the host forwards a group message.
Received(e, g) ==
  /\ inside = Nobody /\ Open(e) /\ link[Peer(e)][g] # <<>>
  /\ LET m == Head(link[Peer(e)][g])
     IN  /\ link' = [link EXCEPT ![Peer(e)][g] = Tail(@)]
         /\ IF IsRegistered(e, g)
            THEN /\ got' = [got EXCEPT ![e][g] = Append(@, m)]
                 /\ IF e[1] = "host" /\ m.scope = "group"
                    THEN SendTo(Recipients(g, e), g, m)
                    ELSE UNCHANGED <<port, owed>>
                 /\ UNCHANGED broken
            ELSE /\ broken' = broken \cup {<<e[2], g>>}
                 /\ UNCHANGED <<got, port, owed>>
  /\ UNCHANGED <<status, member, inside, epoch, left>>

Next ==
  \/ \E g \in Groups : SendGroupMessage(g)
  \/ \E e \in Ends : Opened(e) \/ Closed(e)
  \/ \E e \in Ends, g \in Groups :
       \/ AddMember(e, g) \/ RemoveMember(e, g) \/ GroupUnrefed(e, g)
       \/ SendMessage(e, g) \/ CancelGroupMessages(e, g)
       \/ Sent(e, g) \/ SentReturns(e, g) \/ Received(e, g)

\* A connection that is open goes on writing, and callbacks return.
Fairness ==
  \A e \in Ends, g \in Groups :
    WF_vars(Sent(e, g)) /\ WF_vars(SentReturns(e, g))

Spec == Init /\ [][Next]_vars /\ Fairness

(***************************************************************************)
(* What the groups promise                                                 *)
(***************************************************************************)
\* The counts of an entry agree with the messages it stands for: the inner count with what
\* the connection was given, the activation count with what an unregistered entry still has
\* to send; nothing waits when the connection has nothing to report.  The assertions of
\* inf_communication_registry_sent_cb and _unregister rest on this.
Sound(p) ==
  /\ p.known => p.inner = Len(p.flight)
  /\ ~p.known => p.queue = <<>> /\ ~p.registered
  /\ p.queue # <<>> => p.inner > 0
  /\ p.known /\ ~p.registered => p.act = p.inner + Len(p.queue) /\ p.act > 0
  /\ p.inner <= Limit

EntrySound == \A e \in Ends, g \in Groups : Sound(port[e][g])

\* "sent" is reported to the target for the messages it sent since it was last registered,
\* and for no other: the first messages of the entry, as many as the activation count says,
\* are the ones of registrations that are over.
ReportsExact ==
  \A e \in Ends, g \in Groups :
    LET p == port[e][g]
        rest == p.flight \o p.queue
    IN  p.known => \A i \in DOMAIN rest :
                     i > p.act <=> p.registered /\ rest[i].epoch = epoch[e][g]

\* What an end has sent and its peer not yet received, in order.
Waiting(e, g) ==
  link[e][g] \o (IF inside = <<e, g>> THEN Tail(port[e][g].flight) ELSE port[e][g].flight)
             \o port[e][g].queue

\* Every message arrives exactly once and in the order of sending, the forwarded ones too,
\* for a group that was left or cancelled at neither end.
InOrder ==
  \A e \in Ends, g \in Groups :
    <<e[2], g>> \notin broken => got[Peer(e)][g] \o Waiting(e, g) = owed[e][g]

\* The registry loses, doubles, reorders and misreports nothing.
RegistrySound == EntrySound /\ ReportsExact /\ InOrder

\* Whatever was queued is sent in the end, also after the end left the group, as long as
\* the connection stays open.
QueuesDrain ==
  \A e \in Ends, g \in Groups :
    <>[](Open(e) => port[e][g].flight = <<>> /\ port[e][g].queue = <<>>)
=============================================================================
