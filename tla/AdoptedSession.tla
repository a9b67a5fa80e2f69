--------------------------- MODULE AdoptedSession ---------------------------
(* InfAdoptedSession: how requests travel between the sessions of a document *)
(* and when they are executed, at the level of state vectors.  A server      *)
(* processes what it receives from a client and then forwards it to the      *)
(* others.  Vectors are sent as differences to the one sent before, requests *)
(* that come too early are buffered, and users that were silent for a while  *)
(* tell with a no-operation what they have processed.                        *)
EXTENDS StateVector, Sequences, FiniteSets

CONSTANTS Users, Sites, Server, NoUser,
          Home,          \* the site each user is local to
          MaxRequests,   \* bound: the number of requests of each user
          MaxNum         \* bound: how many undo requests are sent as one

ASSUME SitesAssumption == Server \in Sites /\ Home \in [Users -> Sites]
ASSUME UsersAssumption == NoUser \notin Users

VARIABLES
  current,      \* of each site's algorithm: the state of its document
  vector,       \* of each InfAdoptedUser, at each site
  buffer,       \* request_buffer of each session
  last_send,    \* last_send_vector of each local user
  timer,        \* noop timers of each session, see NewTimer
  up, down,     \* messages from and to each client, first in, first out
  forwarding,   \* what the server has processed and not yet forwarded
  issued        \* of each user, the vectors of its requests so far

vars == <<current, vector, buffer, last_send, timer, up, down, forwarding, issued>>

Clients == Sites \ {Server}
Local(s) == {u \in Users : Home[u] = s}
Zero == [u \in Users |-> 0]

(* Users with a noop_time, next_noop_user, and whether noop_timeout is set   *)
NewTimer == [waiting |-> {}, next |-> NoUser, armed |-> FALSE]

Init ==
  /\ current = [s \in Sites |-> Zero]
  /\ vector = [s \in Sites |-> [u \in Users |-> Zero]]
  /\ buffer = [s \in Sites |-> {}]
  /\ last_send = [u \in Users |-> Zero]
  /\ timer = [s \in Sites |-> NewTimer]
  /\ up = [c \in Clients |-> <<>>] /\ down = [c \in Clients |-> <<>>]
  /\ forwarding = <<>>
  /\ issued = [u \in Users |-> <<>>]

-----------------------------------------------------------------------------
(* inf_adopted_state_vector_to_string_diff and _from_string_diff             *)
ToDiff(v, orig) == [u \in Users |-> v[u] - orig[u]]
FromDiff(d, orig) == [u \in Users |-> d[u] + orig[u]]

(* find_next_noop_user: when each began to wait is abstracted.               *)
FindNext(w) == IF w = {} THEN {NoUser} ELSE w

(* start_noop_timer for those of a set of local users that are not waiting   *)
StartTimers(t, new) ==
  IF new \subseteq t.waiting THEN {t}
  ELSE LET w == t.waiting \cup new
       IN IF t.armed THEN {[t EXCEPT !.waiting = w]}
          ELSE {[waiting |-> w, next |-> n, armed |-> TRUE] : n \in FindNext(w)}

StopTimerForAll(t, u) ==   \* mistake: the timer is not set for the next user
  IF u \notin t.waiting THEN {t}
  ELSE {[waiting |-> t.waiting \ {u}, next |-> NoUser, armed |-> FALSE]}

(* stop_noop_timer; the timer is scheduled anew if it is another user's turn *)
StopTimer(t, u) ==
  IF u \notin t.waiting THEN {t}
  ELSE LET w == t.waiting \ {u}
       IN {IF n = t.next THEN [t EXCEPT !.waiting = w]
           ELSE [waiting |-> w, next |-> n, armed |-> n # NoUser] : n \in FindNext(w)}

(* broadcast_n_requests: n requests, the first made at state v, which is     *)
(* sent as a difference.  The field vector is not sent, it is there for      *)
(* DiffsDecode.                                                              *)
Message(u, v, n, affects) ==
  [user |-> u, diff |-> ToDiff(v, last_send[u]), num |-> n, affects |-> affects, vector |-> v]

Target(m, v) == IF m.affects THEN Add(v, m.user, m.num) ELSE v

SendAdds(m) ==   \* mistake: the sender counts its no-operations
  LET s == Home[m.user]
  IN /\ last_send' = [last_send EXCEPT ![m.user] = Add(m.vector, m.user, m.num)]
     /\ IF s = Server
          THEN down' = [c \in Clients |-> Append(down[c], m)] /\ UNCHANGED up
          ELSE up' = [up EXCEPT ![s] = Append(@, m)] /\ UNCHANGED down

(* last_send_vector follows, and send_to_subscriptions gives it to all.      *)
Send(m) ==
  LET s == Home[m.user]
  IN /\ last_send' = [last_send EXCEPT ![m.user] = Target(m, m.vector)]
     /\ IF s = Server
          THEN down' = [c \in Clients |-> Append(down[c], m)] /\ UNCHANGED up
          ELSE up' = [up EXCEPT ![s] = Append(@, m)] /\ UNCHANGED down

(* The algorithm keeps the vectors of local users equal to the state.        *)
UpdateLocalTimes(s, known, v) ==
  [u \in Users |-> IF Home[u] = s THEN v ELSE known[u]]

(* An edit, or n undo or redo requests at once, executed and broadcast; on   *)
(* the server also from a callback of process_xml_run, before the forwarding *)
LocalRequest(u, n) ==
  LET s == Home[u]
      m == Message(u, current[s], n, TRUE)
  IN /\ Len(issued[u]) + n <= MaxRequests[u]
     /\ issued' = [issued EXCEPT ![u] = @ \o [i \in 1 .. n |-> Add(current[s], u, i - 1)]]
     /\ current' = [current EXCEPT ![s] = Add(@, u, n)]
     /\ vector' = [vector EXCEPT ![s] = UpdateLocalTimes(s, @, current'[s])]
     /\ \E t \in StartTimers(timer[s], Local(s) \ {u}) : \E t2 \in StopTimer(t, u) :
          timer' = [timer EXCEPT ![s] = t2]
     /\ Send(m)
     /\ UNCHANGED <<buffer, forwarding>>

(* noop_timeout_func: a no-operation for next_noop_user, which is not        *)
(* executed here                                                             *)
NoopTimeout(s) ==
  /\ s = Server => forwarding = <<>>
  /\ timer[s].armed /\ timer[s].next # NoUser
  /\ \E t \in StopTimer([timer[s] EXCEPT !.armed = FALSE], timer[s].next) :
       timer' = [timer EXCEPT ![s] = t]
  /\ Send(Message(timer[s].next, current[s], 1, FALSE))
  /\ UNCHANGED <<current, vector, buffer, forwarding, issued>>

-----------------------------------------------------------------------------
RequestsFirst(m, v) ==   \* mistake: only the first of several is kept
  {[user |-> m.user, vector |-> v, affects |-> m.affects]}

(* The requests in a message whose vector is v                               *)
Requests(m, v) ==
  {[user |-> m.user, vector |-> Add(v, m.user, i), affects |-> m.affects] : i \in 0 .. m.num - 1}

(* The state after the execution of a set of requests                        *)
Advance(v, X) == [u \in Users |-> v[u] + Cardinality({r \in X : r.user = u /\ r.affects})]

(* process_buffered_requests executes the requests that are ready until none *)
(* is: the least set that contains each that is ready after it.              *)
Released(b, v) ==
  {r \in b : \A X \in SUBSET b :
     (\A q \in b : CausallyBefore(q.vector, Advance(v, X)) => q \in X) => r \in X}

CanProcessAlways(s, v) == TRUE   \* mistake: nothing is buffered

(* process_request executes what was made at a state it has reached.         *)
CanProcess(s, v) == CausallyBefore(v, current[s])

(* process_xml_run: all requests of the message are executed, or all are     *)
(* buffered; then buffered ones are executed.  A message that does not       *)
(* continue its user's requests is refused, which DiffsDecode rules out, and *)
(* the algorithm fails to execute none.                                      *)
Process(s, m) ==
  LET v == FromDiff(m.diff, vector[s][m.user])
      ready == CanProcess(s, v)
      reached == IF ready THEN Target(m, current[s]) ELSE current[s]
      b == IF ready THEN buffer[s] ELSE buffer[s] \cup Requests(m, v)
      out == Released(b, reached)
      executed == Advance(reached, out)
  IN /\ v[m.user] = vector[s][m.user][m.user]
     /\ current' = [current EXCEPT ![s] = executed]
     /\ buffer' = [buffer EXCEPT ![s] = b \ out]
     /\ vector' = [vector EXCEPT ![s] =
          UpdateLocalTimes(s, [@ EXCEPT ![m.user] = Target(m, v)], executed)]
     /\ \E t \in StartTimers(timer[s], IF executed = current[s] THEN {} ELSE Local(s)) :
          timer' = [timer EXCEPT ![s] = t]
     /\ UNCHANGED <<last_send, issued>>

ReceiveAtClient(c) ==
  /\ down[c] # <<>>
  /\ Process(c, Head(down[c]))
  /\ down' = [down EXCEPT ![c] = Tail(@)]
  /\ UNCHANGED <<up, forwarding>>

ReceiveAtServer(c) ==
  /\ forwarding = <<>> /\ up[c] # <<>>
  /\ Process(Server, Head(up[c]))
  /\ up' = [up EXCEPT ![c] = Tail(@)]
  /\ forwarding' = <<Head(up[c])>>
  /\ UNCHANGED down

(* inf_communication_central_method_received: after the session has          *)
(* processed the message, it goes to the other clients.                      *)
Forward ==
  /\ forwarding # <<>>
  /\ LET m == Head(forwarding)
     IN down' = [c \in Clients |-> IF c = Home[m.user] THEN down[c] ELSE Append(down[c], m)]
  /\ forwarding' = <<>>
  /\ UNCHANGED <<current, vector, buffer, last_send, timer, up, issued>>

-----------------------------------------------------------------------------
(* What the main loop of a site runs                                         *)
MainLoop(s) ==
  \/ NoopTimeout(s)
  \/ s # Server /\ ReceiveAtClient(s)
  \/ s = Server /\ (Forward \/ \E c \in Clients : ReceiveAtServer(c))

Next ==
  \/ \E u \in Users, n \in 1 .. MaxNum : LocalRequest(u, n)
  \/ \E s \in Sites : MainLoop(s)

Spec == Init /\ [][Next]_vars

(* The main loop of each site runs, and connections deliver.                 *)
Fairness == \A s \in Sites : WF_vars(MainLoop(s))

FairSpec == Spec /\ Fairness

-----------------------------------------------------------------------------
Vectors == [Users -> Nat]

(* The vectors count requests, and only local users wait.                    *)
TypeOK ==
  /\ current \in [Sites -> Vectors]
  /\ vector \in [Sites -> [Users -> Vectors]]
  /\ last_send \in [Users -> Vectors]
  /\ \A s \in Sites : \A r \in buffer[s] : r.user \in Users /\ r.vector \in Vectors
  /\ \A s \in Sites : /\ \A u \in timer[s].waiting : u \in Users /\ Home[u] = s
                      /\ timer[s].next \in Users \cup {NoUser}
                      /\ timer[s].armed \in BOOLEAN

(* While a local user has not told what it processed, the timer is running,  *)
(* and for a user that waits.                                                *)
TimerRuns ==
  \A s \in Sites : IF timer[s].armed THEN timer[s].next \in timer[s].waiting
                  ELSE timer[s].waiting = {}

(* A user waits for the timer exactly if it has executed what it has not     *)
(* told the others about.                                                    *)
SilentWaits ==
  \A u \in Users : u \in timer[Home[u]].waiting <=> last_send[u] # current[Home[u]]

(* Together: the timer that the local users share never forgets one of them. *)
TimersServe == TimerRuns /\ SilentWaits

(* A message is decoded to the vector it was made from, and continues the    *)
(* sender's requests: the receiver's idea of a user is what the sender of    *)
(* the message had sent before.                                              *)
DecodesAt(s, m) ==
  /\ FromDiff(m.diff, vector[s][m.user]) = m.vector
  /\ m.vector[m.user] = vector[s][m.user][m.user]
DiffsDecode ==
  \A c \in Clients : /\ up[c] # <<>> => DecodesAt(Server, Head(up[c]))
                     /\ down[c] # <<>> => DecodesAt(c, Head(down[c]))

(* No buffered request is left behind that could be executed.                *)
BufferWaits ==
  \A s \in Sites : \A r \in buffer[s] : ~CausallyBefore(r.vector, current[s])

(* What arrives is understood, and what waits has to wait.                   *)
ReceptionSound == DiffsDecode /\ BufferWaits

Broadcast == INSTANCE CausalBroadcast

(* Requests are executed once and in causal order.                           *)
ImplementsBroadcast == Broadcast!BroadcastSpec

(* When the users rest, all sites come to the same state and know this of    *)
(* each other.                                                               *)
EventuallyKnown ==
  <>[](\A s \in Sites, u \in Users :
         current[s][u] = Len(issued[u]) /\ vector[s][u] = current[s])

=============================================================================
