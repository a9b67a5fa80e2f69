----------------------------- MODULE TcpConnection -----------------------------
(***************************************************************************)
(* A TCP connection that looks up the host it connects to, the client's    *)
(* side of inf-tcp-connection.c, with its resolver, inf-name-resolver.c.   *)
(* The lookups run in a thread (inf-async-operation.c); their result is    *)
(* taken over by the main loop.  A host name is looked up in the SRV       *)
(* records first; the addresses of one record are fetched at a time, the   *)
(* other records are the backup.  What is sent goes through a queue in a   *)
(* buffer of bytes, numbered here in the order they are sent.              *)
(***************************************************************************)
EXTENDS Naturals, Sequences, FiniteSets, TLC

CONSTANTS Records,    \* the SRV records of the name: [host, prio, weight]
          Host,       \* the host of the name itself
          Addresses,  \* host -> its addresses, a sequence
          Lengths,    \* how many bytes are sent at once
          Chunk,      \* the buffer grows by multiples of this; 1024 in the code
          Limit       \* how often each operation is called

VARIABLES tcp,    \* the connection: status, socket, watch, resolver_index, queue
          res,    \* the resolver: the operation that runs, and priv->result
          done,   \* the result of a thread that has ended
          given,  \* bytes given to send
          wire,   \* bytes written to the socket
          tried,  \* the attempt to connect: the addresses tried since open, whether it
                  \* was given up, after all of them, late, or when no socket was had
          failed, \* an assertion failed
          left
tcpVars == <<tcp, res, done, given, wire, tried, failed, left>>

NoResult == [entries |-> <<>>, srvs |-> {}, error |-> FALSE]
NoAttempt == [seq |-> <<>>, up |-> FALSE, all |-> FALSE, late |-> FALSE, stuck |-> FALSE]
Init ==
  /\ tcp = [st |-> "closed", sock |-> FALSE, watch |-> {}, index |-> 0,
            buf |-> [i \in 0..Chunk - 1 |-> 0], front |-> 0, back |-> 0]
  /\ res = [op |-> "none", result |-> NoResult]
  /\ done = NoResult /\ given = 0 /\ wire = <<>>
  /\ tried = NoAttempt /\ failed = FALSE /\ left = Limit

Spend(op) == ~failed /\ left[op] > 0 /\ left' = [left EXCEPT ![op] = @ - 1]

(***************************************************************************)
(* The resolver                                                            *)
(***************************************************************************)
\* inf_name_resolver_choose_srv: one of those with the lowest priority, at
\* random in proportion to their weights.
Candidates(srvs) ==
  LET low == {s \in srvs : \A t \in srvs : s.prio <= t.prio}
      heavy == {s \in low : s.weight > 0}
  IN  IF heavy = {} THEN low ELSE heavy

\* inf_name_resolver_resolve_srv: the records are taken one by one until the
\* host of one, in up, is found.  All results there may be.
RECURSIVE ResolveSrv(_, _)
ResolveSrv(srvs, up) == UNION {
  IF s.host \in up
  THEN {[entries |-> [i \in DOMAIN Addresses[s.host] |-> [addr |-> Addresses[s.host][i], prio |-> s.prio]],
         srvs |-> srvs \ {s}, error |-> FALSE]}
  ELSE IF srvs = {s} THEN {[NoResult EXCEPT !.error = TRUE]}
  ELSE ResolveSrv(srvs \ {s}, up) : s \in Candidates(srvs)}

\* inf_name_resolver_lookup_a_aaaa
LookupHost(up) ==
  IF Host \notin up THEN [NoResult EXCEPT !.error = TRUE]
  ELSE [NoResult EXCEPT !.entries = [i \in DOMAIN Addresses[Host] |-> [addr |-> Addresses[Host][i], prio |-> 0]]]

\* inf_name_resolver_resolve: without SRV records, or if these cannot be
\* looked up, the host itself.
Resolve(found, up) == IF found = {} THEN {LookupHost(up)} ELSE ResolveSrv(found, up)

\* inf_name_resolver_start and inf_name_resolver_lookup_backup
StartLookup(r) == [op |-> "start", result |-> NoResult]
LookupBackup(r) == [r EXCEPT !.op = "backup", !.result.error = FALSE]

\* The thread: inf_name_resolver_run_func, inf_name_resolver_backup_run_func,
\* which takes the records from the resolver.
Run == \E up \in SUBSET DOMAIN Addresses, found \in {{}, Records} :
  /\ res.op \in {"start", "backup"}
  /\ done' \in (IF res.op = "start" THEN Resolve(found, up) ELSE ResolveSrv(res.result.srvs, up))
  /\ res' = [res EXCEPT !.op = IF @ = "start" THEN "started" ELSE "backed",
                        !.result.srvs = {}]
  /\ UNCHANGED <<tcp, given, wire, tried, failed, left>>

(***************************************************************************)
(* Connecting                                                              *)
(***************************************************************************)
\* A state of the connection while a function runs: T, the resolver R, what
\* was tried A, and what the function returns.
State(T, R, A, ok) == [t |-> T, r |-> R, a |-> A, ok |-> ok]

\* A variant for the mutation checks: only the socket is given up.
ErrorOpen(T) == [T EXCEPT !.watch = {}]

\* inf_tcp_connection_error, the default handler of the signal "error".
Error(T) == [T EXCEPT !.watch = {}, !.st = "closed"]

\* inf_tcp_connection_connected
Connected(T) == [T EXCEPT !.st = "connected", !.front = 0, !.back = 0, !.watch = {"in"}, !.index = 0]

RECURSIVE OpenWithResolver(_, _, _, _)
RECURSIVE ConnectionError(_, _, _, _)

\* inf_tcp_connection_open_real; con tells what the system answers for each
\* address: connected, in progress, failed, or no socket.
OpenReal(T, R, A, con) ==
  LET addr == R.result.entries[T.index + 1].addr
      B == [A EXCEPT !.seq = Append(@, addr)]
      U == [T EXCEPT !.sock = TRUE]
  IN  CASE con[addr] = "none"     -> State([T EXCEPT !.sock = FALSE], R, [A EXCEPT !.stuck = TRUE], FALSE)
        [] con[addr] = "ok"       -> State(Connected(U), R, B, TRUE)
        [] con[addr] = "progress" -> State([U EXCEPT !.watch = {"out"}, !.st = "connecting"], R, B, TRUE)
        [] con[addr] = "fail"     -> ConnectionError(U, R, B, con)

\* inf_tcp_connection_open_with_resolver: the next address, or the next
\* lookup.  While one is running nothing is done.
OpenWithResolver(T, R, A, con) ==
  LET U == [T EXCEPT !.st = "connecting"]
  IN  IF R.op # "none" THEN State(T, R, A, TRUE)
      ELSE IF T.index < Len(R.result.entries) THEN OpenReal(T, R, A, con)
      ELSE IF T.index = 0 THEN State(U, StartLookup(R), A, TRUE)
      ELSE IF R.result.srvs = {} THEN State(U, R, [A EXCEPT !.all = TRUE], FALSE)
      ELSE State(U, LookupBackup(R), A, TRUE)

\* A variant for the mutation checks: the first address decides.
ConnectionErrorFirst(T, R, A, con) ==
  State(Error([T EXCEPT !.sock = FALSE, !.index = 0]), R, [A EXCEPT !.up = TRUE], FALSE)

\* inf_tcp_connection_connection_error: the next address is tried; if it cannot be,
\* the connection gives up.
ConnectionError(T, R, A, con) ==
  LET U == [T EXCEPT !.sock = FALSE, !.watch = {}]
      retry == IF U.index < Len(R.result.entries)
               THEN OpenWithResolver([U EXCEPT !.index = @ + 1], R, A, con)
               ELSE State(U, R, [A EXCEPT !.all = TRUE], FALSE)
  IN  IF retry.ok THEN retry
      ELSE State(Error([retry.t EXCEPT !.index = 0]), retry.r, [retry.a EXCEPT !.up = TRUE], FALSE)

Answers == [UNION {{Addresses[h][i] : i \in DOMAIN Addresses[h]} : h \in DOMAIN Addresses} ->
              {"ok", "progress", "fail", "none"}]
Becomes(S) == /\ tcp' = S.t /\ res' = S.r /\ tried' = S.a
              /\ IF S.t.st = "connected" /\ tcp.st # "connected"
                 THEN given' = 0 /\ wire' = <<>> ELSE UNCHANGED <<given, wire>>

\* inf_tcp_connection_open
Open == \E con \in Answers :
  /\ Spend("open") /\ tcp.st = "closed"
  /\ IF tcp.index = 0
     THEN Becomes(OpenWithResolver(tcp, res, NoAttempt, con)) /\ UNCHANGED failed
     ELSE failed' = TRUE /\ UNCHANGED <<tcp, res, given, wire, tried>>
  /\ UNCHANGED done

\* inf_name_resolver_done_func, inf_name_resolver_backup_done_func, and
\* inf_tcp_connection_resolved_cb.
Resolved == \E con \in Answers :
  /\ ~failed /\ res.op \in {"started", "backed"}
  /\ LET old == res.result
         R == [op |-> "none", result |-> [done EXCEPT !.entries = old.entries \o @]]
     IN  IF tcp.st # "connecting"
         THEN res' = R /\ UNCHANGED <<tcp, given, wire, tried, failed>>
         ELSE /\ Becomes(IF done.error THEN ConnectionError(tcp, R, tried, con)
                         ELSE OpenWithResolver(tcp, R, tried, con))
              /\ failed' = (done.error /\ tcp.index # Len(R.result.entries))
  /\ done' = NoResult
  /\ UNCHANGED left

\* inf_tcp_connection_close
Close(T) == [T EXCEPT !.watch = {}, !.front = 0, !.back = 0, !.st = "closed"]
AppClose ==
  /\ Spend("close") /\ tcp.st # "closed"
  /\ tcp' = Close(tcp)
  /\ UNCHANGED <<res, done, given, wire, tried, failed>>

\* inf_tcp_connection_io while the connection is being made: after an error of the
\* socket the next address is tried, but not after one that only
\* inf_tcp_connection_io_outgoing finds; an error event without an error closes it.
Answer == \E con \in Answers, event \in {"connected", "error", "late error", "hangup"} :
  /\ ~failed /\ tcp.st = "connecting" /\ "out" \in tcp.watch
  /\ Becomes(CASE event = "connected"  -> State(Connected(tcp), res, tried, TRUE)
               [] event = "error"      -> ConnectionError(tcp, res, tried, con)
               [] event = "late error" -> State(Error(tcp), res, [tried EXCEPT !.up = TRUE, !.late = TRUE], FALSE)
               [] event = "hangup"     -> State(Close(tcp), res, tried, FALSE))
  /\ UNCHANGED <<done, failed, left>>

(***************************************************************************)
(* Sending                                                                 *)
(***************************************************************************)
Alloc(T) == Cardinality(DOMAIN T.buf)
Waiting(T) == [i \in 1..T.front - T.back |-> T.buf[T.back + i - 1]]
Bytes(n) == [i \in 1..n |-> given + i]

\* A variant for the mutation checks: the bytes are not moved to the front.
MakeRoomInPlace(T, n) ==
  LET U == IF Alloc(T) - T.front < n /\ T.back > 0
           THEN [T EXCEPT !.front = @ - T.back, !.back = 0] ELSE T
      need == U.front + n
      size == IF need % Chunk = 0 THEN need ELSE need + Chunk - (need % Chunk)
  IN  IF Alloc(U) - U.front >= n THEN U
      ELSE [U EXCEPT !.buf = U.buf @@ [i \in 0..size - 1 |-> 0]]

\* Room for n more bytes: what waits is moved to the front of the buffer, which
\* grows if that is not enough.
MakeRoom(T, n) ==
  LET U == IF Alloc(T) - T.front < n /\ T.back > 0
           THEN [T EXCEPT !.buf = [i \in 0..T.front - T.back - 1 |-> T.buf[T.back + i]] @@ T.buf,
                          !.front = @ - T.back, !.back = 0]
           ELSE T
      need == U.front + n
      size == IF need % Chunk = 0 THEN need ELSE need + Chunk - (need % Chunk)
  IN  IF Alloc(U) - U.front >= n THEN U
      ELSE [U EXCEPT !.buf = U.buf @@ [i \in 0..size - 1 |-> 0]]
Enqueue(T, data) ==
  LET U == MakeRoom(T, Len(data))
  IN  IF data = <<>> THEN T
      ELSE [U EXCEPT !.buf = [i \in U.front..U.front + Len(data) - 1 |-> data[i - U.front + 1]] @@ U.buf,
                     !.front = @ + Len(data), !.watch = @ \union {"out"}]

\* inf_tcp_connection_send: at once as far as the socket takes it, if nothing
\* waits; the rest is queued.
Send(n, k) ==
  /\ Spend("send") /\ tcp.st = "connected"
  /\ k = 0 \/ tcp.front = tcp.back
  /\ tcp' = Enqueue(tcp, SubSeq(Bytes(n), k + 1, n))
  /\ wire' = wire \o SubSeq(Bytes(n), 1, k)
  /\ given' = given + n
  /\ UNCHANGED <<res, done, tried, failed>>

\* inf_tcp_connection_io_outgoing: the socket takes k bytes.
Outgoing(k) ==
  LET empty == tcp.back + k = tcp.front
  IN  /\ ~failed /\ tcp.st = "connected" /\ "out" \in tcp.watch
      /\ k \in 1..tcp.front - tcp.back
      /\ wire' = wire \o SubSeq(Waiting(tcp), 1, k)
      /\ tcp' = IF empty THEN [tcp EXCEPT !.front = 0, !.back = 0, !.watch = @ \ {"out"}]
                ELSE [tcp EXCEPT !.back = @ + k]
      /\ UNCHANGED <<res, done, given, tried, failed, left>>

\* inf_tcp_connection_io_incoming, inf_tcp_connection_send_real: the peer has
\* closed the connection, or there is an error.
Lost == \E T \in {Close(tcp), Error(tcp)} :
  /\ Spend("lost") /\ tcp.st = "connected"
  /\ tcp' = T
  /\ UNCHANGED <<res, done, given, wire, tried, failed>>

Next ==
  \/ Open \/ AppClose \/ Run \/ Resolved \/ Answer \/ Lost
  \/ \E n \in Lengths : \E k \in 0..n : Send(n, k)
  \/ \E k \in Lengths : Outgoing(k)
Fairness == WF_tcpVars(Run) /\ WF_tcpVars(Resolved) /\ WF_tcpVars(Answer)
Spec == Init /\ [][Next]_tcpVars /\ Fairness

(***************************************************************************)
(* Properties                                                              *)
(***************************************************************************)
\* The bytes written to the socket, followed by those that wait, are the bytes
\* sent, in order; the connection waits to be able to write exactly if some do.
StreamExact == tcp.st = "connected" =>
  /\ wire \o Waiting(tcp) = [i \in 1..given |-> i]
  /\ ("out" \in tcp.watch) = (tcp.front > tcp.back)

\* The addresses are tried in their order, those of a record with a lower priority
\* value first.  The connection gives up after all addresses of all records: else only
\* when no socket was had for one of them, or after a late error, where it gives up at
\* once although the documentation of inf_tcp_connection_new_resolve promises all.
AttemptExact ==
  LET entries == res.result.entries
  IN  /\ tcp.st # "closed" \/ tried.all =>
           \A i \in DOMAIN tried.seq : i \in DOMAIN entries /\ tried.seq[i] = entries[i].addr
      /\ \A i, j \in DOMAIN entries : i < j => entries[i].prio <= entries[j].prio
      /\ tried.up => tried.all \/ tried.stuck \/ tried.late
      /\ tried.all /\ res.op = "none" => Len(tried.seq) = Len(entries) /\ res.result.srvs = {}

\* An attempt to connect ends, unless the system has no socket left: the caller
\* of inf_tcp_connection_open_with_resolver in
\* inf_tcp_connection_resolved_cb ignores that it failed, and the connection is
\* connecting until it is closed.
AttemptEnds == tcp.st = "connecting" ~> tcp.st # "connecting" \/ tried.stuck \/ failed
================================================================================
