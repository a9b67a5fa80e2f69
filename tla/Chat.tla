---------------------------------- MODULE Chat ----------------------------------
(***************************************************************************)
(* A chat: inf-chat-session.c at the server and its clients, with the ring *)
(* buffer of messages of each, inf-chat-buffer.c.  A message gets the time *)
(* of the site that adds it, except those of the synchronization; the      *)
(* clock of the machines may be set back.  That a client is joined and     *)
(* synchronized is reduced to the messages the chat sees of it.            *)
(***************************************************************************)
EXTENDS Naturals, Sequences, FiniteSets, TLC

CONSTANTS Clients, Server,
          Size,         \* the buffer's size
          MinAlloc,     \* what is allocated at first, 16 in the code
          MaxMessages,  \* bound: messages
          MaxTime, Jumps  \* bounds: the clock and how often it is set back

VARIABLES chat,     \* chat[s]: the ring buffer of a site
          up, down, \* messages on their way to and from the server
          state,    \* state[c]: none, synchronizing or running
          joined,   \* the users the server has joined
          now, jumps, count,
          jumbled,  \* sites whose buffer was shifted at the wrong place
          dropped   \* sites that have discarded a message
chatVars == <<chat, up, down, state, joined, now, jumps, count, jumbled, dropped>>

Sites == Clients \union {Server}
NoMessage == [id |-> 0, time |-> 0]
Empty == [arr |-> <<>>, alloc |-> 0, first |-> 0, num |-> 0]
Init ==
  /\ chat = [s \in Sites |-> Empty]
  /\ up = [c \in Clients |-> <<>>] /\ down = [c \in Clients |-> <<>>]
  /\ state = [c \in Clients |-> "none"] /\ joined = {}
  /\ now = 1 /\ jumps = 0 /\ count = 0 /\ jumbled = {} /\ dropped = {}

(***************************************************************************)
(* The buffer                                                              *)
(***************************************************************************)
Lesser(a, b) == IF a < b THEN a ELSE b
Greater(a, b) == IF a < b THEN b ELSE a

At(b, i) == b.arr[(b.first + i) % Size]
Messages(b) == [i \in 1..b.num |-> At(b, i - 1)]

\* A variant for the mutation checks: a message is always the newest.
PlaceLast(b, time, begin, end) == end

\* The search of inf_chat_buffer_reserve_message
RECURSIVE Place(_, _, _, _)
Place(b, time, begin, end) ==
  IF begin = end THEN begin
  ELSE IF At(b, (begin + end) \div 2).time <= time THEN Place(b, time, (begin + end + 1) \div 2, end)
  ELSE Place(b, time, begin, (begin + end) \div 2)

\* memmove of n messages
Move(arr, to, from, n) ==
  [i \in DOMAIN arr |-> IF i \in to..to + n - 1 THEN arr[i - to + from] ELSE arr[i]]

Allocate(b) ==
  LET size == Lesser(Greater(b.alloc * 2, MinAlloc), Size)
  IN  IF b.num < b.alloc THEN b
      ELSE [b EXCEPT !.alloc = size,
                     !.arr = [i \in 0..size - 1 |-> IF i < b.alloc THEN b.arr[i] ELSE NoMessage]]

\* Room at place n of a buffer that is not full.
ReserveFree(B, n) ==
  LET b == Allocate(B)
      front == (b.alloc - b.num + 1) \div 2
      back == (b.alloc - b.num) \div 2
      atEnd == b.first + b.num = b.alloc
      grown == [b EXCEPT !.num = @ + 1]
  IN  IF n = 0 /\ b.first = 0
      THEN [grown EXCEPT !.arr = Move(b.arr, front, 0, b.num), !.first = front - 1]
      ELSE IF n = b.num /\ atEnd
      THEN [grown EXCEPT !.arr = Move(b.arr, back, b.first, b.num), !.first = back]
      ELSE IF n > 0 /\ n < b.num
      THEN IF (n < b.num \div 2 /\ b.first > 0) \/ (n > b.num \div 2 /\ atEnd)
           THEN [grown EXCEPT !.arr = Move(b.arr, b.first - 1, b.first, n + 1), !.first = @ - 1]
           ELSE [grown EXCEPT !.arr = Move(b.arr, n + 1, n, b.num - n)]
      ELSE IF n = 0 THEN [grown EXCEPT !.first = @ - 1] ELSE grown

\* Room at place n > 0 of a buffer that is full; the message is at place n - 1
\* afterwards.
ReserveFull(b, n) ==
  LET begin == b.first
      end == (b.first + n) % Size
  IN  IF n = b.num THEN [b EXCEPT !.first = (@ + 1) % Size]
      ELSE IF begin < end
      THEN [b EXCEPT !.arr = Move(b.arr, begin + 1, begin, end - begin)]
      ELSE [b EXCEPT !.arr = Move(b.arr, end + 1, end, begin - end), !.first = (@ + 1) % Size]

\* inf_chat_buffer_add_message_handler
AddMessage(b, m) ==
  LET n == Place(b, m.time, 0, b.num)
      r == IF b.num < Size THEN ReserveFree(b, n) ELSE ReserveFull(b, n)
      i == IF b.num < Size THEN n ELSE n - 1
  IN  IF n = 0 /\ b.num = Size THEN b
      ELSE [r EXCEPT !.arr[(r.first + i) % Size] = m]

\* Where it goes wrong: the buffer is full and the message is not the newest, or
\* the messages after it are shifted as if the first were at the array's begin.
Misplaces(b, m) ==
  LET n == Place(b, m.time, 0, b.num)
      a == Allocate(b)
  IN  /\ n > 0 /\ n < b.num
      /\ \/ b.num = Size
         \/ a.first > 0 /\ ~(n < a.num \div 2) /\ ~(n > a.num \div 2 /\ a.first + a.num = a.alloc)

\* A site gets the messages ms; [buffer, misplaced].
RECURSIVE AddAll(_, _)
AddAll(r, ms) ==
  IF ms = <<>> THEN r
  ELSE AddAll(<<AddMessage(r[1], Head(ms)), r[2] \/ Misplaces(r[1], Head(ms))>>, Tail(ms))

\* Site s adds the message m.
Add(s, m) ==
  /\ chat' = [chat EXCEPT ![s] = AddMessage(@, m)]
  /\ jumbled' = IF Misplaces(chat[s], m) THEN jumbled \union {s} ELSE jumbled
  /\ dropped' = IF chat[s].num = Size THEN dropped \union {s} ELSE dropped

(***************************************************************************)
(* The sessions                                                            *)
(***************************************************************************)
Message(id) == [id |-> id, time |-> now]
Running == {c \in Clients : state[c] # "none"}
ToOthers(c, m) == [d \in Clients |-> IF d # c /\ d \in Running THEN Append(down[d], m) ELSE down[d]]

\* The server synchronizes the chat to a client: inf_chat_session_to_xml_sync;
\* the messages keep their time.
Subscribe(c) ==
  /\ state[c] = "none" /\ down[c] = <<>> /\ up[c] = <<>>
  /\ state' = [state EXCEPT ![c] = "sync"]
  /\ down' = [down EXCEPT ![c] = <<[sync |-> Messages(chat[Server])]>>]
  /\ chat' = [chat EXCEPT ![c] = Empty]
  /\ jumbled' = jumbled \ {c} /\ dropped' = dropped \ {c}
  /\ UNCHANGED <<up, joined, now, jumps, count>>

\* inf_chat_session_add_user_cb, inf_chat_session_set_status_cb at the server: a
\* user-join message; the clients hear of the user and add one of their own.
Join(c) ==
  /\ state[c] = "run" /\ c \notin joined /\ count < MaxMessages
  /\ joined' = joined \union {c} /\ count' = count + 1
  /\ Add(Server, Message(count + 1))
  /\ down' = [d \in Clients |-> IF d \in Running THEN Append(down[d], [event |-> count + 1]) ELSE down[d]]
  /\ UNCHANGED <<up, state, now, jumps>>

\* A variant for the mutation checks: the handler that sends it is not blocked,
\* a message that was received is sent back.
ReceiveEcho(c) ==
  /\ up[c] # <<>> /\ up' = [up EXCEPT ![c] = Tail(@)]
  /\ IF c \in joined
     THEN Add(Server, Message(Head(up[c]))) /\ down' = [d \in Clients |-> IF d \in Running THEN Append(down[d], [event |-> Head(up[c])]) ELSE down[d]]
     ELSE UNCHANGED <<chat, jumbled, dropped, down>>
  /\ UNCHANGED <<state, joined, now, jumps, count>>

\* The user of client c says something: inf_chat_session_add_message_cb,
\* inf_chat_session_send_message_handler.
Say(c) ==
  /\ state[c] = "run" /\ c \in joined /\ count < MaxMessages
  /\ count' = count + 1
  /\ Add(c, Message(count + 1))
  /\ up' = [up EXCEPT ![c] = Append(@, count + 1)]
  /\ UNCHANGED <<down, state, joined, now, jumps>>

\* inf_chat_session_process_xml_run at the server: the message is refused unless
\* its user has joined from this connection, and forwarded to the others.
Receive(c) ==
  /\ up[c] # <<>> /\ up' = [up EXCEPT ![c] = Tail(@)]
  /\ IF c \in joined
     THEN Add(Server, Message(Head(up[c]))) /\ down' = ToOthers(c, [event |-> Head(up[c])])
     ELSE UNCHANGED <<chat, jumbled, dropped, down>>
  /\ UNCHANGED <<state, joined, now, jumps, count>>

\* inf_chat_session_process_xml_sync and inf_chat_session_process_xml_run at a
\* client.
ClientReceive(c) ==
  LET m == Head(down[c])
  IN  /\ down[c] # <<>> /\ down' = [down EXCEPT ![c] = Tail(@)]
      /\ IF "sync" \in DOMAIN m
         THEN LET r == AddAll(<<chat[c], FALSE>>, m.sync)
              IN  /\ chat' = [chat EXCEPT ![c] = r[1]]
                  /\ jumbled' = IF r[2] THEN jumbled \union {c} ELSE jumbled
                  /\ state' = [state EXCEPT ![c] = "run"] /\ UNCHANGED dropped
         ELSE Add(c, Message(m.event)) /\ UNCHANGED state
      /\ UNCHANGED <<up, joined, now, jumps, count>>

\* The client is lost; its user parts at the server and at the others.
Lose(c) ==
  /\ state[c] # "none" /\ (c \in joined => count < MaxMessages)
  /\ state' = [state EXCEPT ![c] = "none"] /\ joined' = joined \ {c}
  /\ up' = [up EXCEPT ![c] = <<>>]
  /\ IF c \in joined
     THEN /\ Add(Server, Message(count + 1)) /\ count' = count + 1
          /\ down' = [ToOthers(c, [event |-> count + 1]) EXCEPT ![c] = <<>>]
     ELSE down' = [down EXCEPT ![c] = <<>>] /\ UNCHANGED <<chat, jumbled, dropped, count>>
  /\ UNCHANGED <<now, jumps>>

Tick == now < MaxTime /\ now' = now + 1 /\ UNCHANGED <<chat, up, down, state, joined, jumps, count, jumbled, dropped>>
SetBack ==
  /\ jumps < Jumps /\ now > 1
  /\ jumps' = jumps + 1 /\ now' = now - 1
  /\ UNCHANGED <<chat, up, down, state, joined, count, jumbled, dropped>>

Next ==
  \/ \E c \in Clients : Subscribe(c) \/ Join(c) \/ Say(c) \/ Receive(c) \/ ClientReceive(c) \/ Lose(c)
  \/ Tick \/ SetBack
Spec == Init /\ [][Next]_chatVars

(***************************************************************************)
(* Properties                                                              *)
(***************************************************************************)
Ids(s) == {Messages(chat[s])[i].id : i \in 1..chat[s].num}
InOrder(s) ==
  LET ms == Messages(chat[s])
  IN  /\ \A i, j \in DOMAIN ms : i < j => ms[i].time <= ms[j].time
      /\ Cardinality(Ids(s)) = chat[s].num /\ 0 \notin Ids(s)

\* The messages of a buffer are ordered by their time, each is there once, also if
\* the clock is set back; except in the two cases in which the code shifts the
\* wrong messages.
MostlyOrdered == \A s \in Sites \ jumbled : InOrder(s)

\* Once all messages have arrived, a client has the messages of the server,
\* unless a buffer was full.
ChatAgrees == \A c \in Clients :
  (/\ state[c] = "run" /\ (\A d \in Clients : up[d] = <<>>) /\ down[c] = <<>>
   /\ {c, Server} \intersect (jumbled \union dropped) = {}) => Ids(c) = Ids(Server) /\ chat[c].num = chat[Server].num

\* "Messages are ordered according to their time, if there are multiple messages
\* with the time, the new message is inserted after the messages with the same
\* time."
MessagesOrdered == \A s \in Sites : InOrder(s)
================================================================================
