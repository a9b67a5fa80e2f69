------------------------- MODULE CommunicationProofs -------------------------
(* Proofs about groups and the registry, for every set of clients and groups, *)
(* every Limit and every budget.                                              *)
EXTENDS Communication, SequenceTheorems, TLAPS

-----------------------------------------------------------------------------
(* Sequences *)

(* A queue that is cut in two                                                *)
LEMMA CutSeq ==
  ASSUME NEW S, NEW s \in Seq(S), NEW k \in 0 .. Len(s)
  PROVE  /\ SubSeq(s, 1, k) \in Seq(S) /\ Len(SubSeq(s, 1, k)) = k
         /\ SubSeq(s, k + 1, Len(s)) \in Seq(S) /\ Len(SubSeq(s, k + 1, Len(s))) = Len(s) - k
         /\ SubSeq(s, 1, k) \o SubSeq(s, k + 1, Len(s)) = s
<1>1. Len(s) \in Nat /\ \A i \in 1 .. Len(s) : s[i] \in S
  BY LenProperties, ElementOfSeq
<1>2. SubSeq(s, 1, k) \in Seq(S) /\ Len(SubSeq(s, 1, k)) = k
  BY <1>1, SubSeqProperties
<1>3. SubSeq(s, k + 1, Len(s)) \in Seq(S) /\ Len(SubSeq(s, k + 1, Len(s))) = Len(s) - k
  BY <1>1, SubSeqProperties
<1>4. SubSeq(s, 1, k) \o SubSeq(s, k + 1, Len(s)) = SubSeq(s, 1, Len(s))
  <2>1. 1 \in 1 .. Len(s) + 1 /\ k \in 1 - 1 .. Len(s) /\ Len(s) \in k .. Len(s)
    BY <1>1
  <2> QED BY <2>1, ConcatAdjacentSubSeq
<1> QED BY <1>2, <1>3, <1>4, SubSeqFull

(* What comes off the front of two queues in a row                           *)
LEMMA TailConcat ==
  ASSUME NEW S, NEW s \in Seq(S), NEW t \in Seq(S), s # <<>>
  PROVE  /\ Tail(s \o t) = Tail(s) \o t
         /\ <<Head(s)>> \o Tail(s) = s
         /\ Len(s \o t) # 0
<1>1. /\ Tail(s) \in Seq(S) /\ Head(s) \in S /\ Len(Tail(s)) = Len(s) - 1 /\ Head(s) = s[1]
      /\ \A i \in 1 .. Len(Tail(s)) : Tail(s)[i] = s[i + 1]
      /\ Len(s) \in Nat \ {0} /\ Len(t) \in Nat
  BY HeadTailProperties, EmptySeq, LenProperties
<1>2. /\ s \o t \in Seq(S) /\ Len(s \o t) = Len(s) + Len(t)
      /\ \A i \in 1 .. Len(s) + Len(t) : (s \o t)[i] = IF i <= Len(s) THEN s[i] ELSE t[i - Len(s)]
  BY ConcatProperties
<1>3. s \o t # <<>>
  BY <1>1, <1>2
<1>4. /\ Tail(s \o t) \in Seq(S) /\ Len(Tail(s \o t)) = Len(s \o t) - 1
      /\ \A i \in 1 .. Len(Tail(s \o t)) : Tail(s \o t)[i] = (s \o t)[i + 1]
  BY <1>2, <1>3, HeadTailProperties
<1>5. /\ Tail(s) \o t \in Seq(S) /\ Len(Tail(s) \o t) = Len(Tail(s)) + Len(t)
      /\ \A i \in 1 .. Len(Tail(s)) + Len(t) :
           (Tail(s) \o t)[i] = IF i <= Len(Tail(s)) THEN Tail(s)[i] ELSE t[i - Len(Tail(s))]
  BY <1>1, ConcatProperties
<1>6. Tail(s \o t) = Tail(s) \o t
  <2>1. Len(Tail(s \o t)) = Len(Tail(s) \o t)
    BY <1>1, <1>2, <1>4, <1>5
  <2>2. ASSUME NEW i \in 1 .. Len(Tail(s \o t))
        PROVE  Tail(s \o t)[i] = (Tail(s) \o t)[i]
    <3>1. i \in 1 .. Len(Tail(s)) + Len(t) /\ i + 1 \in 1 .. Len(s) + Len(t)
      BY <1>1, <1>2, <1>4, <1>5
    <3>2. CASE i <= Len(Tail(s))
      BY <3>1, <3>2, <1>1, <1>2, <1>4, <1>5
    <3>3. CASE ~(i <= Len(Tail(s)))
      <4>1. ~(i + 1 <= Len(s)) /\ i + 1 - Len(s) = i - Len(Tail(s))
        BY <3>1, <3>3, <1>1
      <4> QED BY <4>1, <3>1, <3>3, <1>2, <1>4, <1>5
    <3> QED BY <3>2, <3>3
  <2> QED BY <2>1, <2>2, <1>4, <1>5, SeqEqual
<1>7. <<Head(s)>> \o Tail(s) = s
  <2>1. /\ <<Head(s)>> \in Seq(S) /\ Len(<<Head(s)>>) = 1 /\ <<Head(s)>>[1] = s[1]
    BY <1>1
  <2>2. /\ <<Head(s)>> \o Tail(s) \in Seq(S) /\ Len(<<Head(s)>> \o Tail(s)) = 1 + Len(Tail(s))
        /\ \A i \in 1 .. 1 + Len(Tail(s)) :
             (<<Head(s)>> \o Tail(s))[i] = IF i <= 1 THEN <<Head(s)>>[i] ELSE Tail(s)[i - 1]
    BY <2>1, <1>1, ConcatProperties
  <2>3. ASSUME NEW i \in 1 .. Len(s)
        PROVE  (<<Head(s)>> \o Tail(s))[i] = s[i]
    <3>1. CASE i = 1
      BY <3>1, <2>1, <2>2, <1>1
    <3>2. CASE i # 1
      BY <3>2, <2>2, <1>1
    <3> QED BY <3>1, <3>2
  <2> QED BY <2>2, <2>3, <1>1, SeqEqual
<1> QED BY <1>2, <1>3, <1>6, <1>7, <1>1

-----------------------------------------------------------------------------
(* Entries of the registry *)

Messages == [by : Ends \cup {Nobody}, n : Nat, scope : {"ptp", "group"}, epoch : Nat]

Entry == [known : BOOLEAN, registered : BOOLEAN, inner : Nat, act : Nat,
          queue : Seq(Messages), flight : Seq(Messages)]

(* Sequences of messages in a row                                             *)
LEMMA Associate == \A s, t, u \in Seq(Messages) : (s \o t) \o u = s \o (t \o u)
BY ConcatAssociative

(* What an entry still has to report as sent, in order                       *)
Rest(p) == p.flight \o p.queue

(* How many messages those are                                               *)
Flying(p) == Len(p.flight)
Queued(p) == Len(p.queue)
Total(p) == Len(Rest(p))

(* The counts of an entry are right, also those of one that was registered    *)
(* again.                                                                    *)
Counted(p) == Sound(p) /\ (p.known => p.act <= Total(p))

(* The first messages, as many as the activation count says, belong to        *)
(* registrations before the n-th; the others were sent in the n-th.           *)
Dated(p, n) ==
  p.known => \A i \in 1 .. Total(p) :
               /\ Rest(p)[i].epoch <= n
               /\ i > p.act <=> p.registered /\ Rest(p)[i].epoch = n

PortOK(p, n) == Counted(p) /\ Dated(p, n)

(* The queues are sequences, and their lengths add up.                        *)
LEMMA RestType ==
  ASSUME NEW p \in Entry
  PROVE  /\ p.flight \in Seq(Messages) /\ p.queue \in Seq(Messages)
         /\ Rest(p) \in Seq(Messages) /\ DOMAIN Rest(p) = 1 .. Total(p)
         /\ Flying(p) \in Nat /\ Queued(p) \in Nat /\ Total(p) \in Nat
         /\ Total(p) = Flying(p) + Queued(p)
         /\ p.flight = <<>> <=> Flying(p) = 0
         /\ p.queue = <<>> <=> Queued(p) = 0
         /\ p.inner \in Nat /\ p.act \in Nat
<1>1. /\ p.flight \in Seq(Messages) /\ p.queue \in Seq(Messages)
      /\ p.inner \in Nat /\ p.act \in Nat
  BY DEF Entry
<1>2. Rest(p) \in Seq(Messages) /\ Total(p) = Flying(p) + Queued(p)
  BY <1>1, ConcatProperties DEF Rest, Total, Flying, Queued
<1>3. Total(p) \in Nat /\ DOMAIN Rest(p) = 1 .. Total(p)
  BY <1>2, LenProperties DEF Total
<1>4. /\ Flying(p) \in Nat /\ Queued(p) \in Nat
      /\ (p.flight = <<>> <=> Flying(p) = 0) /\ (p.queue = <<>> <=> Queued(p) = 0)
  BY <1>1, EmptySeq, LenProperties DEF Flying, Queued
<1> QED BY <1>1, <1>2, <1>3, <1>4

(* The same, when nothing is queued, or nothing given to the connection        *)
LEMMA RestOf ==
  ASSUME NEW p \in Entry
  PROVE  /\ p.queue = <<>> => Rest(p) = p.flight
         /\ p.flight = <<>> /\ p.queue = <<>> => Rest(p) = <<>>
         /\ \A i \in 1 .. Flying(p) : Rest(p)[i] = p.flight[i]
         /\ p.flight # <<>> =>
              /\ Rest(p) # <<>>
              /\ Tail(Rest(p)) = Tail(p.flight) \o p.queue
              /\ <<Head(p.flight)>> \o Tail(Rest(p)) = Rest(p)
<1>1. p.flight \in Seq(Messages) /\ p.queue \in Seq(Messages)
  BY DEF Entry
<1>2. p.queue = <<>> => Rest(p) = p.flight
  BY <1>1, ConcatEmptySeq DEF Rest
<1>3. \A i \in 1 .. Flying(p) : Rest(p)[i] = p.flight[i]
  <2>1. \A i \in 1 .. Len(p.flight) + Len(p.queue) :
          (p.flight \o p.queue)[i] = IF i <= Len(p.flight) THEN p.flight[i]
                                     ELSE p.queue[i - Len(p.flight)]
    BY <1>1, ConcatProperties
  <2>2. Flying(p) \in Nat /\ Queued(p) \in Nat
    BY RestType
  <2>3. \A i \in 1 .. Flying(p) + Queued(p) :
          Rest(p)[i] = IF i <= Flying(p) THEN p.flight[i] ELSE p.queue[i - Flying(p)]
    BY <2>1 DEF Flying, Queued, Rest
  <2> QED BY <2>2, <2>3
<1>4. ASSUME p.flight # <<>>
      PROVE  /\ Rest(p) # <<>>
             /\ Tail(Rest(p)) = Tail(p.flight) \o p.queue
             /\ <<Head(p.flight)>> \o Tail(Rest(p)) = Rest(p)
  <2>1. Tail(p.flight \o p.queue) = Tail(p.flight) \o p.queue
    BY <1>1, <1>4, TailConcat
  <2>2. <<Head(p.flight)>> \o Tail(p.flight) = p.flight
    BY <1>1, <1>4, TailConcat
  <2>3. /\ <<Head(p.flight)>> \in Seq(Messages) /\ Tail(p.flight) \in Seq(Messages)
    BY <1>1, <1>4, HeadTailProperties
  <2>4. \A s, t, u \in Seq(Messages) : (s \o t) \o u = s \o (t \o u)
    BY Associate
  <2>5. <<Head(p.flight)>> \o (Tail(p.flight) \o p.queue) = p.flight \o p.queue
    <3> DEFINE h == <<Head(p.flight)>>
               t == Tail(p.flight)
    <3>1. h \in Seq(Messages) /\ t \in Seq(Messages) /\ h \o t = p.flight
      BY <2>2, <2>3
    <3> HIDE DEF h, t
    <3>2. (h \o t) \o p.queue = h \o (t \o p.queue)
      BY <1>1, <2>4, <3>1
    <3>3. h \o (t \o p.queue) = p.flight \o p.queue
      BY <3>1, <3>2
    <3> QED BY <3>3 DEF h, t
  <2>6. Rest(p) # <<>>
    <3>1. Flying(p) # 0 /\ Flying(p) \in Nat /\ Queued(p) \in Nat /\ Total(p) = Flying(p) + Queued(p)
      BY <1>4, RestType
    <3>2. Total(p) # 0
      BY <3>1
    <3>3. Rest(p) = <<>> => Total(p) = 0
      BY EmptySeq DEF Total
    <3> QED BY <3>2, <3>3
  <2> QED BY <2>1, <2>5, <2>6 DEF Rest
<1>5. p.flight = <<>> /\ p.queue = <<>> => Rest(p) = <<>>
  BY <1>2
<1> QED BY <1>2, <1>3, <1>4, <1>5

(* The counts, in numbers                                                     *)
LEMMA CountedIs ==
  ASSUME NEW p \in Entry
  PROVE  Counted(p) <=>
           /\ p.known => p.inner = Flying(p) /\ p.act <= Total(p)
           /\ ~p.known => Queued(p) = 0 /\ ~p.registered
           /\ Queued(p) # 0 => p.inner > 0
           /\ p.known /\ ~p.registered => p.act = p.inner + Queued(p) /\ p.act > 0
           /\ p.inner <= Limit
<1>1. Flying(p) = Len(p.flight) /\ Queued(p) = Len(p.queue)
  BY DEF Flying, Queued
<1>2. p.queue = <<>> <=> Queued(p) = 0
  BY RestType
<1> QED BY <1>1, <1>2 DEF Counted, Sound

(* The message that is appended                                              *)
LEMMA AppendMessage ==
  ASSUME NEW s \in Seq(Messages), NEW m \in Messages
  PROVE  /\ Append(s, m) \in Seq(Messages) /\ Len(s) \in Nat
         /\ Len(Append(s, m)) = Len(s) + 1
         /\ \A i \in 1 .. Len(s) : Append(s, m)[i] = s[i]
         /\ Append(s, m)[Len(s) + 1] = m
         /\ Append(s, m) = s \o <<m>> /\ <<m>> \in Seq(Messages)
BY AppendProperties, AppendIsConcat, LenProperties

(* An entry that is not in the hash table                                     *)
LEMMA NoEntryOK ==
  /\ NoEntry \in Entry
  /\ \A f \in Seq(Messages) : [NoEntry EXCEPT !.flight = f] \in Entry
  /\ \A f \in Seq(Messages), n \in Nat : PortOK([NoEntry EXCEPT !.flight = f], n)
  /\ Rest(NoEntry) = <<>>
<1>1. <<>> \in Seq(Messages)
  BY EmptySeq
<1>2. NoEntry \in Entry
  BY <1>1 DEF NoEntry, Entry
<1>3. <<>> \o <<>> = <<>>
  BY <1>1, ConcatEmptySeq
<1>4. Rest(NoEntry) = <<>>
  BY <1>3 DEF Rest, NoEntry
<1>5. ASSUME NEW f \in Seq(Messages)
      PROVE  /\ [NoEntry EXCEPT !.flight = f] \in Entry
             /\ \A n \in Nat : PortOK([NoEntry EXCEPT !.flight = f], n)
  <2> DEFINE r == [NoEntry EXCEPT !.flight = f]
  <2>1. /\ r.known = FALSE /\ r.registered = FALSE /\ r.inner = 0 /\ r.act = 0
        /\ r.queue = <<>> /\ r.flight = f
    BY DEF NoEntry
  <2>3. r \in Entry
    BY <1>1 DEF Entry, NoEntry
  <2> HIDE DEF r
  <2>4. \A n \in Nat : PortOK(r, n)
    BY <2>1, LimitAssumption DEF PortOK, Counted, Dated, Sound
  <2> QED BY <2>3, <2>4 DEF r
<1> QED BY <1>2, <1>4, <1>5

(* inf_communication_registry_send_real gives messages to the connection; it  *)
(* changes neither what the entry has to report nor the order.                *)
LEMMA SendRealMoves ==
  ASSUME NEW p \in Entry, NEW n \in Nat
  PROVE  /\ SendReal(p, n) \in Entry /\ Rest(SendReal(p, n)) = Rest(p)
         /\ SendReal(p, n).known = p.known /\ SendReal(p, n).registered = p.registered
         /\ SendReal(p, n).act = p.act
         /\ \E k \in Nat :
              /\ k = IF Queued(p) < n THEN Queued(p) ELSE n
              /\ SendReal(p, n).inner = p.inner + k
              /\ Flying(SendReal(p, n)) = Flying(p) + k
              /\ Queued(SendReal(p, n)) = Queued(p) - k
<1> DEFINE q == SendReal(p, n)
           k == IF Len(p.queue) < n THEN Len(p.queue) ELSE n
           a == SubSeq(p.queue, 1, k)
           b == SubSeq(p.queue, k + 1, Len(p.queue))
<1>1. p.flight \in Seq(Messages) /\ p.queue \in Seq(Messages) /\ p.inner \in Nat
  BY DEF Entry
<1>2. k \in 0 .. Len(p.queue) /\ k \in Nat /\ Len(p.queue) \in Nat
  BY RestType DEF Queued
<1>3. a \in Seq(Messages) /\ Len(a) = k /\ b \in Seq(Messages) /\ Len(b) = Len(p.queue) - k
      /\ a \o b = p.queue
  BY <1>1, <1>2, CutSeq
<1>4. q = [p EXCEPT !.queue = b, !.inner = p.inner + k, !.flight = p.flight \o a]
  BY DEF SendReal, Entry
<1> HIDE DEF a, b, k, q
<1>5. p.flight \o a \in Seq(Messages) /\ Len(p.flight \o a) = Len(p.flight) + k
  BY <1>1, <1>3, ConcatProperties
<1>6. p.inner + k \in Nat
  BY <1>1, <1>2
<1>7. /\ q \in Entry
      /\ q.known = p.known /\ q.registered = p.registered /\ q.act = p.act
      /\ q.inner = p.inner + k /\ q.queue = b /\ q.flight = p.flight \o a
  <2> DEFINE i == p.inner + k
             f == p.flight \o a
  <2>1. i \in Nat /\ f \in Seq(Messages) /\ q = [p EXCEPT !.queue = b, !.inner = i, !.flight = f]
    BY <1>4, <1>5, <1>6
  <2> HIDE DEF i, f
  <2>2. /\ q \in Entry
        /\ q.known = p.known /\ q.registered = p.registered /\ q.act = p.act
        /\ q.inner = i /\ q.queue = b /\ q.flight = f
    BY <1>3, <2>1 DEF Entry
  <2> QED BY <2>2 DEF i, f
<1>8. (p.flight \o a) \o b = p.flight \o (a \o b)
  <2>1. \A s, t, u \in Seq(Messages) : (s \o t) \o u = s \o (t \o u)
    BY Associate
  <2> QED BY <1>1, <1>3, <2>1
<1>9. Rest(q) = Rest(p)
  BY <1>3, <1>7, <1>8 DEF Rest
<1>10. k = IF Queued(p) < n THEN Queued(p) ELSE n
  BY DEF k, Queued
<1> HIDE DEF k
<1>11. /\ q \in Entry /\ Rest(q) = Rest(p)
       /\ q.known = p.known /\ q.registered = p.registered /\ q.act = p.act
       /\ q.inner = p.inner + k
       /\ Flying(q) = Flying(p) + k /\ Queued(q) = Queued(p) - k
  BY <1>3, <1>5, <1>7, <1>9 DEF Flying, Queued
<1> QED BY <1>2, <1>10, <1>11 DEF q

(* inf_communication_registry_entry_free keeps what an open connection is     *)
(* still to send.                                                             *)
LEMMA EntryFreeKeeps ==
  ASSUME NEW p \in Entry
  PROVE  /\ EntryFree(p, TRUE) \in Entry
         /\ \A n \in Nat : PortOK(EntryFree(p, TRUE), n)
         /\ Rest(EntryFree(p, TRUE)) = Rest(p)
         /\ ~EntryFree(p, TRUE).known /\ ~EntryFree(p, TRUE).registered
<1>1. p.flight \in Seq(Messages) /\ p.queue \in Seq(Messages) /\ Queued(p) \in Nat
  BY RestType
<1>2. CASE p.queue # <<>>
  <2> DEFINE q == SendReal(p, Queued(p))
             r == [NoEntry EXCEPT !.flight = q.flight]
  <2>1. q \in Entry /\ Rest(q) = Rest(p)
    BY <1>1, SendRealMoves
  <2>2. q.queue = <<>> /\ q.flight \in Seq(Messages)
    <3>1. PICK k \in Nat : /\ k = IF Queued(p) < Queued(p) THEN Queued(p) ELSE Queued(p)
                           /\ Queued(q) = Queued(p) - k
      BY <1>1, SendRealMoves
    <3>2. Queued(q) = 0
      BY <1>1, <3>1
    <3> QED BY <2>1, <3>2, RestType
  <2>3. EntryFree(p, TRUE) = r
    BY <1>2 DEF EntryFree, Queued
  <2> HIDE DEF q
  <2>4. r.flight = q.flight /\ r.queue = <<>> /\ ~r.known /\ ~r.registered
    BY DEF NoEntry
  <2>5. Rest(r) = Rest(q)
    BY <2>2, <2>4 DEF Rest
  <2>6. r \in Entry /\ \A n \in Nat : PortOK(r, n)
    BY <2>2, NoEntryOK
  <2> QED BY <2>1, <2>3, <2>4, <2>5, <2>6
<1>3. CASE p.queue = <<>>
  <2> DEFINE r == [NoEntry EXCEPT !.flight = p.flight]
  <2>1. EntryFree(p, TRUE) = r
    BY <1>3 DEF EntryFree
  <2>2. r.flight = p.flight /\ r.queue = <<>> /\ ~r.known /\ ~r.registered
    BY DEF NoEntry
  <2>3. Rest(r) = Rest(p)
    BY <2>2, <1>3 DEF Rest
  <2>4. r \in Entry /\ \A n \in Nat : PortOK(r, n)
    BY <1>1, NoEntryOK
  <2> QED BY <2>1, <2>2, <2>3, <2>4
<1> QED BY <1>2, <1>3

(* inf_communication_registry_send: the message comes last.  An entry with    *)
(* nothing given to the connection has nothing queued either.                 *)
LEMMA SendKeeps ==
  ASSUME NEW p \in Entry, NEW n \in Nat, PortOK(p, n), p.known, p.registered,
         NEW m \in Messages, m.epoch = n
  PROVE  /\ Send(p, m) \in Entry /\ PortOK(Send(p, m), n)
         /\ Rest(Send(p, m)) = Append(Rest(p), m)
         /\ Send(p, m).known /\ Send(p, m).registered
         /\ p.flight # <<>> => Send(p, m).flight # <<>>
<1> DEFINE q == [p EXCEPT !.queue = Append(@, m)]
<1>1. Append(p.queue, m) \in Seq(Messages)
  BY RestType, AppendMessage
<1>2. /\ q \in Entry /\ q.known /\ q.registered /\ q.act = p.act
      /\ q.inner = p.inner /\ q.flight = p.flight /\ q.queue = Append(p.queue, m)
  BY <1>1 DEF Entry
<1> HIDE DEF q
<1>3. Flying(q) = Flying(p) /\ Queued(q) = Queued(p) + 1
  BY <1>2, RestType, AppendMessage DEF Flying, Queued
<1>4. Rest(q) = Append(Rest(p), m)
  <2>1. /\ \A s, t, u \in Seq(Messages) : (s \o t) \o u = s \o (t \o u)
        /\ \A s \in Seq(Messages) : Append(s, m) = s \o <<m>>
        /\ <<m>> \in Seq(Messages)
    <3>1. \A s, t, u \in Seq(Messages) : (s \o t) \o u = s \o (t \o u)
      BY Associate
    <3>2. \A s \in Seq(Messages) : Append(s, m) = s \o <<m>>
      BY AppendMessage
    <3> QED BY <3>1, <3>2
  <2>2. p.flight \in Seq(Messages) /\ p.queue \in Seq(Messages) /\ Rest(p) \in Seq(Messages)
    BY RestType
  <2>3. p.flight \o (p.queue \o <<m>>) = (p.flight \o p.queue) \o <<m>>
    BY <2>1, <2>2
  <2> QED BY <1>2, <2>1, <2>2, <2>3 DEF Rest
<1>5. /\ Total(p) \in Nat /\ Total(q) = Total(p) + 1
      /\ \A i \in 1 .. Total(p) : Rest(q)[i] = Rest(p)[i]
      /\ Rest(q)[Total(p) + 1] = m
  <2>1. Rest(p) \in Seq(Messages)
    BY RestType
  <2> QED BY <1>4, <2>1, AppendMessage DEF Total
<1>6. /\ p.inner \in Nat /\ p.act \in Nat /\ Flying(p) \in Nat /\ Queued(p) \in Nat
      /\ p.inner = Flying(p) /\ p.act <= Total(p) /\ p.inner <= Limit
      /\ Queued(p) # 0 => p.inner > 0
  BY RestType, CountedIs DEF PortOK
<1>7. Dated(q, n)
  <2> SUFFICES ASSUME NEW i \in 1 .. Total(q)
               PROVE  /\ Rest(q)[i].epoch <= n
                      /\ i > p.act <=> Rest(q)[i].epoch = n
    BY <1>2 DEF Dated
  <2>1. CASE i \in 1 .. Total(p)
    BY <1>5, <2>1 DEF PortOK, Dated
  <2>2. CASE i = Total(p) + 1
    BY <1>5, <1>6, <2>2
  <2> QED BY <1>5, <2>1, <2>2
<1>8. CASE p.inner # 0
  <2>1. Send(p, m) = q
    BY <1>8, <1>2 DEF Send, q
  <2>2. Counted(q)
    BY <1>2, <1>3, <1>5, <1>6, <1>8, CountedIs
  <2> QED BY <1>2, <1>4, <1>7, <2>1, <2>2 DEF PortOK
<1>9. CASE p.inner = 0
  <2> DEFINE N == Limit - p.inner
             r == SendReal(q, N)
  <2>1. Send(p, m) = r
    BY <1>9, <1>2 DEF Send, q
  <2>2. N \in Nat /\ N >= 1 /\ Queued(q) = 1 /\ Flying(q) = 0
    BY <1>3, <1>6, <1>9, LimitAssumption
  <2> HIDE DEF N
  <2>3. PICK k \in Nat :
          /\ k = IF Queued(q) < N THEN Queued(q) ELSE N
          /\ r.inner = q.inner + k
          /\ Flying(r) = Flying(q) + k /\ Queued(r) = Queued(q) - k
    BY <1>2, <2>2, SendRealMoves
  <2>4. /\ r \in Entry /\ Rest(r) = Rest(q)
        /\ r.known = q.known /\ r.registered = q.registered /\ r.act = q.act
    BY <1>2, <2>2, SendRealMoves
  <2> HIDE DEF r
  <2>5. r.inner = 1 /\ Flying(r) = 1 /\ Queued(r) = 0
    BY <1>2, <1>9, <2>2, <2>3
  <2>6. r.flight # <<>> /\ r.known /\ r.registered
    BY <1>2, <2>4, <2>5, RestType, SMTT(30)
  <2>7. Total(r) = Total(q)
    BY <2>4 DEF Total
  <2>8. Counted(r)
    <3>1. r.act <= Total(r) /\ 1 <= Limit
      BY <1>2, <1>5, <1>6, <2>4, <2>7, LimitAssumption
    <3> QED BY <2>4, <2>5, <2>6, <3>1, CountedIs
  <2>9. Dated(r, n)
    BY <1>2, <1>7, <2>4, <2>7 DEF Dated
  <2> QED BY <1>4, <2>1, <2>4, <2>6, <2>8, <2>9 DEF PortOK
<1> QED BY <1>8, <1>9

(* inf_communication_registry_register: everything that is left from before   *)
(* is counted, and belongs to a registration that is over.                    *)
LEMMA RegisterKeeps ==
  ASSUME NEW p \in Entry, NEW n \in Nat, PortOK(p, n), ~p.registered,
         p.known \/ p.flight = <<>>
  PROVE  /\ Register(p) \in Entry /\ PortOK(Register(p), n + 1)
         /\ Rest(Register(p)) = Rest(p) /\ Register(p).flight = p.flight
         /\ Register(p).known /\ Register(p).registered
<1>1. CASE p.known
  <2> DEFINE q == [p EXCEPT !.registered = TRUE]
  <2>1. /\ q \in Entry /\ q.known /\ q.registered /\ q.act = p.act
        /\ q.inner = p.inner /\ q.flight = p.flight /\ q.queue = p.queue
    BY <1>1 DEF Entry
  <2>2. Register(p) = q
    BY <1>1 DEF Register
  <2> HIDE DEF q
  <2>3. Rest(q) = Rest(p) /\ Flying(q) = Flying(p) /\ Queued(q) = Queued(p)
    BY <2>1 DEF Rest, Flying, Queued
  <2>4. Total(q) = Total(p)
    BY <2>3 DEF Total
  <2>5. p.act = Total(p) /\ Total(p) \in Nat
    BY <1>1, RestType, CountedIs DEF PortOK
  <2>6. Counted(q)
    BY <1>1, <2>1, <2>3, <2>4, <2>5, CountedIs DEF PortOK
  <2>7. Dated(q, n + 1)
    <3> SUFFICES ASSUME NEW i \in 1 .. Total(p)
                 PROVE  /\ Rest(p)[i].epoch <= n + 1
                        /\ i > p.act <=> Rest(p)[i].epoch = n + 1
      BY <2>1, <2>3, <2>4 DEF Dated
    <3>1. Rest(p)[i].epoch <= n
      BY <1>1 DEF PortOK, Dated
    <3>2. Rest(p)[i].epoch \in Nat
      <4>1. Rest(p)[i] \in Messages
        BY RestType, ElementOfSeq DEF Total
      <4> QED BY <4>1 DEF Messages
    <3> QED BY <2>5, <3>1, <3>2
  <2> QED BY <2>1, <2>2, <2>3, <2>6, <2>7 DEF PortOK
<1>2. CASE ~p.known
  <2> DEFINE q == [NoEntry EXCEPT !.known = TRUE, !.registered = TRUE, !.flight = p.flight]
  <2>1. p.flight = <<>> /\ p.queue = <<>> /\ <<>> \in Seq(Messages)
    BY <1>2, EmptySeq DEF PortOK, Counted, Sound
  <2>2. /\ q \in Entry /\ q.known /\ q.registered /\ q.act = 0
        /\ q.inner = 0 /\ q.flight = <<>> /\ q.queue = <<>>
    BY <2>1 DEF Entry, NoEntry
  <2>3. Register(p) = q
    BY <1>2 DEF Register
  <2> HIDE DEF q
  <2>4. Rest(q) = Rest(p)
    BY <2>1, <2>2 DEF Rest
  <2>5. Flying(q) = 0 /\ Queued(q) = 0 /\ Total(q) = 0
    BY <2>2, RestType
  <2>6. Counted(q)
    BY <2>2, <2>5, CountedIs, LimitAssumption
  <2>7. Dated(q, n + 1)
    BY <2>5 DEF Dated
  <2> QED BY <2>1, <2>2, <2>3, <2>4, <2>6, <2>7 DEF PortOK
<1> QED BY <1>1, <1>2

(* inf_communication_registry_unregister, with the connection open: the entry *)
(* stays if there is something left to report.                                *)
LEMMA UnregisterKeeps ==
  ASSUME NEW p \in Entry, NEW n \in Nat, PortOK(p, n), p.known, p.registered
  PROVE  /\ Unregister(p, TRUE) \in Entry /\ PortOK(Unregister(p, TRUE), n)
         /\ ~Unregister(p, TRUE).registered
         /\ p.flight # <<>> => Unregister(p, TRUE).known /\ Unregister(p, TRUE).flight # <<>>
<1>1. /\ p.inner \in Nat /\ p.inner = Flying(p) /\ p.inner <= Limit
      /\ Queued(p) # 0 => p.inner > 0
      /\ Queued(p) \in Nat /\ Total(p) \in Nat /\ Total(p) = Flying(p) + Queued(p)
      /\ (p.flight = <<>> <=> Flying(p) = 0) /\ (p.queue = <<>> <=> Queued(p) = 0)
  BY RestType, CountedIs DEF PortOK
<1>2. CASE p.queue # <<>> \/ p.inner > 0
  <2> DEFINE a == p.inner + Queued(p)
             q == [p EXCEPT !.registered = FALSE, !.act = a]
  <2>1. Unregister(p, TRUE) = q
    BY <1>2 DEF Unregister, Queued
  <2>2. a \in Nat /\ a > 0 /\ a = Total(p)
    BY <1>1, <1>2
  <2> HIDE DEF a
  <2>3. /\ q \in Entry /\ q.known /\ ~q.registered /\ q.act = a
        /\ q.inner = p.inner /\ q.flight = p.flight /\ q.queue = p.queue
    BY <2>2 DEF Entry
  <2> HIDE DEF q
  <2>4. Rest(q) = Rest(p) /\ Flying(q) = Flying(p) /\ Queued(q) = Queued(p)
    BY <2>3 DEF Rest, Flying, Queued
  <2>5. Total(q) = Total(p)
    BY <2>4 DEF Total
  <2>6. Counted(q)
    BY <1>1, <2>2, <2>3, <2>4, <2>5, CountedIs DEF a
  <2>7. Dated(q, n)
    <3> SUFFICES ASSUME NEW i \in 1 .. Total(p)
                 PROVE  Rest(p)[i].epoch <= n /\ ~(i > a)
      BY <2>3, <2>4, <2>5 DEF Dated
    <3>1. Rest(p)[i].epoch <= n
      BY DEF PortOK, Dated
    <3> QED BY <1>1, <2>2, <3>1
  <2> QED BY <2>1, <2>3, <2>6, <2>7 DEF PortOK
<1>3. CASE ~(p.queue # <<>> \/ p.inner > 0)
  <2>1. Unregister(p, TRUE) = EntryFree(p, TRUE)
    BY <1>3 DEF Unregister
  <2>2. p.flight = <<>>
    BY <1>1, <1>3
  <2> QED BY <2>1, <2>2, EntryFreeKeeps
<1> QED BY <1>2, <1>3

(* inf_communication_registry_cancel_messages, when the messages of earlier   *)
(* registrations are sent                                                     *)
LEMMA CancelKeeps ==
  ASSUME NEW p \in Entry, NEW n \in Nat, PortOK(p, n), p.known, p.registered, p.act = 0
  PROVE  /\ CancelMessages(p) \in Entry /\ PortOK(CancelMessages(p), n)
         /\ CancelMessages(p).known /\ CancelMessages(p).registered
         /\ CancelMessages(p).flight = p.flight
<1> DEFINE q == [p EXCEPT !.queue = <<>>]
<1>1. <<>> \in Seq(Messages)
  BY EmptySeq
<1>2. /\ q \in Entry /\ q.known /\ q.registered /\ q.act = 0
      /\ q.inner = p.inner /\ q.flight = p.flight /\ q.queue = <<>>
  BY <1>1 DEF Entry
<1>3. CancelMessages(p) = q
  BY DEF CancelMessages
<1> HIDE DEF q
<1>4. Flying(q) = Flying(p) /\ Queued(q) = 0
  BY <1>2, RestType DEF Flying
<1>5. /\ Flying(p) \in Nat /\ Queued(p) \in Nat /\ Total(p) = Flying(p) + Queued(p)
      /\ Total(q) = Flying(p) + 0
      /\ p.inner = Flying(p) /\ p.inner <= Limit
  BY <1>2, <1>4, RestType, CountedIs DEF PortOK
<1>6. Counted(q)
  BY <1>2, <1>4, <1>5, CountedIs
<1>7. Dated(q, n)
  <2> SUFFICES ASSUME NEW i \in 1 .. Total(q)
               PROVE  Rest(q)[i].epoch <= n /\ (i > 0 <=> Rest(q)[i].epoch = n)
    BY <1>2 DEF Dated
  <2>1. i \in 1 .. Total(p) /\ i \in 1 .. Flying(p)
    BY <1>5
  <2>2. Rest(q)[i] = Rest(p)[i]
    BY <1>2, <1>4, <2>1, RestOf
  <2>3. Rest(p)[i].epoch <= n /\ (i > 0 <=> Rest(p)[i].epoch = n)
    BY <2>1 DEF PortOK, Dated
  <2> QED BY <2>2, <2>3
<1> QED BY <1>2, <1>3, <1>6, <1>7 DEF PortOK

(* The first message of an entry is sent: the counts go down with it.         *)
Less(p) ==
  [p EXCEPT !.flight = Tail(@), !.inner = @ - 1, !.act = IF @ > 0 THEN @ - 1 ELSE 0]

LEMMA LessKeeps ==
  ASSUME NEW p \in Entry, NEW n \in Nat, PortOK(p, n), p.known, p.flight # <<>>
  PROVE  /\ Less(p) \in Entry /\ Dated(Less(p), n) /\ Rest(Less(p)) = Tail(Rest(p))
         /\ Less(p).known /\ Less(p).registered = p.registered
         /\ Less(p).inner = Flying(Less(p)) /\ Less(p).inner <= Limit
         /\ Less(p).act <= Total(Less(p))
         /\ ~p.registered => Less(p).act = Less(p).inner + Queued(Less(p))
<1> DEFINE i1 == p.inner - 1
           a1 == IF p.act > 0 THEN p.act - 1 ELSE 0
           f1 == Tail(p.flight)
           q == Less(p)
<1>1. /\ p.inner \in Nat /\ p.act \in Nat /\ Rest(p) \in Seq(Messages)
      /\ Flying(p) \in Nat /\ Queued(p) \in Nat /\ Flying(p) # 0
      /\ Total(p) \in Nat /\ Total(p) = Flying(p) + Queued(p)
      /\ p.inner = Flying(p) /\ p.inner <= Limit /\ p.act <= Total(p)
      /\ ~p.registered => p.act = p.inner + Queued(p) /\ p.act > 0
  BY RestType, CountedIs DEF PortOK
<1>2. f1 \in Seq(Messages) /\ Len(f1) = Flying(p) - 1
  BY RestType, HeadTailProperties DEF Flying
<1>3. i1 \in Nat /\ a1 \in Nat
  BY <1>1
<1>4. q = [p EXCEPT !.flight = f1, !.inner = i1, !.act = a1]
  BY DEF Less
<1> HIDE DEF q, i1, a1, f1
<1>5. /\ q \in Entry /\ q.known /\ q.registered = p.registered /\ q.act = a1
      /\ q.inner = i1 /\ q.flight = f1 /\ q.queue = p.queue
  BY <1>2, <1>3, <1>4 DEF Entry
<1>6. Flying(q) = Flying(p) - 1 /\ Queued(q) = Queued(p)
  BY <1>2, <1>5 DEF Flying, Queued
<1>7. Rest(q) = Tail(Rest(p)) /\ Rest(p) # <<>>
  <2>1. Rest(p) # <<>> /\ Tail(Rest(p)) = Tail(p.flight) \o p.queue
    BY RestOf
  <2> QED BY <1>5, <2>1 DEF Rest, f1
<1>8. /\ Total(q) = Total(p) - 1
      /\ \A i \in 1 .. Total(q) : Rest(q)[i] = Rest(p)[i + 1]
  BY <1>1, <1>7, HeadTailProperties DEF Total
<1>9. q.inner = Flying(q) /\ q.inner <= Limit
  BY <1>1, <1>5, <1>6, LimitAssumption DEF i1
<1>10. q.act <= Total(q)
  BY <1>1, <1>5, <1>8 DEF a1
<1>11. ~p.registered => q.act = q.inner + Queued(q)
  BY <1>1, <1>5, <1>6 DEF a1, i1
<1>12. Dated(q, n)
  <2> SUFFICES ASSUME NEW i \in 1 .. Total(q)
               PROVE  /\ Rest(p)[i + 1].epoch <= n
                      /\ i > a1 <=> p.registered /\ Rest(p)[i + 1].epoch = n
    BY <1>5, <1>8 DEF Dated
  <2>1. i + 1 \in 1 .. Total(p)
    BY <1>1, <1>8
  <2>2. /\ Rest(p)[i + 1].epoch <= n
        /\ i + 1 > p.act <=> p.registered /\ Rest(p)[i + 1].epoch = n
    BY <2>1 DEF PortOK, Dated
  <2>3. i + 1 > p.act <=> i > a1
    BY <1>1, <1>8 DEF a1
  <2> QED BY <2>2, <2>3
<1> QED BY <1>5, <1>7, <1>9, <1>10, <1>11, <1>12 DEF q

(* inf_communication_registry_sent_cb: what is queued follows, and an entry   *)
(* that is not registered any more goes with its last message.                *)
LEMMA SentDoneKeeps ==
  ASSUME NEW p \in Entry, NEW n \in Nat, PortOK(p, n), p.flight # <<>>
  PROVE  /\ SentDone(p) \in Entry /\ PortOK(SentDone(p), n)
         /\ Rest(SentDone(p)) = Tail(Rest(p))
         /\ SentDone(p).registered = p.registered
         /\ p.registered => SentDone(p).known
<1>1. CASE ~p.known
  <2> DEFINE f1 == Tail(p.flight)
             q == [p EXCEPT !.flight = f1]
  <2>1. f1 \in Seq(Messages)
    BY RestType, HeadTailProperties
  <2>2. SentDone(p) = q
    BY <1>1 DEF SentDone
  <2> HIDE DEF f1
  <2>3. /\ q \in Entry /\ ~q.known /\ q.registered = p.registered /\ q.act = p.act
        /\ q.inner = p.inner /\ q.flight = f1 /\ q.queue = p.queue
    BY <1>1, <2>1 DEF Entry
  <2> HIDE DEF q
  <2>4. Rest(q) = Tail(Rest(p))
    BY <2>3, RestOf DEF Rest, f1
  <2>5. Queued(q) = Queued(p)
    BY <2>3 DEF Queued
  <2>6. PortOK(q, n)
    BY <1>1, <2>3, <2>5, CountedIs DEF PortOK, Dated
  <2>7. ~p.registered
    BY <1>1, CountedIs DEF PortOK
  <2> QED BY <2>2, <2>3, <2>4, <2>6, <2>7
<1>2. CASE p.known
  <2> DEFINE r == Less(p)
             s == IF r.inner = 0 /\ r.queue # <<>> THEN SendReal(r, Limit - r.inner) ELSE r
  <2>1. SentDone(p) = IF r.inner = 0 /\ ~s.registered /\ s.act = 0 THEN EntryFree(s, TRUE) ELSE s
    <3>1. Less(p) = [[p EXCEPT !.flight = Tail(@)]
                       EXCEPT !.inner = @ - 1, !.act = IF @ > 0 THEN @ - 1 ELSE 0]
      BY DEF Less, Entry
    <3>2. SentDone(p) = Continue(Less(p))
      BY <1>2, <3>1 DEF SentDone
    <3> QED BY <3>2 DEF Continue
  <2>2. /\ r \in Entry /\ Dated(r, n) /\ Rest(r) = Tail(Rest(p))
        /\ r.known /\ r.registered = p.registered
        /\ r.inner = Flying(r) /\ r.inner <= Limit
        /\ r.act <= Total(r)
        /\ ~p.registered => r.act = r.inner + Queued(r)
    BY <1>2, LessKeeps
  <2> HIDE DEF r
  <2>3. r.inner \in Nat /\ r.act \in Nat /\ Queued(r) \in Nat /\ (r.queue = <<>> <=> Queued(r) = 0)
    BY <2>2, RestType
  <2>4. CASE r.inner # 0
    <3>1. Counted(r)
      BY <2>2, <2>3, <2>4, CountedIs
    <3>2. SentDone(p) = r
      BY <2>1, <2>4
    <3> QED BY <2>2, <3>1, <3>2 DEF PortOK
  <2>5. CASE r.inner = 0 /\ r.queue # <<>>
    <3> DEFINE N == Limit - r.inner
    <3>1. N \in Nat /\ N >= 1 /\ N <= Limit
      BY <2>5, LimitAssumption
    <3>2. s = SendReal(r, N)
      BY <2>5
    <3> HIDE DEF N, s
    <3>3. /\ s \in Entry /\ Rest(s) = Rest(r)
          /\ s.known = r.known /\ s.registered = r.registered /\ s.act = r.act
      BY <2>2, <3>1, <3>2, SendRealMoves
    <3>4. PICK k \in Nat :
            /\ k = IF Queued(r) < N THEN Queued(r) ELSE N
            /\ s.inner = r.inner + k
            /\ Flying(s) = Flying(r) + k /\ Queued(s) = Queued(r) - k
      BY <2>2, <3>1, <3>2, SendRealMoves
    <3>5. k >= 1 /\ k <= Limit /\ k <= Queued(r)
      <4>1. Queued(r) >= 1
        BY <2>3, <2>5
      <4> QED BY <2>3, <3>1, <3>4, <4>1, LimitAssumption
    <3>6. s.inner = Flying(s) /\ s.inner > 0 /\ s.inner <= Limit
      <4>1. Flying(r) = 0
        BY <2>2, <2>5
      <4>2. s.inner = k /\ Flying(s) = k
        BY <2>5, <3>4, <4>1
      <4> QED BY <3>5, <4>2
    <3>7. Total(s) = Total(r)
      BY <3>3 DEF Total
    <3>8. ~s.registered => s.act = s.inner + Queued(s) /\ s.act > 0
      <4> SUFFICES ASSUME ~p.registered
                   PROVE  s.act = s.inner + Queued(s) /\ s.act > 0
        BY <2>2, <3>3
      <4>1. r.act = Queued(r)
        BY <2>2, <2>3, <2>5
      <4>2. s.inner = k
        BY <2>5, <3>4
      <4>3. s.act = Queued(r) /\ Queued(s) = Queued(r) - k
        BY <3>3, <3>4, <4>1
      <4>4. k \in Nat /\ Queued(r) \in Nat /\ Queued(r) >= 1
        BY <2>3, <3>4, <3>5
      <4> QED BY <4>2, <4>3, <4>4
    <3>9. Counted(s)
      BY <2>2, <3>3, <3>6, <3>7, <3>8, CountedIs
    <3>10. Dated(s, n)
      BY <2>2, <3>3, <3>7 DEF Dated
    <3>11. SentDone(p) = s
      <4>1. s.registered \/ s.act # 0
        BY <3>8
      <4> QED BY <2>1, <4>1 DEF s, N
    <3> QED BY <2>2, <3>3, <3>9, <3>10, <3>11 DEF PortOK
  <2>6. CASE r.inner = 0 /\ r.queue = <<>>
    <3>1. s = r
      BY <2>6
    <3> HIDE DEF s
    <3>2. CASE p.registered
      <4>1. SentDone(p) = r
        BY <2>1, <2>2, <3>1, <3>2
      <4>2. Counted(r)
        BY <2>2, <2>3, <2>6, <3>2, CountedIs, LimitAssumption
      <4> QED BY <2>2, <4>1, <4>2 DEF PortOK
    <3>3. CASE ~p.registered
      <4>1. r.act = 0
        BY <2>2, <2>3, <2>6, <3>3
      <4>2. SentDone(p) = EntryFree(r, TRUE)
        BY <2>1, <2>2, <2>6, <3>1, <3>3, <4>1
      <4>3. /\ EntryFree(r, TRUE) \in Entry /\ PortOK(EntryFree(r, TRUE), n)
            /\ Rest(EntryFree(r, TRUE)) = Rest(r) /\ ~EntryFree(r, TRUE).registered
        BY <2>2, EntryFreeKeeps
      <4>4. EntryFree(r, TRUE).registered = FALSE /\ p.registered = FALSE
        BY <3>3, <4>3 DEF Entry
      <4> QED BY <2>2, <3>3, <4>2, <4>3, <4>4
    <3> QED BY <3>2, <3>3
  <2> QED BY <2>4, <2>5, <2>6
<1> QED BY <1>1, <1>2

-----------------------------------------------------------------------------
(* The inductive invariant *)

Types ==
  /\ status \in [Ends -> {"opening", "open", "closed"}]
  /\ member \in [Ends -> SUBSET Groups]
  /\ port \in [Ends -> [Groups -> Entry]]
  /\ link \in [Ends -> [Groups -> Seq(Messages)]]
  /\ got \in [Ends -> [Groups -> Seq(Messages)]]
  /\ owed \in [Ends -> [Groups -> Seq(Messages)]]
  /\ epoch \in [Ends -> [Groups -> Nat]]
  /\ inside \in {Nobody} \cup (Ends \X Groups)
  /\ "send" \in DOMAIN left /\ left["send"] \in Nat

(* Every entry counts right and knows which messages are of its registration, *)
PortsOK == \A e \in Ends, g \in Groups : PortOK(port[e][g], epoch[e][g])

(* there are entries for an open connection only,                             *)
OpenOnly == \A e \in Ends : ~Open(e) => \A g \in Groups : port[e][g] = NoEntry

(* which is registered for the groups it is a member of,                      *)
Registered ==
  \A e \in Ends : Open(e) => \A g \in Groups : g \in member[e] <=> port[e][g].registered

(* among them the directory's,                                                *)
AtHome == \A e \in Ends : status[e] # "closed" => Home \in member[e]

(* and the entry whose callback runs does not go meanwhile: its message is    *)
(* still counted.                                                             *)
CallbackHolds ==
  \A e \in Ends, g \in Groups :
    inside = <<e, g>> => Open(e) /\ port[e][g].known /\ port[e][g].flight # <<>>

(* What is to come from an end after what is written                          *)
ToCome(e, g) == IF inside = <<e, g>> THEN Tail(Rest(port[e][g])) ELSE Rest(port[e][g])

(* InOrder, with what an entry has to report in one piece                     *)
Accounted ==
  \A e \in Ends, g \in Groups :
    <<e[2], g>> \notin broken =>
      got[Peer(e)][g] \o (link[e][g] \o ToCome(e, g)) = owed[e][g]

IInv == Types /\ PortsOK /\ OpenOnly /\ Registered /\ AtHome /\ CallbackHolds /\ Accounted

(* The two sides of a connection                                              *)
LEMMA Peers ==
  ASSUME NEW e \in Ends
  PROVE  /\ Peer(e) \in Ends /\ Peer(Peer(e)) = e /\ Peer(e) # e /\ Peer(e)[2] = e[2]
         /\ e[1] = "host" <=> Peer(e)[1] = "client"
         /\ e[1] \in {"host", "client"}
BY DEF Ends, Peer

(* Initially all connections are closed or being opened, and nothing is sent. *)
LEMMA InitIInv == Init => IInv
<1> SUFFICES ASSUME Init PROVE IInv
  OBVIOUS
<1>1. NoEntry \in Entry /\ (\A n \in Nat : PortOK(NoEntry, n)) /\ Rest(NoEntry) = <<>>
  <2>1. \A n \in Nat : PortOK(NoEntry, n)
    BY CountedIs, NoEntryOK, LimitAssumption, RestType DEF NoEntry, PortOK, Dated, Queued
  <2> QED BY <2>1, NoEntryOK
<1>2. <<>> \in Seq(Messages) /\ <<>> \o (<<>> \o <<>>) = <<>>
  BY EmptySeq, ConcatEmptySeq
<1>3. Types
  <2>1. "send" \in DOMAIN left /\ left["send"] \in Nat
    <3>1. left \in [clients : SUBSET Clients, senders : SUBSET Ends, send : Nat, add : Nat,
                    remove : Nat, close : Nat, cancel : Nat]
      BY BudgetsAssumption DEF Init
    <3> QED BY <3>1
  <2>2. status \in [Ends -> {"opening", "open", "closed"}]
    BY DEF Init
  <2>3. member \in [Ends -> SUBSET Groups]
    BY HomeAssumption DEF Init
  <2> QED BY <1>1, <1>2, <2>1, <2>2, <2>3 DEF Init, Types, Table
<1>4. \A e \in Ends, g \in Groups :
        /\ port[e][g] = NoEntry /\ epoch[e][g] = 0 /\ link[e][g] = <<>>
        /\ got[e][g] = <<>> /\ owed[e][g] = <<>>
  BY DEF Init, Table
<1>5. PortsOK
  BY <1>1, <1>4 DEF PortsOK
<1>6. OpenOnly /\ Registered
  BY <1>4 DEF Init, OpenOnly, Registered, Open
<1>7. AtHome
  BY DEF Init, AtHome
<1>8. CallbackHolds
  BY DEF Init, CallbackHolds, Nobody
<1>9. Accounted
  <2> SUFFICES ASSUME NEW e \in Ends, NEW g \in Groups
               PROVE  got[Peer(e)][g] \o (link[e][g] \o ToCome(e, g)) = owed[e][g]
    BY DEF Accounted
  <2>1. ToCome(e, g) = <<>>
    BY <1>1, <1>4 DEF ToCome, Init, Nobody
  <2> QED BY <1>2, <1>4, <2>1, Peers
<1> QED BY <1>3, <1>5, <1>6, <1>7, <1>8, <1>9 DEF IInv

(* What the connection of an end holds is not touched by an action that        *)
(* leaves the messages alone.                                                 *)
LEMMA AccountedStays ==
  ASSUME Accounted, UNCHANGED <<link, inside, got, owed>>, broken \subseteq broken',
         \A e \in Ends, g \in Groups :
           <<e[2], g>> \notin broken' => Rest(port'[e][g]) = Rest(port[e][g])
  PROVE  Accounted'
<1> SUFFICES ASSUME NEW e \in Ends, NEW g \in Groups, <<e[2], g>> \notin broken'
             PROVE  got'[Peer(e)][g] \o (link'[e][g] \o ToCome(e, g)') = owed'[e][g]
  BY DEF Accounted
<1>1. ToCome(e, g)' = ToCome(e, g)
  BY DEF ToCome
<1>2. got[Peer(e)][g] \o (link[e][g] \o ToCome(e, g)) = owed[e][g]
  BY DEF Accounted
<1> QED BY <1>1, <1>2

(* The budget                                                                 *)
LEMMA SpendKeeps ==
  ASSUME NEW op, Spend(op), "send" \in DOMAIN left, left["send"] \in Nat
  PROVE  "send" \in DOMAIN left' /\ left'["send"] \in Nat
<1>1. left' = [left EXCEPT ![op] = left[op] - 1] /\ left[op] > 0
  BY DEF Spend
<1>2. DOMAIN left' = DOMAIN left /\ (left'["send"] = IF op = "send" THEN left["send"] - 1 ELSE left["send"])
  BY <1>1
<1> QED BY <1>1, <1>2

(* A connection that becomes a member                                         *)
LEMMA AddMemberKeeps ==
  ASSUME IInv, NEW e \in Ends, NEW g \in Groups, AddMember(e, g)
  PROVE  IInv'
<1> USE DEF IInv
<1>1. /\ status[e] # "closed" /\ g \notin member[e]
      /\ port[e][g].known \/ port[e][g].flight = <<>>
      /\ member' = [member EXCEPT ![e] = @ \cup {g}]
      /\ UNCHANGED <<status, link, inside, got, owed, broken>>
  BY DEF AddMember
<1>2. /\ port[e][g] \in Entry /\ PortOK(port[e][g], epoch[e][g]) /\ epoch[e][g] \in Nat
  BY DEF Types, PortsOK
<1>3. member' \in [Ends -> SUBSET Groups] /\ AtHome'
  BY <1>1 DEF Types, AtHome
<1>4. "send" \in DOMAIN left' /\ left'["send"] \in Nat
  BY SpendKeeps DEF AddMember, Types
<1>5. CASE ~Open(e)
  <2>1. UNCHANGED <<port, epoch>>
    BY <1>5 DEF AddMember
  <2>2. Types'
    BY <1>1, <1>3, <1>4, <2>1 DEF Types
  <2>3. PortsOK' /\ OpenOnly' /\ CallbackHolds'
    BY <1>1, <2>1 DEF PortsOK, OpenOnly, CallbackHolds, Open
  <2>4. Registered'
    BY <1>1, <1>5, <2>1 DEF Registered, Open, Types
  <2>5. Accounted'
    BY <1>1, <2>1, AccountedStays
  <2> QED BY <1>3, <2>2, <2>3, <2>4, <2>5
<1>6. CASE Open(e)
  <2> DEFINE q == Register(port[e][g])
  <2>1. port' = [port EXCEPT ![e][g] = q] /\ epoch' = [epoch EXCEPT ![e][g] = @ + 1]
    BY <1>6 DEF AddMember
  <2>2. ~port[e][g].registered
    BY <1>1, <1>6 DEF Registered
  <2>3. /\ q \in Entry /\ PortOK(q, epoch[e][g] + 1) /\ Rest(q) = Rest(port[e][g])
        /\ q.flight = port[e][g].flight /\ q.known /\ q.registered
    BY <1>1, <1>2, <2>2, RegisterKeeps
  <2> HIDE DEF q
  <2>4. Types'
    <3>1. port' \in [Ends -> [Groups -> Entry]]
      BY <2>1, <2>3 DEF Types
    <3>2. epoch' \in [Ends -> [Groups -> Nat]]
      BY <1>2, <2>1 DEF Types
    <3> QED BY <1>1, <1>3, <1>4, <3>1, <3>2 DEF Types
  <2>5. \A x \in Ends, y \in Groups :
          /\ port'[x][y] = IF x = e /\ y = g THEN q ELSE port[x][y]
          /\ epoch'[x][y] = IF x = e /\ y = g THEN epoch[e][g] + 1 ELSE epoch[x][y]
    BY <2>1 DEF Types
  <2>6. PortsOK'
    BY <2>3, <2>5 DEF PortsOK
  <2>7. OpenOnly'
    BY <1>1, <1>6, <2>5 DEF OpenOnly, Open
  <2>8. Registered'
    <3>1. \A x \in Ends, y \in Groups :
            y \in member'[x] <=> y \in member[x] \/ (x = e /\ y = g)
      BY <1>1 DEF Types
    <3> QED BY <1>1, <2>3, <2>5, <3>1 DEF Registered, Open
  <2>9. CallbackHolds'
    BY <1>1, <2>3, <2>5 DEF CallbackHolds, Open
  <2>10. Accounted'
    <3>1. \A x \in Ends, y \in Groups : Rest(port'[x][y]) = Rest(port[x][y])
      BY <2>3, <2>5
    <3> QED BY <1>1, <3>1, AccountedStays
  <2> QED BY <1>3, <2>4, <2>6, <2>7, <2>8, <2>9, <2>10
<1> QED BY <1>5, <1>6

(* One entry changes and keeps the invariant, nothing else but members and     *)
(* budget does.                                                               *)
LEMMA PortChangeKeeps ==
  ASSUME IInv, NEW e \in Ends, NEW g \in Groups, Open(e), NEW q \in Entry,
         PortOK(q, epoch[e][g]),
         UNCHANGED <<status, link, inside, got, owed, epoch>>, broken \subseteq broken',
         port' = [port EXCEPT ![e][g] = q],
         member' \in [Ends -> SUBSET Groups], AtHome',
         "send" \in DOMAIN left' /\ left'["send"] \in Nat,
         \A x \in Ends, y \in Groups :
           y \in member'[x] <=> IF x = e /\ y = g THEN q.registered ELSE y \in member[x],
         inside = <<e, g>> => q.known /\ q.flight # <<>>,
         <<e[2], g>> \in broken' \/ Rest(q) = Rest(port[e][g])
  PROVE  IInv'
<1> USE DEF IInv
<1>1. \A x \in Ends, y \in Groups :
        port'[x][y] = IF x = e /\ y = g THEN q ELSE port[x][y]
  BY DEF Types
<1>2. Types'
  <2>1. port' \in [Ends -> [Groups -> Entry]]
    BY DEF Types
  <2> QED BY <2>1 DEF Types
<1>3. PortsOK'
  BY <1>1 DEF PortsOK
<1>4. OpenOnly'
  BY <1>1 DEF OpenOnly, Open
<1>5. Registered'
  BY <1>1 DEF Registered, Open
<1>6. CallbackHolds'
  BY <1>1 DEF CallbackHolds, Open
<1>7. Accounted'
  <2>1. \A x \in Ends, y \in Groups :
          <<x[2], y>> \notin broken' => Rest(port'[x][y]) = Rest(port[x][y])
    BY <1>1
  <2> QED BY <2>1, AccountedStays
<1> QED BY <1>2, <1>3, <1>4, <1>5, <1>6, <1>7

(* A connection that is removed: its entry stays until what it sent is sent.   *)
LEMMA RemoveMemberKeeps ==
  ASSUME IInv, NEW e \in Ends, NEW g \in Groups, RemoveMember(e, g)
  PROVE  IInv'
<1> USE DEF IInv
<1>1. /\ status[e] # "closed" /\ g \in member[e] /\ g # Home
      /\ member' = [member EXCEPT ![e] = @ \ {g}]
      /\ port' = IF IsRegistered(e, g)
                 THEN [port EXCEPT ![e][g] = Unregister(port[e][g], Open(e))] ELSE port
      /\ broken' = broken \cup {<<e[2], g>>}
      /\ UNCHANGED <<status, link, inside, got, owed, epoch>>
  BY DEF RemoveMember
<1>2. /\ port[e][g] \in Entry /\ PortOK(port[e][g], epoch[e][g]) /\ epoch[e][g] \in Nat
  BY DEF Types, PortsOK
<1>3. member' \in [Ends -> SUBSET Groups] /\ AtHome'
  BY <1>1 DEF Types, AtHome
<1>4. "send" \in DOMAIN left' /\ left'["send"] \in Nat
  BY SpendKeeps DEF RemoveMember, Types
<1>5. \A x \in Ends, y \in Groups : y \in member'[x] <=> y \in member[x] /\ ~(x = e /\ y = g)
  BY <1>1 DEF Types
<1>6. CASE Open(e)
  <2> DEFINE q == Unregister(port[e][g], TRUE)
  <2>1. port[e][g].registered
    BY <1>1, <1>6 DEF Registered
  <2>2. port[e][g].known
    BY <1>2, <2>1, CountedIs DEF PortOK
  <2>3. Open(e) = TRUE
    BY <1>6 DEF Open
  <2>4. port' = [port EXCEPT ![e][g] = q]
    BY <1>1, <2>1, <2>2, <2>3 DEF IsRegistered
  <2>5. /\ q \in Entry /\ PortOK(q, epoch[e][g]) /\ ~q.registered
        /\ port[e][g].flight # <<>> => q.known /\ q.flight # <<>>
    BY <1>2, <2>1, <2>2, UnregisterKeeps
  <2> HIDE DEF q
  <2>6. \A x \in Ends, y \in Groups :
          y \in member'[x] <=> IF x = e /\ y = g THEN q.registered ELSE y \in member[x]
    BY <1>5, <2>5
  <2>7. inside = <<e, g>> => q.known /\ q.flight # <<>>
    BY <2>5 DEF CallbackHolds
  <2>8. broken \subseteq broken' /\ <<e[2], g>> \in broken'
    BY <1>1
  <2>9. /\ UNCHANGED <<status, link, inside, got, owed, epoch>>
        /\ broken \subseteq broken' /\ q \in Entry /\ PortOK(q, epoch[e][g])
        /\ <<e[2], g>> \in broken' \/ Rest(q) = Rest(port[e][g])
    BY <1>1, <2>5, <2>8
  <2> HIDE DEF IInv
  <2> QED BY <1>3, <1>4, <1>6, <2>4, <2>6, <2>7, <2>9, PortChangeKeeps
<1>7. CASE ~Open(e)
  <2>1. port[e][g] = NoEntry
    BY <1>7 DEF OpenOnly
  <2>2. UNCHANGED port
    BY <1>1, <2>1 DEF IsRegistered, NoEntry
  <2>3. Types'
    BY <1>1, <1>3, <1>4, <2>2 DEF Types
  <2>4. PortsOK' /\ OpenOnly' /\ CallbackHolds'
    BY <1>1, <2>2 DEF PortsOK, OpenOnly, CallbackHolds, Open
  <2>5. Registered'
    BY <1>1, <1>5, <1>7, <2>2 DEF Registered, Open
  <2>6. Accounted'
    BY <1>1, <2>2, AccountedStays
  <2> QED BY <1>3, <2>3, <2>4, <2>5, <2>6
<1> QED BY <1>6, <1>7

(* The group of an unregistered entry goes.                                   *)
LEMMA GroupUnrefedKeeps ==
  ASSUME IInv, NEW e \in Ends, NEW g \in Groups, GroupUnrefed(e, g)
  PROVE  IInv'
<1> USE DEF IInv
<1>1. /\ inside = Nobody /\ port[e][g].known /\ ~port[e][g].registered
      /\ port' = [port EXCEPT ![e][g] = EntryFree(port[e][g], Open(e))]
      /\ UNCHANGED <<status, member, link, inside, got, owed, epoch, broken, left>>
  BY DEF GroupUnrefed
<1>2. port[e][g] \in Entry /\ epoch[e][g] \in Nat
  BY DEF Types
<1>3. Open(e)
  BY <1>1 DEF OpenOnly, NoEntry
<1>4. Open(e) = TRUE
  BY <1>3 DEF Open
<1> DEFINE q == EntryFree(port[e][g], TRUE)
<1>5. port' = [port EXCEPT ![e][g] = q]
  BY <1>1, <1>4
<1>6. /\ q \in Entry /\ PortOK(q, epoch[e][g]) /\ ~q.registered
      /\ Rest(q) = Rest(port[e][g])
  BY <1>2, EntryFreeKeeps
<1> HIDE DEF q
<1>7. \A x \in Ends, y \in Groups :
        y \in member'[x] <=> IF x = e /\ y = g THEN q.registered ELSE y \in member[x]
  BY <1>1, <1>3, <1>6 DEF Registered
<1>8. inside # <<e, g>>
  BY <1>1 DEF Nobody
<1>9. member' \in [Ends -> SUBSET Groups] /\ AtHome' /\ "send" \in DOMAIN left' /\ left'["send"] \in Nat
  BY <1>1 DEF Types, AtHome
<1>10. /\ UNCHANGED <<status, link, inside, got, owed, epoch>> /\ broken \subseteq broken'
       /\ q \in Entry /\ PortOK(q, epoch[e][g])
       /\ inside = <<e, g>> => q.known /\ q.flight # <<>>
       /\ <<e[2], g>> \in broken' \/ Rest(q) = Rest(port[e][g])
  BY <1>1, <1>6, <1>8
<1> HIDE DEF IInv
<1> QED BY <1>3, <1>5, <1>7, <1>9, <1>10, PortChangeKeeps

(* The session cancels its messages.                                          *)
LEMMA CancelGroupMessagesKeeps ==
  ASSUME IInv, NEW e \in Ends, NEW g \in Groups, CancelGroupMessages(e, g)
  PROVE  IInv'
<1> USE DEF IInv
<1> DEFINE q == CancelMessages(port[e][g])
<1>1. /\ port[e][g].known /\ port[e][g].registered /\ port[e][g].act = 0
      /\ port' = [port EXCEPT ![e][g] = q]
      /\ broken' = broken \cup {<<e[2], g>>}
      /\ UNCHANGED <<status, member, link, inside, got, owed, epoch>>
  BY DEF CancelGroupMessages, IsRegistered
<1>2. /\ port[e][g] \in Entry /\ PortOK(port[e][g], epoch[e][g]) /\ epoch[e][g] \in Nat
  BY DEF Types, PortsOK
<1>3. Open(e)
  BY <1>1 DEF OpenOnly, NoEntry
<1>4. /\ q \in Entry /\ PortOK(q, epoch[e][g]) /\ q.known /\ q.registered
      /\ q.flight = port[e][g].flight
  BY <1>1, <1>2, CancelKeeps
<1> HIDE DEF q
<1>5. "send" \in DOMAIN left' /\ left'["send"] \in Nat
  BY SpendKeeps DEF CancelGroupMessages, Types
<1>6. \A x \in Ends, y \in Groups :
        y \in member'[x] <=> IF x = e /\ y = g THEN q.registered ELSE y \in member[x]
  BY <1>1, <1>3, <1>4 DEF Registered
<1>7. inside = <<e, g>> => q.known /\ q.flight # <<>>
  BY <1>4 DEF CallbackHolds
<1>8. member' \in [Ends -> SUBSET Groups] /\ AtHome'
  BY <1>1 DEF Types, AtHome
<1>9. broken \subseteq broken' /\ <<e[2], g>> \in broken'
  BY <1>1
<1>10. /\ UNCHANGED <<status, link, inside, got, owed, epoch>>
       /\ port' = [port EXCEPT ![e][g] = q]
       /\ broken \subseteq broken' /\ q \in Entry /\ PortOK(q, epoch[e][g])
       /\ <<e[2], g>> \in broken' \/ Rest(q) = Rest(port[e][g])
  BY <1>1, <1>4, <1>9
<1> HIDE DEF IInv
<1> QED BY <1>3, <1>5, <1>6, <1>7, <1>8, <1>10, PortChangeKeeps

(* A connection opens: it is registered for the groups it joined before.       *)
LEMMA OpenedKeeps ==
  ASSUME IInv, NEW e \in Ends, Opened(e)
  PROVE  IInv'
<1> USE DEF IInv
<1> DEFINE R(x, y) == x = e /\ y \in member[e]
<1>1. /\ inside = Nobody /\ status[e] = "opening"
      /\ status' = [status EXCEPT ![e] = "open"]
      /\ port' = [port EXCEPT ![e] =
                    [y \in Groups |-> IF y \in member[e] THEN Register(port[e][y]) ELSE port[e][y]]]
      /\ epoch' = [epoch EXCEPT ![e] =
                    [y \in Groups |-> IF y \in member[e] THEN epoch[e][y] + 1 ELSE epoch[e][y]]]
      /\ UNCHANGED <<member, link, inside, got, owed, broken, left>>
  BY DEF Opened
<1>2. ~Open(e) /\ \A y \in Groups : port[e][y] = NoEntry
  BY <1>1 DEF OpenOnly, Open
<1>3. \A y \in Groups :
        /\ Register(port[e][y]) \in Entry
        /\ PortOK(Register(port[e][y]), epoch[e][y] + 1)
        /\ Rest(Register(port[e][y])) = Rest(port[e][y])
        /\ Register(port[e][y]).known /\ Register(port[e][y]).registered
  <2> TAKE y \in Groups
  <2>1. /\ port[e][y] \in Entry /\ PortOK(port[e][y], epoch[e][y]) /\ epoch[e][y] \in Nat
        /\ ~port[e][y].registered /\ port[e][y].flight = <<>>
    BY <1>2 DEF Types, PortsOK, NoEntry
  <2> QED BY <2>1, RegisterKeeps
<1>4. \A x \in Ends, y \in Groups :
        /\ port'[x][y] = IF R(x, y) THEN Register(port[x][y]) ELSE port[x][y]
        /\ epoch'[x][y] = IF R(x, y) THEN epoch[x][y] + 1 ELSE epoch[x][y]
  BY <1>1 DEF Types
<1>5. \A x \in Ends : status'[x] = IF x = e THEN "open" ELSE status[x]
  BY <1>1 DEF Types
<1>6. Types'
  <2>1. port' \in [Ends -> [Groups -> Entry]]
    BY <1>1, <1>3 DEF Types
  <2>2. epoch' \in [Ends -> [Groups -> Nat]]
    BY <1>1 DEF Types
  <2>3. status' \in [Ends -> {"opening", "open", "closed"}]
    BY <1>1 DEF Types
  <2> QED BY <1>1, <2>1, <2>2, <2>3 DEF Types
<1>7. PortsOK'
  BY <1>3, <1>4 DEF PortsOK
<1>8. OpenOnly'
  BY <1>4, <1>5 DEF OpenOnly, Open
<1>9. Registered'
  BY <1>1, <1>2, <1>3, <1>4, <1>5 DEF Registered, Open, NoEntry
<1>10. AtHome'
  BY <1>1, <1>5 DEF AtHome
<1>11. CallbackHolds'
  BY <1>1 DEF CallbackHolds, Nobody
<1>12. Accounted'
  <2>1. \A x \in Ends, y \in Groups : Rest(port'[x][y]) = Rest(port[x][y])
    BY <1>3, <1>4
  <2> QED BY <1>1, <2>1, AccountedStays
<1> QED BY <1>6, <1>7, <1>8, <1>9, <1>10, <1>11, <1>12

(* A connection closes.                                                       *)
LEMMA ClosedKeeps ==
  ASSUME IInv, NEW e \in Ends, Closed(e)
  PROVE  IInv'
<1> USE DEF IInv
<1>1. /\ inside = Nobody
      /\ status' = [status EXCEPT ![e] = "closed"]
      /\ member' = [member EXCEPT ![e] = {}]
      /\ port' = [port EXCEPT ![e] = [y \in Groups |-> NoEntry]]
      /\ broken' = broken \cup ({e[2]} \X Groups)
      /\ UNCHANGED <<link, inside, got, owed, epoch>>
  BY DEF Closed
<1>2. "send" \in DOMAIN left' /\ left'["send"] \in Nat
  BY SpendKeeps DEF Closed, Types
<1>3. \A x \in Ends, y \in Groups : port'[x][y] = IF x = e THEN NoEntry ELSE port[x][y]
  BY <1>1 DEF Types
<1>4. \A x \in Ends : /\ status'[x] = IF x = e THEN "closed" ELSE status[x]
                      /\ member'[x] = IF x = e THEN {} ELSE member[x]
  BY <1>1 DEF Types
<1>5. NoEntry \in Entry /\ \A n \in Nat : PortOK(NoEntry, n)
  <2>1. \A n \in Nat : PortOK(NoEntry, n)
    BY CountedIs, NoEntryOK, LimitAssumption, RestType DEF NoEntry, PortOK, Dated, Queued
  <2> QED BY <2>1, NoEntryOK
<1>6. Types'
  <2>1. port' \in [Ends -> [Groups -> Entry]]
    BY <1>1, <1>5 DEF Types
  <2>2. status' \in [Ends -> {"opening", "open", "closed"}] /\ member' \in [Ends -> SUBSET Groups]
    BY <1>1 DEF Types
  <2> QED BY <1>1, <1>2, <2>1, <2>2 DEF Types
<1>7. PortsOK'
  BY <1>1, <1>3, <1>5 DEF PortsOK, Types
<1>8. OpenOnly' /\ Registered' /\ AtHome'
  BY <1>3, <1>4 DEF OpenOnly, Registered, AtHome, Open
<1>9. CallbackHolds'
  BY <1>1 DEF CallbackHolds, Nobody
<1>10. Accounted'
  <2>1. \A x \in Ends, y \in Groups :
          <<x[2], y>> \notin broken' => Rest(port'[x][y]) = Rest(port[x][y])
    BY <1>1, <1>3
  <2> QED BY <1>1, <2>1, AccountedStays
<1> QED BY <1>6, <1>7, <1>8, <1>9, <1>10

(* What is written comes before what is to come; a message goes from the one   *)
(* to the other.                                                              *)
LEMMA WriteFirst ==
  ASSUME NEW a \in Seq(Messages), NEW t \in Seq(Messages), NEW m \in Messages
  PROVE  Append(a, m) \o t = a \o (<<m>> \o t)
<1>1. Append(a, m) = a \o <<m>> /\ <<m>> \in Seq(Messages)
  BY AppendMessage
<1> DEFINE h == <<m>>
<1>2. h \in Seq(Messages)
  BY <1>1
<1> HIDE DEF h
<1>3. (a \o h) \o t = a \o (h \o t)
  BY <1>2, Associate
<1> QED BY <1>1, <1>3 DEF h

(* A message that is sent comes last of all.                                  *)
LEMMA SendLast ==
  ASSUME NEW a \in Seq(Messages), NEW b \in Seq(Messages), NEW c \in Seq(Messages),
         NEW m \in Messages
  PROVE  a \o (b \o Append(c, m)) = Append(a \o (b \o c), m)
<1> DEFINE h == <<m>>
           bc == b \o c
<1>1. Append(c, m) = c \o h /\ h \in Seq(Messages)
  BY AppendMessage
<1>2. bc \in Seq(Messages) /\ a \o bc \in Seq(Messages)
  <2>1. bc \in Seq(Messages)
    BY ConcatProperties
  <2> HIDE DEF bc
  <2> QED BY <2>1, ConcatProperties
<1>3. Append(a \o bc, m) = (a \o bc) \o h
  BY <1>2, AppendMessage
<1> HIDE DEF h
<1>4. b \o (c \o h) = bc \o h
  BY <1>1, Associate
<1> HIDE DEF bc
<1>5. a \o (bc \o h) = (a \o bc) \o h
  BY <1>1, <1>2, Associate, SMTT(30)
<1>6. a \o (b \o (c \o h)) = (a \o bc) \o h
  BY <1>4, <1>5
<1> QED BY <1>1, <1>3, <1>6 DEF bc

(* What an end has sent and its peer not received are sequences of messages.   *)
LEMMA ToComeType ==
  ASSUME IInv, NEW e \in Ends, NEW g \in Groups
  PROVE  /\ ToCome(e, g) \in Seq(Messages) /\ Rest(port[e][g]) \in Seq(Messages)
         /\ inside = <<e, g>> => Rest(port[e][g]) # <<>>
<1>1. port[e][g] \in Entry
  BY DEF IInv, Types
<1>2. Rest(port[e][g]) \in Seq(Messages)
  BY <1>1, RestType
<1>3. inside = <<e, g>> => Rest(port[e][g]) # <<>>
  BY <1>1, RestOf DEF IInv, CallbackHolds
<1>4. Rest(port[e][g]) # <<>> => Tail(Rest(port[e][g])) \in Seq(Messages)
  BY <1>2, HeadTailProperties
<1> QED BY <1>2, <1>3, <1>4 DEF ToCome

(* A message to some of the ends that are registered: it comes last at each.   *)
LEMMA SendToKeeps ==
  ASSUME IInv, NEW g \in Groups, NEW m \in Messages, NEW ends \in SUBSET Ends,
         \A e \in ends : port[e][g].known /\ port[e][g].registered,
         SendTo(ends, g, m), inside' = inside
  PROVE  /\ port' \in [Ends -> [Groups -> Entry]] /\ owed' \in [Ends -> [Groups -> Seq(Messages)]]
         /\ \A e \in Ends, h \in Groups :
              /\ PortOK(port'[e][h], epoch[e][h])
              /\ port'[e][h].known = port[e][h].known
              /\ port'[e][h].registered = port[e][h].registered
              /\ port[e][h].flight # <<>> => port'[e][h].flight # <<>>
              /\ ~(e \in ends /\ h = g) =>
                   port'[e][h] = port[e][h] /\ owed'[e][h] = owed[e][h]
         /\ \A e \in Ends, h \in Groups :
              \/ ToCome(e, h)' = ToCome(e, h) /\ owed'[e][h] = owed[e][h]
              \/ \E n \in Messages : /\ ToCome(e, h)' = Append(ToCome(e, h), n)
                                     /\ owed'[e][h] = Append(owed[e][h], n)
<1> DEFINE M(e) == [m EXCEPT !.epoch = epoch[e][g]]
           P(e) == Send(port[e][g], M(e))
           O(e) == Append(owed[e][g], M(e))
<1>1. \A e \in Ends : M(e) \in Messages /\ M(e).epoch = epoch[e][g]
  <2> TAKE e \in Ends
  <2>1. epoch[e][g] \in Nat
    BY DEF IInv, Types
  <2> QED BY <2>1 DEF Messages
<1>2. \A e \in Ends, h \in Groups :
        /\ port'[e][h] = IF e \in ends /\ h = g THEN P(e) ELSE port[e][h]
        /\ owed'[e][h] = IF e \in ends /\ h = g THEN O(e) ELSE owed[e][h]
  BY DEF SendTo, IInv, Types
<1> HIDE DEF M
<1>3. \A e \in ends :
        /\ P(e) \in Entry /\ PortOK(P(e), epoch[e][g]) /\ Rest(P(e)) = Append(Rest(port[e][g]), M(e))
        /\ P(e).known /\ P(e).registered
        /\ port[e][g].flight # <<>> => P(e).flight # <<>>
        /\ O(e) \in Seq(Messages)
  <2> TAKE e \in ends
  <2>1. /\ port[e][g] \in Entry /\ PortOK(port[e][g], epoch[e][g]) /\ epoch[e][g] \in Nat
        /\ owed[e][g] \in Seq(Messages)
    BY DEF IInv, Types, PortsOK
  <2>2. O(e) \in Seq(Messages)
    BY <1>1, <2>1, AppendMessage
  <2> QED BY <1>1, <2>1, <2>2, SendKeeps
<1> HIDE DEF P, O
<1>4. \A e \in Ends, h \in Groups :
        /\ port[e][h] \in Entry /\ PortOK(port[e][h], epoch[e][h]) /\ owed[e][h] \in Seq(Messages)
  BY DEF IInv, Types, PortsOK
<1>5. port' \in [Ends -> [Groups -> Entry]] /\ owed' \in [Ends -> [Groups -> Seq(Messages)]]
  <2>1. \A e \in ends : [port[e] EXCEPT ![g] = P(e)] \in [Groups -> Entry]
    BY <1>3 DEF IInv, Types
  <2>2. \A e \in ends : [owed[e] EXCEPT ![g] = O(e)] \in [Groups -> Seq(Messages)]
    BY <1>3 DEF IInv, Types
  <2>3. /\ port' = [e \in Ends |-> IF e \in ends THEN [port[e] EXCEPT ![g] = P(e)] ELSE port[e]]
        /\ owed' = [e \in Ends |-> IF e \in ends THEN [owed[e] EXCEPT ![g] = O(e)] ELSE owed[e]]
    BY DEF SendTo, P, O, M
  <2>4. port' \in [Ends -> [Groups -> Entry]]
    BY <2>1, <2>3 DEF IInv, Types
  <2>5. owed' \in [Ends -> [Groups -> Seq(Messages)]]
    BY <2>2, <2>3 DEF IInv, Types
  <2> QED BY <2>4, <2>5
<1>6. ASSUME NEW e \in Ends, NEW h \in Groups
      PROVE  /\ PortOK(port'[e][h], epoch[e][h])
             /\ port'[e][h].known = port[e][h].known
             /\ port'[e][h].registered = port[e][h].registered
             /\ port[e][h].flight # <<>> => port'[e][h].flight # <<>>
             /\ ~(e \in ends /\ h = g) =>
                  port'[e][h] = port[e][h] /\ owed'[e][h] = owed[e][h]
  <2>1. CASE e \in ends /\ h = g
    <3>1. port'[e][h] = P(e)
      BY <1>2, <2>1
    <3>2. P(e).known = port[e][g].known /\ P(e).registered = port[e][g].registered
      BY <1>3, <1>4, <2>1 DEF Entry
    <3> QED BY <1>3, <2>1, <3>1, <3>2
  <2>2. CASE ~(e \in ends /\ h = g)
    BY <1>2, <1>4, <2>2
  <2> QED BY <2>1, <2>2
<1>7. ASSUME NEW e \in Ends, NEW h \in Groups
      PROVE  \/ ToCome(e, h)' = ToCome(e, h) /\ owed'[e][h] = owed[e][h]
             \/ \E n \in Messages : /\ ToCome(e, h)' = Append(ToCome(e, h), n)
                                    /\ owed'[e][h] = Append(owed[e][h], n)
  <2>1. CASE e \in ends /\ h = g
    <3>1. /\ Rest(port'[e][g]) = Append(Rest(port[e][g]), M(e)) /\ M(e) \in Messages
          /\ owed'[e][g] = Append(owed[e][g], M(e))
      BY <1>1, <1>2, <1>3, <2>1 DEF O
    <3>2. /\ Rest(port[e][g]) \in Seq(Messages)
          /\ inside = <<e, g>> => Rest(port[e][g]) # <<>>
      BY ToComeType
    <3>3. ToCome(e, g)' = Append(ToCome(e, g), M(e))
      <4>1. \A s \in Seq(Messages) : s # <<>> => Tail(Append(s, M(e))) = Append(Tail(s), M(e))
        BY HeadTailAppend
      <4> QED BY <3>1, <3>2, <4>1 DEF ToCome
    <3> QED BY <2>1, <3>1, <3>3
  <2>2. CASE ~(e \in ends /\ h = g)
    BY <1>2, <2>2 DEF ToCome
  <2> QED BY <2>1, <2>2
<1> QED BY <1>5, <1>6, <1>7

(* Messages are sent to some ends, nothing else changes.                      *)
LEMMA SendingKeeps ==
  ASSUME IInv, NEW g \in Groups, NEW m \in Messages, NEW ends \in SUBSET Ends,
         \A e \in ends : port[e][g].known /\ port[e][g].registered,
         SendTo(ends, g, m), NEW op, Spend(op),
         UNCHANGED <<status, member, link, inside, got, epoch, broken>>
  PROVE  IInv'
<1>1. /\ port' \in [Ends -> [Groups -> Entry]] /\ owed' \in [Ends -> [Groups -> Seq(Messages)]]
      /\ \A e \in Ends, h \in Groups :
           /\ PortOK(port'[e][h], epoch[e][h])
           /\ port'[e][h].known = port[e][h].known
           /\ port'[e][h].registered = port[e][h].registered
           /\ port[e][h].flight # <<>> => port'[e][h].flight # <<>>
           /\ ~(e \in ends /\ h = g) =>
                port'[e][h] = port[e][h] /\ owed'[e][h] = owed[e][h]
      /\ \A e \in Ends, h \in Groups :
           \/ ToCome(e, h)' = ToCome(e, h) /\ owed'[e][h] = owed[e][h]
           \/ \E n \in Messages : /\ ToCome(e, h)' = Append(ToCome(e, h), n)
                                  /\ owed'[e][h] = Append(owed[e][h], n)
  BY SendToKeeps
<1>2. "send" \in DOMAIN left' /\ left'["send"] \in Nat
  BY SpendKeeps DEF IInv, Types
<1>3. Types'
  BY <1>1, <1>2 DEF IInv, Types
<1>4. PortsOK'
  BY <1>1 DEF PortsOK
<1>5. OpenOnly'
  <2> SUFFICES ASSUME NEW e \in Ends, ~Open(e), NEW h \in Groups
               PROVE  port'[e][h] = NoEntry
    BY DEF OpenOnly, Open
  <2>1. \A x \in Groups : port[e][x] = NoEntry /\ ~port[e][x].known
    BY DEF IInv, OpenOnly, NoEntry
  <2>2. e \notin ends
    BY <2>1
  <2> QED BY <1>1, <2>1, <2>2
<1>6. Registered'
  BY <1>1 DEF IInv, Registered, Open
<1>7. AtHome'
  BY DEF IInv, AtHome
<1>8. CallbackHolds'
  BY <1>1 DEF IInv, CallbackHolds, Open
<1>9. Accounted'
  <2> SUFFICES ASSUME NEW e \in Ends, NEW h \in Groups, <<e[2], h>> \notin broken
               PROVE  got[Peer(e)][h] \o (link[e][h] \o ToCome(e, h)') = owed'[e][h]
    BY DEF Accounted
  <2>1. got[Peer(e)][h] \o (link[e][h] \o ToCome(e, h)) = owed[e][h]
    BY DEF IInv, Accounted
  <2>2. CASE ToCome(e, h)' = ToCome(e, h) /\ owed'[e][h] = owed[e][h]
    BY <2>1, <2>2
  <2>3. ASSUME NEW n \in Messages,
               ToCome(e, h)' = Append(ToCome(e, h), n), owed'[e][h] = Append(owed[e][h], n)
        PROVE  got[Peer(e)][h] \o (link[e][h] \o ToCome(e, h)') = owed'[e][h]
    <3>1. /\ got[Peer(e)][h] \in Seq(Messages) /\ link[e][h] \in Seq(Messages)
          /\ ToCome(e, h) \in Seq(Messages)
      <4>1. ToCome(e, h) \in Seq(Messages)
        BY ToComeType
      <4> QED BY <4>1, Peers DEF IInv, Types
    <3>2. got[Peer(e)][h] \o (link[e][h] \o Append(ToCome(e, h), n))
            = Append(got[Peer(e)][h] \o (link[e][h] \o ToCome(e, h)), n)
      BY <3>1, SendLast, ZenonT(30)
    <3> QED BY <2>1, <2>3, <3>2
  <2> QED BY <1>1, <2>2, <2>3
<1> QED BY <1>3, <1>4, <1>5, <1>6, <1>7, <1>8, <1>9 DEF IInv

(* Whom a message of a group goes to                                          *)
LEMMA RecipientsOf ==
  ASSUME NEW g, NEW x
  PROVE  /\ Recipients(g, x) \in SUBSET Ends
         /\ \A e \in Recipients(g, x) :
              e[1] = "host" /\ e # x /\ port[e][g].known /\ port[e][g].registered
BY DEF Recipients, IsRegistered

(* An end sends a message.                                                    *)
LEMMA SendMessageKeeps ==
  ASSUME IInv, NEW e \in Ends, NEW g \in Groups, SendMessage(e, g)
  PROVE  IInv'
<1>1. PICK scope \in {"ptp"} \cup (IF e[1] = "client" THEN {"group"} ELSE {}) :
        SendTo({e}, g, Message(e, scope))
  BY DEF SendMessage
<1>2. Message(e, scope) \in Messages
  BY <1>1 DEF IInv, Types, Message, Messages
<1>3. {e} \in SUBSET Ends /\ \A x \in {e} : port[x][g].known /\ port[x][g].registered
  BY DEF SendMessage, IsRegistered
<1> QED BY <1>1, <1>2, <1>3, SendingKeeps DEF SendMessage

(* The host sends a message to the group.                                     *)
LEMMA SendGroupMessageKeeps ==
  ASSUME IInv, NEW g \in Groups, SendGroupMessage(g)
  PROVE  IInv'
<1>1. Message(Nobody, "group") \in Messages
  BY DEF IInv, Types, Message, Messages
<1> QED BY <1>1, RecipientsOf, SendingKeeps DEF SendGroupMessage

(* The connection wrote a message: what is to come starts with it.             *)
LEMMA WrittenAccounted ==
  ASSUME IInv, NEW e \in Ends, NEW g \in Groups, inside = Nobody, port[e][g].flight # <<>>,
         link' = [link EXCEPT ![e][g] = Append(link[e][g], Head(port[e][g].flight))],
         ToCome(e, g)' = Tail(Rest(port[e][g])),
         \A x \in Ends, y \in Groups : (x = e /\ y = g) \/ ToCome(x, y)' = ToCome(x, y),
         UNCHANGED <<got, owed, broken>>
  PROVE  Accounted' /\ link' \in [Ends -> [Groups -> Seq(Messages)]]
<1> DEFINE p == port[e][g]
           l == link[e][g]
           h == Head(p.flight)
           t == Tail(Rest(p))
<1>1. p \in Entry /\ l \in Seq(Messages) /\ p.flight \in Seq(Messages)
  BY RestType DEF IInv, Types
<1>2. h \in Messages
  BY <1>1, HeadTailProperties
<1>3. Rest(p) # <<>> /\ <<h>> \o t = Rest(p) /\ Rest(p) \in Seq(Messages)
  BY <1>1, RestOf, RestType
<1>4. t \in Seq(Messages)
  BY <1>3, HeadTailProperties
<1>5. Append(l, h) \in Seq(Messages)
  BY <1>1, <1>2, AppendMessage
<1>6. link' \in [Ends -> [Groups -> Seq(Messages)]]
  BY <1>5 DEF IInv, Types
<1>7. \A x \in Ends, y \in Groups :
        link'[x][y] = IF x = e /\ y = g THEN Append(l, h) ELSE link[x][y]
  BY DEF IInv, Types
<1>8. ToCome(e, g) = Rest(p) /\ ToCome(e, g)' = t
  BY DEF ToCome, Nobody
<1> HIDE DEF p, l, h, t
<1>9. Append(l, h) \o t = l \o Rest(p)
  <2>1. Append(l, h) \o t = l \o (<<h>> \o t)
    BY <1>1, <1>2, <1>4, WriteFirst
  <2> QED BY <1>3, <2>1
<1>10. ASSUME NEW x \in Ends, NEW y \in Groups, <<x[2], y>> \notin broken
       PROVE  got[Peer(x)][y] \o (link'[x][y] \o ToCome(x, y)') = owed[x][y]
  <2>1. got[Peer(x)][y] \o (link[x][y] \o ToCome(x, y)) = owed[x][y]
    BY <1>10 DEF IInv, Accounted
  <2>2. CASE x = e /\ y = g
    <3>1. link'[x][y] \o ToCome(x, y)' = link[x][y] \o ToCome(x, y)
      BY <1>7, <1>8, <1>9, <2>2 DEF l
    <3> QED BY <2>1, <3>1
  <2>3. CASE ~(x = e /\ y = g)
    BY <1>7, <2>1, <2>3
  <2> QED BY <2>2, <2>3
<1> QED BY <1>6, <1>10 DEF Accounted

(* The connection reports a message as sent.                                  *)
LEMMA SentKeeps ==
  ASSUME IInv, NEW e \in Ends, NEW g \in Groups, Sent(e, g)
  PROVE  IInv'
<1>1. /\ inside = Nobody /\ Open(e) /\ port[e][g].flight # <<>>
      /\ link' = [link EXCEPT ![e][g] = Append(link[e][g], Head(port[e][g].flight))]
      /\ UNCHANGED <<status, member, got, owed, epoch, broken, left>>
  BY DEF Sent
<1>2. Listens(e)
  BY <1>1, HomeAssumption DEF Listens, IInv, AtHome, Registered, Open
<1>3. CASE Tells(port[e][g])
  <2>1. inside' = <<e, g>> /\ UNCHANGED port /\ port[e][g].known
    BY <1>2, <1>3 DEF Sent, Tells
  <2>2. \A x \in Ends, y \in Groups : (x = e /\ y = g) \/ ToCome(x, y)' = ToCome(x, y)
    BY <1>1, <2>1 DEF ToCome, Nobody
  <2>3. ToCome(e, g)' = Tail(Rest(port[e][g]))
    BY <2>1 DEF ToCome
  <2>4. Accounted' /\ link' \in [Ends -> [Groups -> Seq(Messages)]]
    BY <1>1, <2>2, <2>3, WrittenAccounted
  <2>5. Types'
    BY <1>1, <2>1, <2>4 DEF IInv, Types
  <2>6. PortsOK' /\ OpenOnly' /\ Registered' /\ AtHome'
    BY <1>1, <2>1 DEF IInv, PortsOK, OpenOnly, Registered, AtHome, Open
  <2>7. CallbackHolds'
    BY <1>1, <2>1 DEF CallbackHolds, Open
  <2> QED BY <2>4, <2>5, <2>6, <2>7 DEF IInv
<1>4. CASE ~Tells(port[e][g])
  <2> DEFINE q == SentDone(port[e][g])
  <2>1. inside' = Nobody /\ port' = [port EXCEPT ![e][g] = q]
    BY <1>1, <1>2, <1>4 DEF Sent
  <2>2. port[e][g] \in Entry /\ PortOK(port[e][g], epoch[e][g]) /\ epoch[e][g] \in Nat
    BY DEF IInv, Types, PortsOK
  <2>3. /\ q \in Entry /\ PortOK(q, epoch[e][g]) /\ Rest(q) = Tail(Rest(port[e][g]))
        /\ q.registered = port[e][g].registered
    BY <1>1, <2>2, SentDoneKeeps
  <2> HIDE DEF q
  <2>4. \A x \in Ends, y \in Groups : port'[x][y] = IF x = e /\ y = g THEN q ELSE port[x][y]
    BY <2>1 DEF IInv, Types
  <2>5. \A x \in Ends, y \in Groups : (x = e /\ y = g) \/ ToCome(x, y)' = ToCome(x, y)
    BY <1>1, <2>1, <2>4 DEF ToCome, Nobody
  <2>6. ToCome(e, g)' = Tail(Rest(port[e][g]))
    BY <2>1, <2>3, <2>4 DEF ToCome, Nobody
  <2>7. Accounted' /\ link' \in [Ends -> [Groups -> Seq(Messages)]]
    BY <1>1, <2>5, <2>6, WrittenAccounted
  <2>8. Types'
    <3>1. port' \in [Ends -> [Groups -> Entry]]
      BY <2>1, <2>3 DEF IInv, Types
    <3> QED BY <1>1, <2>1, <2>7, <3>1 DEF IInv, Types
  <2>9. PortsOK'
    BY <1>1, <2>3, <2>4 DEF IInv, PortsOK
  <2>10. OpenOnly' /\ AtHome'
    BY <1>1, <2>4 DEF IInv, OpenOnly, AtHome, Open
  <2>11. Registered'
    BY <1>1, <2>3, <2>4 DEF IInv, Registered, Open
  <2>12. CallbackHolds'
    BY <2>1 DEF CallbackHolds, Nobody
  <2> QED BY <2>7, <2>8, <2>9, <2>10, <2>11, <2>12 DEF IInv
<1> QED BY <1>3, <1>4

(* The callback returns.                                                      *)
LEMMA SentReturnsKeeps ==
  ASSUME IInv, NEW e \in Ends, NEW g \in Groups, SentReturns(e, g)
  PROVE  IInv'
<1> DEFINE q == SentDone(port[e][g])
<1>1. /\ inside = <<e, g>> /\ inside' = Nobody
      /\ port' = [port EXCEPT ![e][g] = q]
      /\ UNCHANGED <<status, member, link, got, owed, epoch, broken, left>>
  BY DEF SentReturns
<1>2. /\ Open(e) /\ port[e][g].flight # <<>>
  BY <1>1 DEF IInv, CallbackHolds
<1>3. port[e][g] \in Entry /\ PortOK(port[e][g], epoch[e][g]) /\ epoch[e][g] \in Nat
  BY DEF IInv, Types, PortsOK
<1>4. /\ q \in Entry /\ PortOK(q, epoch[e][g]) /\ Rest(q) = Tail(Rest(port[e][g]))
      /\ q.registered = port[e][g].registered
  BY <1>2, <1>3, SentDoneKeeps
<1> HIDE DEF q
<1>5. \A x \in Ends, y \in Groups : port'[x][y] = IF x = e /\ y = g THEN q ELSE port[x][y]
  BY <1>1 DEF IInv, Types
<1>6. \A x \in Ends, y \in Groups : ToCome(x, y)' = ToCome(x, y)
  <2> TAKE x \in Ends, y \in Groups
  <2>1. ToCome(x, y)' = Rest(port'[x][y])
    BY <1>1 DEF ToCome, Nobody
  <2>2. CASE x = e /\ y = g
    BY <1>1, <1>4, <1>5, <2>1, <2>2 DEF ToCome
  <2>3. CASE ~(x = e /\ y = g)
    <3>1. inside # <<x, y>>
      BY <1>1, <2>3
    <3> QED BY <1>5, <2>1, <2>3, <3>1 DEF ToCome
  <2> QED BY <2>2, <2>3
<1>7. Types'
  <2>1. port' \in [Ends -> [Groups -> Entry]]
    BY <1>1, <1>4 DEF IInv, Types
  <2> QED BY <1>1, <2>1 DEF IInv, Types
<1>8. PortsOK'
  BY <1>1, <1>4, <1>5 DEF IInv, PortsOK
<1>9. OpenOnly' /\ AtHome'
  BY <1>1, <1>2, <1>5 DEF IInv, OpenOnly, AtHome, Open
<1>10. Registered'
  BY <1>1, <1>4, <1>5 DEF IInv, Registered, Open
<1>11. CallbackHolds'
  BY <1>1 DEF CallbackHolds, Nobody
<1>12. Accounted'
  BY <1>1, <1>6 DEF IInv, Accounted
<1> QED BY <1>7, <1>8, <1>9, <1>10, <1>11, <1>12 DEF IInv

(* A message is taken from what the peer wrote.                               *)
LEMMA TakeFirst ==
  ASSUME NEW a \in Seq(Messages), NEW l \in Seq(Messages), l # <<>>,
         NEW t \in Seq(Messages)
  PROVE  /\ Append(a, Head(l)) \o (Tail(l) \o t) = a \o (l \o t)
         /\ Append(a, Head(l)) \in Seq(Messages) /\ Tail(l) \in Seq(Messages)
         /\ Head(l) \in Messages
<1> DEFINE h == Head(l)
           r == Tail(l)
           rt == r \o t
<1>1. h \in Messages /\ r \in Seq(Messages)
  BY HeadTailProperties
<1>2. <<h>> \o r = l
  BY TailConcat
<1>3. <<h>> \in Seq(Messages) /\ Append(a, h) \in Seq(Messages)
  BY <1>1, AppendMessage
<1> HIDE DEF h, r
<1>4. rt \in Seq(Messages)
  BY <1>1, ConcatProperties
<1> HIDE DEF rt
<1>5. Append(a, h) \o rt = a \o (<<h>> \o rt)
  BY <1>1, <1>4, WriteFirst
<1>6. <<h>> \o rt = l \o t
  <2> DEFINE s == <<h>>
  <2>1. s \in Seq(Messages) /\ s \o r = l
    BY <1>2, <1>3
  <2> HIDE DEF s
  <2>2. s \o (r \o t) = (s \o r) \o t
    BY <1>1, <2>1, Associate
  <2> QED BY <2>1, <2>2 DEF s, rt
<1> QED BY <1>1, <1>3, <1>5, <1>6 DEF h, r, rt

(* A message is received, and forwarded if it is for the group: the host        *)
(* forwards to other connections than the one it came from.                    *)
LEMMA ReceivedKeeps ==
  ASSUME IInv, NEW e \in Ends, NEW g \in Groups, Received(e, g)
  PROVE  IInv'
<1> DEFINE f == Peer(e)
           l == link[f][g]
           m == Head(l)
<1>1. /\ inside = Nobody /\ inside' = inside /\ Open(e) /\ l # <<>>
      /\ link' = [link EXCEPT ![f][g] = Tail(l)]
      /\ UNCHANGED <<status, member, inside, epoch, left>>
  BY DEF Received
<1>2. f \in Ends /\ Peer(f) = e /\ f # e /\ f[2] = e[2] /\ (e[1] = "host" => f[1] = "client")
  BY Peers
<1>3. l \in Seq(Messages) /\ got[e][g] \in Seq(Messages)
  BY <1>2 DEF IInv, Types
<1>4. m \in Messages /\ Tail(l) \in Seq(Messages)
  BY <1>1, <1>3, HeadTailProperties
<1>5. link' \in [Ends -> [Groups -> Seq(Messages)]]
  BY <1>1, <1>4 DEF IInv, Types
<1>6. \A x \in Ends, y \in Groups :
        link'[x][y] = IF x = f /\ y = g THEN Tail(l) ELSE link[x][y]
  BY <1>1, <1>2 DEF IInv, Types
<1>7. CASE ~IsRegistered(e, g)
  <2>1. UNCHANGED <<got, port, owed>> /\ broken' = broken \cup {<<e[2], g>>}
    BY <1>7 DEF Received
  <2>2. Types'
    BY <1>1, <1>5, <2>1 DEF IInv, Types
  <2>3. PortsOK' /\ OpenOnly' /\ Registered' /\ AtHome' /\ CallbackHolds'
    BY <1>1, <2>1 DEF IInv, PortsOK, OpenOnly, Registered, AtHome, CallbackHolds, Open
  <2>4. Accounted'
    <3> SUFFICES ASSUME NEW x \in Ends, NEW y \in Groups, <<x[2], y>> \notin broken'
                 PROVE  got[Peer(x)][y] \o (link'[x][y] \o ToCome(x, y)') = owed[x][y]
      BY <2>1 DEF Accounted
    <3>1. ToCome(x, y)' = ToCome(x, y)
      BY <1>1, <2>1 DEF ToCome
    <3>2. ~(x = f /\ y = g)
      BY <1>2, <2>1
    <3>3. got[Peer(x)][y] \o (link[x][y] \o ToCome(x, y)) = owed[x][y]
      BY <2>1 DEF IInv, Accounted
    <3> QED BY <1>6, <3>1, <3>2, <3>3
  <2> QED BY <2>2, <2>3, <2>4 DEF IInv
<1>8. CASE IsRegistered(e, g)
  <2> DEFINE a == Append(got[e][g], m)
             ends == IF e[1] = "host" /\ m.scope = "group" THEN Recipients(g, e) ELSE {}
  <2>1. got' = [got EXCEPT ![e][g] = a] /\ UNCHANGED broken
    BY <1>8 DEF Received
  <2>2. a \in Seq(Messages)
    BY <1>3, <1>4, AppendMessage
  <2> HIDE DEF a
  <2>3. got' \in [Ends -> [Groups -> Seq(Messages)]]
    BY <2>1, <2>2 DEF IInv, Types
  <2>4. \A x \in Ends, y \in Groups : got'[x][y] = IF x = e /\ y = g THEN a ELSE got[x][y]
    BY <2>1 DEF IInv, Types
  <2>5. /\ ends \in SUBSET Ends
        /\ \A x \in ends : x[1] = "host" /\ e[1] = "host" /\ x # e
                           /\ port[x][g].known /\ port[x][g].registered
    BY RecipientsOf
  <2>6. /\ port' \in [Ends -> [Groups -> Entry]] /\ owed' \in [Ends -> [Groups -> Seq(Messages)]]
        /\ \A x \in Ends, y \in Groups :
             /\ PortOK(port'[x][y], epoch[x][y])
             /\ port'[x][y].known = port[x][y].known
             /\ port'[x][y].registered = port[x][y].registered
             /\ port[x][y].flight # <<>> => port'[x][y].flight # <<>>
             /\ ~(x \in ends /\ y = g) =>
                  port'[x][y] = port[x][y] /\ owed'[x][y] = owed[x][y]
        /\ \A x \in Ends, y \in Groups :
             \/ ToCome(x, y)' = ToCome(x, y) /\ owed'[x][y] = owed[x][y]
             \/ \E n \in Messages : /\ ToCome(x, y)' = Append(ToCome(x, y), n)
                                    /\ owed'[x][y] = Append(owed[x][y], n)
    <3>1. CASE e[1] = "host" /\ m.scope = "group"
      <4>1. SendTo(ends, g, m)
        BY <1>8, <3>1 DEF Received
      <4> HIDE DEF ends, m, l
      <4> QED BY <1>1, <1>4, <2>5, <4>1, SendToKeeps
    <3>2. CASE ~(e[1] = "host" /\ m.scope = "group")
      <4>1. UNCHANGED <<port, owed>>
        BY <1>8, <3>2 DEF Received
      <4> HIDE DEF ends
      <4> QED BY <1>1, <4>1 DEF IInv, Types, PortsOK, ToCome
    <3> QED BY <3>1, <3>2
  <2> HIDE DEF ends
  <2>7. Types'
    BY <1>1, <1>5, <2>3, <2>6 DEF IInv, Types
  <2>8. PortsOK'
    BY <1>1, <2>6 DEF PortsOK
  <2>9. OpenOnly'
    <3> SUFFICES ASSUME NEW x \in Ends, ~Open(x), NEW y \in Groups
                 PROVE  port'[x][y] = NoEntry
      BY <1>1 DEF OpenOnly, Open
    <3>1. \A z \in Groups : port[x][z] = NoEntry /\ ~port[x][z].known
      BY DEF IInv, OpenOnly, NoEntry
    <3>2. x \notin ends
      BY <2>5, <3>1
    <3> QED BY <2>6, <3>1, <3>2
  <2>10. Registered'
    <3>1. \A x \in Ends, y \in Groups : port'[x][y].registered = port[x][y].registered
      BY <2>6
    <3> QED BY <1>1, <3>1 DEF IInv, Registered, Open
  <2>11. AtHome' /\ CallbackHolds'
    BY <1>1 DEF IInv, AtHome, CallbackHolds, Nobody
  <2>12. Accounted'
    <3> SUFFICES ASSUME NEW x \in Ends, NEW y \in Groups, <<x[2], y>> \notin broken
                 PROVE  got'[Peer(x)][y] \o (link'[x][y] \o ToCome(x, y)') = owed'[x][y]
      BY <2>1 DEF Accounted
    <3>1. got[Peer(x)][y] \o (link[x][y] \o ToCome(x, y)) = owed[x][y]
      BY DEF IInv, Accounted
    <3>2. /\ got[Peer(x)][y] \in Seq(Messages) /\ link[x][y] \in Seq(Messages)
          /\ Peer(x) \in Ends /\ Peer(Peer(x)) = x
      <4>1. Peer(x) \in Ends /\ Peer(Peer(x)) = x
        BY Peers
      <4> QED BY <4>1 DEF IInv, Types
    <3>3. ToCome(x, y) \in Seq(Messages)
      BY ToComeType
    <3>4. CASE x = f /\ y = g
      <4>1. f \notin ends
        BY <1>2, <2>5
      <4>2. port'[x][y] = port[x][y] /\ owed'[x][y] = owed[x][y]
        BY <2>6, <3>4, <4>1
      <4>3. ToCome(x, y)' = ToCome(x, y)
        BY <1>1, <4>2 DEF ToCome
      <4>4. got'[Peer(x)][y] = a /\ link'[x][y] = Tail(l) /\ got[Peer(x)][y] = got[e][g]
            /\ link[x][y] = l
        BY <1>2, <1>6, <2>4, <3>4
      <4>5. Append(got[e][g], Head(l)) \o (Tail(l) \o ToCome(x, y)) = got[e][g] \o (l \o ToCome(x, y))
        <5>1. l \in Seq(Messages) /\ l # <<>> /\ got[e][g] \in Seq(Messages)
          BY <1>1, <1>3
        <5> DEFINE b == got[e][g]
                   t == ToCome(x, y)
        <5>2. l \in Seq(Messages) /\ l # <<>> /\ b \in Seq(Messages) /\ t \in Seq(Messages)
          BY <3>3, <5>1
        <5> HIDE DEF l, b, t
        <5>3. Append(b, Head(l)) \o (Tail(l) \o t) = b \o (l \o t)
          <6> DEFINE h == Head(l)
                     r == Tail(l)
          <6> DEFINE u == <<h>>
          <6>1. /\ h \in Messages /\ r \in Seq(Messages) /\ u \o r = l
            BY <5>2, HeadTailProperties, TailConcat
          <6> HIDE DEF h, r
          <6>2. u \in Seq(Messages) /\ Append(b, h) = b \o u
            BY <5>2, <6>1
          <6> HIDE DEF u
          <6>3. (b \o u) \o (r \o t) = b \o ((u \o r) \o t)
            <7> DEFINE rt == r \o t
            <7>1. rt \in Seq(Messages)
              BY <5>2, <6>1, ConcatProperties
            <7>2. (u \o r) \o t = u \o rt
              BY <5>2, <6>1, <6>2, Associate
            <7> HIDE DEF rt
            <7>3. (b \o u) \o rt = b \o (u \o rt)
              BY <5>2, <6>2, <7>1, Associate, SMTT(30)
            <7> QED BY <7>2, <7>3 DEF rt
          <6>4. (b \o u) \o (r \o t) = b \o (l \o t)
            BY <6>1, <6>3
          <6>5. Append(b, h) \o (r \o t) = b \o (l \o t)
            BY <6>2, <6>4
          <6> QED BY <6>5 DEF h, r
        <5> QED BY <5>3 DEF b, t
      <4> QED BY <3>1, <4>2, <4>3, <4>4, <4>5 DEF a
    <3>5. CASE ~(x = f /\ y = g)
      <4>1. got'[Peer(x)][y] = got[Peer(x)][y] /\ link'[x][y] = link[x][y]
        BY <1>2, <1>6, <2>4, <3>2, <3>5
      <4>2. CASE ToCome(x, y)' = ToCome(x, y) /\ owed'[x][y] = owed[x][y]
        BY <3>1, <4>1, <4>2
      <4>3. ASSUME NEW n \in Messages,
                   ToCome(x, y)' = Append(ToCome(x, y), n), owed'[x][y] = Append(owed[x][y], n)
            PROVE  got'[Peer(x)][y] \o (link'[x][y] \o ToCome(x, y)') = owed'[x][y]
        <5>1. got[Peer(x)][y] \o (link[x][y] \o Append(ToCome(x, y), n))
                = Append(got[Peer(x)][y] \o (link[x][y] \o ToCome(x, y)), n)
          BY <3>2, <3>3, SendLast, ZenonT(30)
        <5> QED BY <3>1, <4>1, <4>3, <5>1
      <4> QED BY <2>6, <4>2, <4>3
    <3> QED BY <3>4, <3>5
  <2> QED BY <2>7, <2>8, <2>9, <2>10, <2>11, <2>12 DEF IInv
<1> QED BY <1>7, <1>8

(* Every step keeps the invariant.                                            *)
LEMMA NextIInv == IInv /\ [Next]_vars => IInv'
<1> SUFFICES ASSUME IInv, [Next]_vars PROVE IInv'
  OBVIOUS
<1>1. ASSUME NEW g \in Groups, SendGroupMessage(g) PROVE IInv'
  BY <1>1, SendGroupMessageKeeps
<1>2. ASSUME NEW e \in Ends, Opened(e) \/ Closed(e) PROVE IInv'
  BY <1>2, OpenedKeeps, ClosedKeeps
<1>3. ASSUME NEW e \in Ends, NEW g \in Groups,
             AddMember(e, g) \/ RemoveMember(e, g) \/ GroupUnrefed(e, g)
      PROVE  IInv'
  BY <1>3, AddMemberKeeps, RemoveMemberKeeps, GroupUnrefedKeeps
<1>4. ASSUME NEW e \in Ends, NEW g \in Groups,
             SendMessage(e, g) \/ CancelGroupMessages(e, g)
      PROVE  IInv'
  BY <1>4, SendMessageKeeps, CancelGroupMessagesKeeps
<1>5. ASSUME NEW e \in Ends, NEW g \in Groups,
             Sent(e, g) \/ SentReturns(e, g) \/ Received(e, g)
      PROVE  IInv'
  BY <1>5, SentKeeps, SentReturnsKeeps, ReceivedKeeps
<1>6. CASE UNCHANGED vars
  <2>1. Types' /\ PortsOK' /\ OpenOnly' /\ Registered' /\ AtHome'
    BY <1>6 DEF vars, IInv, Types, PortsOK, OpenOnly, Registered, AtHome, Open
  <2>2. CallbackHolds' /\ Accounted'
    BY <1>6 DEF vars, IInv, CallbackHolds, Accounted, ToCome, Open
  <2> QED BY <2>1, <2>2 DEF IInv
<1> QED BY <1>1, <1>2, <1>3, <1>4, <1>5, <1>6 DEF Next

-----------------------------------------------------------------------------
(* The invariant holds in every state.                                        *)
THEOREM CommunicationInvariant == Spec => []IInv
<1>1. Init => IInv
  BY InitIInv
<1>2. IInv /\ [Next]_vars => IInv'
  BY NextIInv
<1> QED BY <1>1, <1>2, PTL DEF Spec

(* What it says of the registry: its counts are right,                        *)
LEMMA CountsRight == IInv => EntrySound
BY DEF IInv, PortsOK, PortOK, Counted, EntrySound

(* it reports to the method what was sent in this registration, no more,       *)
LEMMA ReportsRight == IInv => ReportsExact
<1> SUFFICES ASSUME IInv, NEW e \in Ends, NEW g \in Groups, port[e][g].known,
                    NEW i \in DOMAIN Rest(port[e][g])
             PROVE  i > port[e][g].act <=>
                      port[e][g].registered /\ Rest(port[e][g])[i].epoch = epoch[e][g]
  BY DEF ReportsExact, Rest
<1>1. port[e][g] \in Entry /\ Dated(port[e][g], epoch[e][g])
  BY DEF IInv, Types, PortsOK, PortOK
<1>2. i \in 1 .. Total(port[e][g])
  BY <1>1, RestType
<1> QED BY <1>1, <1>2 DEF Dated

(* and every message arrives once and in order.                               *)
LEMMA OrderRight == IInv => InOrder
<1> SUFFICES ASSUME IInv, NEW e \in Ends, NEW g \in Groups, <<e[2], g>> \notin broken
             PROVE  got[Peer(e)][g] \o Waiting(e, g) = owed[e][g]
  BY DEF InOrder
<1>1. got[Peer(e)][g] \o (link[e][g] \o ToCome(e, g)) = owed[e][g]
  BY DEF IInv, Accounted
<1> DEFINE p == port[e][g]
           l == link[e][g]
           s == IF inside = <<e, g>> THEN Tail(p.flight) ELSE p.flight
<1>2. /\ p \in Entry /\ l \in Seq(Messages) /\ p.flight \in Seq(Messages)
      /\ p.queue \in Seq(Messages)
  BY RestType DEF IInv, Types
<1>3. inside = <<e, g>> => p.flight # <<>>
  BY DEF IInv, CallbackHolds
<1>4. s \in Seq(Messages)
  BY <1>2, <1>3, HeadTailProperties
<1>5. ToCome(e, g) = s \o p.queue
  <2>1. CASE inside = <<e, g>>
    BY <1>2, <1>3, <2>1, RestOf DEF ToCome
  <2>2. CASE inside # <<e, g>>
    BY <2>2 DEF ToCome, Rest
  <2> QED BY <2>1, <2>2
<1>6. Waiting(e, g) = (l \o s) \o p.queue
  BY DEF Waiting
<1>7. Waiting(e, g) = l \o ToCome(e, g)
  <2> DEFINE q == p.queue
  <2>1. l \in Seq(Messages) /\ s \in Seq(Messages) /\ q \in Seq(Messages)
    BY <1>2, <1>4
  <2> HIDE DEF l, s, q
  <2>2. (l \o s) \o q = l \o (s \o q)
    BY <2>1, Associate
  <2> QED BY <1>5, <1>6, <2>2 DEF q
<1> QED BY <1>1, <1>7 DEF l

(* The registry loses, doubles, reorders and misreports no message: the counts *)
(* of inf_communication_registry_sent_cb and _unregister are right whatever    *)
(* the callbacks do, and what the groups send arrives once and in order.       *)
THEOREM RegistryIsSound == Spec => []RegistrySound
<1>1. IInv => RegistrySound
  BY CountsRight, ReportsRight, OrderRight DEF RegistrySound
<1> QED BY <1>1, CommunicationInvariant, PTL

=============================================================================
