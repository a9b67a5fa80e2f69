-------------------------- MODULE StandaloneIoProofs --------------------------
(* Proofs about the main loop, for any watches, timeouts and dispatches that   *)
(* are different things, whatever other threads may add and remove apart from  *)
(* watches (a watch belongs to the loop's thread), and any number of events.   *)
EXTENDS StandaloneIo, SequenceTheorems, FiniteSetTheorems, WellFoundedInduction, TLAPS

(* What the proofs assume of the constants.                                    *)
Kinds ==
  /\ Watches \intersect Timeouts = {} /\ Watches \intersect Dispatchs = {}
  /\ Timeouts \intersect Dispatchs = {} /\ "none" \notin Objects
  /\ "watch" \notin Foreign

-----------------------------------------------------------------------------
(* The shape of the state.                                                    *)
Distinct(s) == \A i, j \in DOMAIN s : s[i] = s[j] => i = j

List(s, S) == s \in Seq(S) /\ Distinct(s)

ListsOK == List(watches, Watches) /\ List(timeouts, Timeouts) /\ List(dispatchs, Dispatchs)

\* The two arrays go together; what poll reported of a socket is of that socket.
EventsOK ==
  /\ events \in Seq([sock : Watches, rev : Watches \union {"none"}])
  /\ Len(events) = Len(watches)
  /\ \A i \in DOMAIN watches :
       events[i].sock = watches[i] /\ events[i].rev \in {"none", watches[i]}

\* What poll was called with.
PollOK ==
  /\ polling \in BOOLEAN /\ pipe \in Nat
  /\ running \in {"no", "once", "forever"}
  /\ pc \in {"out", "top", "poll", "back", "call", "gone"}
  /\ poll \in [socks : Seq(Watches), wait : {"zero", "finite", "infinite"},
               armed : SUBSET Timeouts, result : Nat]
  /\ pc = "poll" => polling /\ poll.socks = watches
  /\ pc = "top" => running # "no"

\* What is in no list although it is not freed: the callback that runs, when it
\* was called for the only time or is of a watch that was removed meanwhile.
Aside ==
  IF cur.kind \in {"timeout", "dispatch"} \/ disposed THEN {cur.id} ELSE {}

\* The callback that runs.
CallOK ==
  /\ cur \in [kind : {"none", "watch", "timeout", "dispatch"}, id : Objects \union {"none"},
              own : BOOLEAN]
  /\ disposed \in BOOLEAN /\ cur.own
  /\ pc = "call" <=> cur.kind # "none"
  /\ pc # "call" => cur = NoCall /\ ~disposed
  /\ cur.kind = "watch" => cur.id \in Watches /\ (cur.id \in Range(watches) <=> ~disposed)
  /\ cur.kind = "timeout" => cur.id \in Timeouts \ Range(timeouts)
  /\ cur.kind = "dispatch" => cur.id \in Dispatchs \ Range(dispatchs)
  /\ disposed => cur.kind = "watch"

\* What is not freed is in a list or runs.
LifeOK ==
  /\ life \in [Objects -> {"none", "added", "freed"}]
  /\ \A x \in Objects :
       life[x] = "added" <=>
         x \in Range(watches) \union Range(timeouts) \union Range(dispatchs) \union Aside

IInv == ListsOK /\ EventsOK /\ PollOK /\ CallOK /\ LifeOK /\ Woken

-----------------------------------------------------------------------------
(* Adding to a list and removing from it.                                     *)
LEMMA AppendAdds ==
  ASSUME NEW S, NEW s, List(s, S), NEW x \in S, x \notin Range(s)
  PROVE  List(Append(s, x), S) /\ Range(Append(s, x)) = Range(s) \union {x}
<1> DEFINE a == Append(s, x)
<1>1. /\ a \in Seq(S) /\ Len(a) = Len(s) + 1
      /\ \A i \in 1 .. Len(s) : a[i] = s[i]
      /\ a[Len(s) + 1] = x
  BY AppendProperties DEF List
<1>2. Len(s) \in Nat /\ DOMAIN s = 1 .. Len(s) /\ DOMAIN a = 1 .. Len(s) + 1
  BY <1>1, LenProperties DEF List
<1> HIDE DEF a
<1>3. \A i \in DOMAIN a : i \in DOMAIN s \/ i = Len(s) + 1
  BY <1>2
<1>4. \A i \in DOMAIN s : s[i] # x
  BY DEF Range
<1>5. Distinct(a)
  BY <1>1, <1>2, <1>3, <1>4 DEF Distinct, List
<1>6. Range(a) = Range(s) \union {x}
  BY <1>1, <1>2, <1>3 DEF Range
<1> QED BY <1>1, <1>5, <1>6 DEF List, a

LEMMA ConsAdds ==
  ASSUME NEW S, NEW s, List(s, S), NEW x \in S, x \notin Range(s)
  PROVE  List(<<x>> \o s, S) /\ Range(<<x>> \o s) = Range(s) \union {x}
<1> DEFINE a == <<x>> \o s
<1>1. <<x>> \in Seq(S) /\ Len(<<x>>) = 1 /\ <<x>>[1] = x
  OBVIOUS
<1>2. Len(s) \in Nat /\ DOMAIN s = 1 .. Len(s)
  BY LenProperties DEF List
<1>3. /\ a \in Seq(S) /\ Len(a) = 1 + Len(s)
      /\ \A i \in 1 .. 1 + Len(s) : a[i] = IF i <= 1 THEN <<x>>[i] ELSE s[i - 1]
  <2> HIDE DEF a
  <2>1. /\ a \in Seq(S) /\ Len(a) = Len(<<x>>) + Len(s)
        /\ \A i \in 1 .. Len(<<x>>) + Len(s) :
             a[i] = IF i <= Len(<<x>>) THEN <<x>>[i] ELSE s[i - Len(<<x>>)]
    BY <1>1, ConcatProperties DEF List, a
  <2> QED BY <2>1, <1>1
<1> HIDE DEF a
<1>4. DOMAIN a = 1 .. 1 + Len(s)
  BY <1>3, LenProperties
<1>5. a[1] = x /\ \A i \in 2 .. 1 + Len(s) : i - 1 \in DOMAIN s /\ a[i] = s[i - 1]
  BY <1>1, <1>2, <1>3
<1>6. \A i \in DOMAIN a : i = 1 \/ i \in 2 .. 1 + Len(s)
  BY <1>2, <1>4
<1>7. \A i \in DOMAIN s : s[i] # x
  BY DEF Range
<1>8. Distinct(a)
  <2> SUFFICES ASSUME NEW i \in DOMAIN a, NEW j \in DOMAIN a, a[i] = a[j] PROVE i = j
    BY DEF Distinct
  <2>1. CASE i = 1 \/ j = 1
    BY <2>1, <1>5, <1>6, <1>7
  <2>2. CASE i \in 2 .. 1 + Len(s) /\ j \in 2 .. 1 + Len(s)
    <3>1. i - 1 = j - 1
      BY <2>2, <1>5 DEF Distinct, List
    <3> QED BY <3>1, <2>2, <1>2
  <2> QED BY <2>1, <2>2, <1>6
<1>9. Range(a) = Range(s) \union {x}
  <2>1. Range(a) \subseteq Range(s) \union {x}
    BY <1>5, <1>6 DEF Range
  <2>2. \A i \in DOMAIN s : i + 1 \in 2 .. 1 + Len(s) /\ (i + 1) - 1 = i /\ i + 1 \in DOMAIN a
    BY <1>2, <1>4
  <2>3. \A i \in DOMAIN s : s[i] = a[i + 1]
    BY <2>2, <1>5
  <2>4. 1 \in DOMAIN a
    BY <1>2, <1>4
  <2>5. x \in Range(a)
    BY <2>4, <1>5 DEF Range
  <2>6. Range(s) \subseteq Range(a)
    BY <2>2, <2>3 DEF Range
  <2> QED BY <2>1, <2>5, <2>6
<1> QED BY <1>3, <1>8, <1>9 DEF List, a

LEMMA RemoveAtRemoves ==
  ASSUME NEW S, NEW s, List(s, S), NEW k \in DOMAIN s
  PROVE  List(RemoveAt(s, k), S) /\ Range(RemoveAt(s, k)) = Range(s) \ {s[k]}
<1> DEFINE n == Len(s)  b == SubSeq(s, 1, k - 1)  c == SubSeq(s, k + 1, n)  r == b \o c
<1>1. n \in Nat /\ DOMAIN s = 1 .. n /\ k \in 1 .. n /\ \A i \in 1 .. n : s[i] \in S
  BY LenProperties, ElementOfSeq DEF List
<1> HIDE DEF n
<1>2. b \in Seq(S) /\ Len(b) = k - 1 /\ \A i \in 1 .. k - 1 : b[i] = s[i]
  <2>1. k - 1 \in Int /\ 1 \in Int /\ \A i \in 1 .. k - 1 : s[i] \in S
    BY <1>1
  <2> HIDE DEF b
  <2>2. /\ b \in Seq(S) /\ Len(b) = IF 1 <= k - 1 THEN (k - 1) - 1 + 1 ELSE 0
        /\ \A i \in 1 .. (k - 1) - 1 + 1 : b[i] = s[1 + i - 1]
    BY <2>1, SubSeqProperties DEF b
  <2>3. (k - 1) - 1 + 1 = k - 1 /\ \A i \in 1 .. k - 1 : 1 + i - 1 = i
    BY <1>1
  <2> QED BY <2>2, <2>3, <1>1
<1>3. c \in Seq(S) /\ Len(c) = n - k /\ \A i \in 1 .. n - k : c[i] = s[k + i]
  <2>1. k + 1 \in Int /\ n \in Int /\ \A i \in k + 1 .. n : s[i] \in S
    BY <1>1
  <2> HIDE DEF c
  <2>2. /\ c \in Seq(S) /\ Len(c) = IF k + 1 <= n THEN n - (k + 1) + 1 ELSE 0
        /\ \A i \in 1 .. n - (k + 1) + 1 : c[i] = s[(k + 1) + i - 1]
    BY <2>1, SubSeqProperties DEF c
  <2>3. n - (k + 1) + 1 = n - k /\ \A i \in 1 .. n - k : (k + 1) + i - 1 = k + i
    BY <1>1
  <2> QED BY <2>2, <2>3, <1>1
<1> HIDE DEF b, c
<1>4. /\ r \in Seq(S) /\ Len(r) = n - 1
      /\ \A i \in 1 .. n - 1 : r[i] = IF i < k THEN s[i] ELSE s[i + 1]
  <2> HIDE DEF r
  <2>1. /\ r \in Seq(S) /\ Len(r) = Len(b) + Len(c)
        /\ \A i \in 1 .. Len(b) + Len(c) : r[i] = IF i <= Len(b) THEN b[i] ELSE c[i - Len(b)]
    BY <1>2, <1>3, ConcatProperties DEF r
  <2>2. Len(b) + Len(c) = n - 1
    BY <1>1, <1>2, <1>3
  <2>3. ASSUME NEW i \in 1 .. n - 1, i < k PROVE r[i] = s[i]
    BY <2>1, <2>2, <2>3, <1>1, <1>2
  <2>4. ASSUME NEW i \in 1 .. n - 1, ~(i < k) PROVE r[i] = s[i + 1]
    <3>1. i - (k - 1) \in 1 .. n - k /\ k + (i - (k - 1)) = i + 1 /\ ~(i <= k - 1)
      BY <2>4, <1>1
    <3> QED BY <3>1, <2>1, <2>2, <1>2, <1>3
  <2> QED BY <2>1, <2>2, <2>3, <2>4
<1> HIDE DEF r
<1>5. DOMAIN r = 1 .. n - 1
  BY <1>4, LenProperties
<1> DEFINE p(i) == IF i < k THEN i ELSE i + 1
<1>6. \A i \in DOMAIN r : p(i) \in DOMAIN s /\ p(i) # k /\ r[i] = s[p(i)]
  BY <1>1, <1>4, <1>5
<1>7. \A i, j \in DOMAIN r : p(i) = p(j) => i = j
  BY <1>1, <1>5
<1>8. \A j \in DOMAIN s : j # k => \E i \in DOMAIN r : p(i) = j
  <2> SUFFICES ASSUME NEW j \in DOMAIN s, j # k PROVE \E i \in DOMAIN r : p(i) = j
    OBVIOUS
  <2>1. CASE j < k
    BY <2>1, <1>1, <1>5
  <2>2. CASE j > k
    <3>1. j - 1 \in DOMAIN r /\ p(j - 1) = j
      BY <2>2, <1>1, <1>5
    <3> QED BY <3>1
  <2> QED BY <2>1, <2>2, <1>1
<1> HIDE DEF p
<1>9. Distinct(r)
  BY <1>6, <1>7 DEF Distinct, List
<1>10. Range(r) = Range(s) \ {s[k]}
  BY <1>6, <1>8 DEF Range, Distinct, List
<1> QED BY <1>4, <1>9, <1>10 DEF List, RemoveAt, r, b, c, n

LEMMA WithoutRemoves ==
  ASSUME NEW S, NEW s, List(s, S), NEW x \in Range(s)
  PROVE  List(Without(s, x), S) /\ Range(Without(s, x)) = Range(s) \ {x}
<1> DEFINE k == CHOOSE i \in DOMAIN s : s[i] = x
<1>1. k \in DOMAIN s /\ s[k] = x
  BY DEF Range
<1> HIDE DEF k
<1> QED BY <1>1, RemoveAtRemoves DEF Without, k

\* What filling a gap does to a sequence.
LEMMA FilledIs ==
  ASSUME NEW S, NEW s \in Seq(S), NEW k \in 1 .. Len(s)
  PROVE  /\ Filled(s, k) \in Seq(S) /\ Len(Filled(s, k)) = Len(s) - 1
         /\ \A i \in 1 .. Len(s) - 1 : Filled(s, k)[i] = s[IF i = k THEN Len(s) ELSE i]
<1> DEFINE n == Len(s)  e == [s EXCEPT ![k] = s[n]]  f == SubSeq(e, 1, n - 1)
<1>1. n \in Nat /\ DOMAIN s = 1 .. n /\ \A i \in 1 .. n : s[i] \in S
  BY LenProperties, ElementOfSeq
<1> HIDE DEF n
<1>2. \A i \in 1 .. n : e[i] = IF i = k THEN s[n] ELSE s[i]
  BY <1>1
<1>3. k \in 1 .. n
  BY DEF n
<1>4. \A i \in 1 .. n - 1 : e[i] \in S
  BY <1>1, <1>2, <1>3
<1> HIDE DEF e
<1>5. /\ f \in Seq(S) /\ Len(f) = IF 1 <= n - 1 THEN (n - 1) - 1 + 1 ELSE 0
      /\ \A i \in 1 .. (n - 1) - 1 + 1 : f[i] = e[1 + i - 1]
  <2>1. n - 1 \in Int /\ 1 \in Int
    BY <1>1
  <2> HIDE DEF f
  <2> QED BY <2>1, <1>4, SubSeqProperties DEF f
<1> HIDE DEF f
<1>6. Len(f) = n - 1 /\ \A i \in 1 .. n - 1 : f[i] = e[i]
  BY <1>1, <1>3, <1>5
<1>7. \A i \in 1 .. n - 1 : f[i] = s[IF i = k THEN n ELSE i]
  BY <1>1, <1>2, <1>6
<1>8. f = Filled(s, k)
  BY DEF f, e, n, Filled
<1> QED BY <1>5, <1>6, <1>7, <1>8 DEF n

LEMMA FilledRemoves ==
  ASSUME NEW S, NEW s, List(s, S), NEW k \in DOMAIN s
  PROVE  List(Filled(s, k), S) /\ Range(Filled(s, k)) = Range(s) \ {s[k]}
<1> DEFINE n == Len(s)  f == Filled(s, k)  p(i) == IF i = k THEN n ELSE i
<1>1. n \in Nat /\ DOMAIN s = 1 .. n
  BY LenProperties DEF List
<1>2. f \in Seq(S) /\ Len(f) = n - 1 /\ \A i \in 1 .. n - 1 : f[i] = s[p(i)]
  <2>1. s \in Seq(S) /\ k \in 1 .. Len(s)
    BY <1>1 DEF List
  <2> HIDE DEF f
  <2> QED BY <2>1, FilledIs DEF f
<1> HIDE DEF f, n
<1>3. DOMAIN f = 1 .. n - 1
  BY <1>2, LenProperties
<1>4. \A i \in DOMAIN f : p(i) \in DOMAIN s /\ p(i) # k /\ f[i] = s[p(i)]
  BY <1>1, <1>2, <1>3
<1>5. \A i, j \in DOMAIN f : p(i) = p(j) => i = j
  BY <1>1, <1>3
<1>6. \A j \in DOMAIN s : j # k => \E i \in DOMAIN f : p(i) = j
  <2> SUFFICES ASSUME NEW j \in DOMAIN s, j # k PROVE \E i \in DOMAIN f : p(i) = j
    OBVIOUS
  <2>1. CASE j = n
    <3>1. k \in DOMAIN f /\ p(k) = j
      BY <2>1, <1>1, <1>3
    <3> QED BY <3>1
  <2>2. CASE j # n
    <3>1. j \in DOMAIN f /\ p(j) = j
      BY <2>2, <1>1, <1>3
    <3> QED BY <3>1
  <2> QED BY <2>1, <2>2
<1> HIDE DEF p
<1>7. Distinct(f)
  BY <1>4, <1>5 DEF Distinct, List
<1>8. Range(f) = Range(s) \ {s[k]}
  BY <1>4, <1>6 DEF Range, Distinct, List
<1> QED BY <1>2, <1>7, <1>8 DEF List, f

LEMMA TailRemoves ==
  ASSUME NEW S, NEW s, List(s, S), s # <<>>
  PROVE  /\ List(Tail(s), S) /\ Range(Tail(s)) = Range(s) \ {Head(s)}
         /\ Head(s) \in Range(s)
<1> DEFINE n == Len(s)  r == Tail(s)
<1>1. n \in Nat \ {0} /\ DOMAIN s = 1 .. n
  BY LenProperties, EmptySeq DEF List
<1>2. r \in Seq(S) /\ Len(r) = n - 1 /\ \A i \in 1 .. n - 1 : r[i] = s[i + 1]
  BY HeadTailProperties DEF List
<1>3. Head(s) = s[1]
  BY DEF List
<1> HIDE DEF n, r
<1>4. DOMAIN r = 1 .. n - 1
  BY <1>2, LenProperties
<1>5. \A i \in DOMAIN r : i + 1 \in DOMAIN s /\ i + 1 # 1 /\ r[i] = s[i + 1]
  BY <1>1, <1>2, <1>4
<1>6. \A i, j \in DOMAIN r : i + 1 = j + 1 => i = j
  BY <1>1, <1>4
<1>7. \A j \in DOMAIN s : j # 1 => j - 1 \in DOMAIN r /\ s[j] = r[j - 1]
  BY <1>1, <1>2, <1>4
<1>8. Distinct(r)
  BY <1>5, <1>6 DEF Distinct, List
<1>9. 1 \in DOMAIN s
  BY <1>1
<1>10. Range(r) \subseteq Range(s) \ {s[1]}
  BY <1>5, <1>9 DEF Range, Distinct, List
<1>11. Range(s) \ {s[1]} \subseteq Range(r)
  BY <1>7 DEF Range
<1> QED BY <1>2, <1>3, <1>8, <1>9, <1>10, <1>11 DEF List, r, Range

LEMMA EmptyList ==
  ASSUME NEW S
  PROVE  List(<<>>, S) /\ Range(<<>>) = {}
BY DEF List, Distinct, Range

-----------------------------------------------------------------------------
(* Adding and removing.                                                       *)
LEMMA AddWatchKeeps ==
  ASSUME Kinds, IInv, NEW w \in Watches, IoAddWatch(w)
  PROVE  IInv'
<1> USE DEF IoAddWatch
<1>1. w \notin Range(watches) \union Range(timeouts) \union Range(dispatchs) \union Aside
  BY DEF IInv, LifeOK, Objects
<1>2. List(watches', Watches) /\ Range(watches') = Range(watches) \union {w}
  BY <1>1, AppendAdds DEF IInv, ListsOK
<1>3. ListsOK'
  BY <1>2 DEF IInv, ListsOK
<1>4. pc \in {"out", "call"}
  BY DEF Free, Kinds
<1>5. EventsOK'
  <2> DEFINE E == [sock : Watches, rev : Watches \union {"none"}]
             e == [sock |-> w, rev |-> "none"]
  <2>1. e \in E /\ events \in Seq(E) /\ watches \in Seq(Watches) /\ Len(events) = Len(watches)
    BY DEF IInv, EventsOK, ListsOK, List
  <2>2. /\ events' \in Seq(E) /\ Len(events') = Len(events) + 1
        /\ \A i \in 1 .. Len(events) : events'[i] = events[i]
        /\ events'[Len(events) + 1] = e
    <3> HIDE DEF E, e
    <3> QED BY <2>1, AppendProperties DEF e
  <2>3. /\ Len(watches') = Len(watches) + 1
        /\ \A i \in 1 .. Len(watches) : watches'[i] = watches[i]
        /\ watches'[Len(watches) + 1] = w
    BY <2>1, AppendProperties
  <2>4. Len(watches) \in Nat /\ DOMAIN watches = 1 .. Len(watches)
        /\ DOMAIN watches' = 1 .. Len(watches) + 1
    BY <2>1, <2>3, <1>2, LenProperties DEF List
  <2>5. ASSUME NEW i \in DOMAIN watches'
        PROVE  events'[i].sock = watches'[i] /\ events'[i].rev \in {"none", watches'[i]}
    <3>1. CASE i = Len(watches) + 1
      BY <3>1, <2>1, <2>2, <2>3
    <3>2. CASE i \in DOMAIN watches
      BY <3>2, <2>1, <2>2, <2>3, <2>4 DEF IInv, EventsOK
    <3>3. i \in 1 .. Len(watches) + 1
      BY <2>4
    <3>4. i \in 1 .. Len(watches) \/ i = Len(watches) + 1
      BY <3>3, <2>4
    <3> QED BY <3>1, <3>2, <3>4, <2>4
  <2> QED BY <2>1, <2>2, <2>3, <2>5 DEF EventsOK
<1>6. PollOK'
  BY <1>4 DEF IInv, PollOK, Wakeup
<1>7. CallOK'
  BY <1>1, <1>2 DEF IInv, CallOK, Aside
<1>8. LifeOK'
  BY <1>2 DEF IInv, LifeOK, Aside, Objects
<1>9. Woken'
  BY <1>4 DEF Woken
<1> QED BY <1>3, <1>5, <1>6, <1>7, <1>8, <1>9 DEF IInv

LEMMA UpdateWatchKeeps ==
  ASSUME Kinds, IInv, NEW w \in Watches, IoUpdateWatch(w)
  PROVE  IInv'
<1> USE DEF IoUpdateWatch
<1>1. ListsOK' /\ EventsOK' /\ CallOK' /\ LifeOK'
  BY DEF IInv, ListsOK, EventsOK, CallOK, LifeOK, Aside
<1>2. PollOK' /\ Woken'
  BY DEF IInv, PollOK, Woken, Wakeup
<1> QED BY <1>1, <1>2 DEF IInv

LEMMA RemoveWatchKeeps ==
  ASSUME Kinds, IInv, NEW w \in Watches, IoRemoveWatch(w)
  PROVE  IInv'
<1> DEFINE k == CHOOSE i \in DOMAIN watches : watches[i] = w
           executing == cur.kind = "watch" /\ cur.id = w
<1>1. k \in DOMAIN watches /\ watches[k] = w
  BY DEF IoRemoveWatch, Range
<1>2. /\ events' = Filled(events, k) /\ watches' = Filled(watches, k)
      /\ disposed' = (disposed \/ executing)
      /\ life' = IF executing THEN life ELSE [life EXCEPT ![w] = "freed"]
      /\ pc \in {"out", "call"} /\ Wakeup
      /\ UNCHANGED <<timeouts, dispatchs, polling, running, pc, poll, cur, due, ready, arrivals>>
  BY DEF IoRemoveWatch, Free, Kinds
<1> HIDE DEF k
<1>3. List(watches', Watches) /\ Range(watches') = Range(watches) \ {w}
  BY <1>1, <1>2, FilledRemoves DEF IInv, ListsOK
<1>4. ListsOK'
  BY <1>2, <1>3 DEF IInv, ListsOK
<1>5. EventsOK'
  <2> DEFINE E == [sock : Watches, rev : Watches \union {"none"}]
  <2>1. events \in Seq(E) /\ watches \in Seq(Watches) /\ Len(events) = Len(watches)
        /\ k \in 1 .. Len(watches) /\ Len(watches) \in Nat
        /\ DOMAIN watches = 1 .. Len(watches)
    BY <1>1, LenProperties DEF IInv, EventsOK, ListsOK, List
  <2>2. /\ events' \in Seq(E) /\ Len(events') = Len(watches) - 1
        /\ \A i \in 1 .. Len(watches) - 1 :
             events'[i] = events[IF i = k THEN Len(watches) ELSE i]
    <3> HIDE DEF E
    <3>1. k \in 1 .. Len(events)
      BY <2>1
    <3>2. /\ Filled(events, k) \in Seq(E) /\ Len(Filled(events, k)) = Len(events) - 1
          /\ \A i \in 1 .. Len(events) - 1 :
               Filled(events, k)[i] = events[IF i = k THEN Len(events) ELSE i]
      BY <2>1, <3>1, FilledIs
    <3> QED BY <1>2, <2>1, <3>2
  <2>3. /\ Len(watches') = Len(watches) - 1
        /\ \A i \in 1 .. Len(watches) - 1 :
             watches'[i] = watches[IF i = k THEN Len(watches) ELSE i]
    BY <1>2, <2>1, FilledIs
  <2>4. DOMAIN watches' = 1 .. Len(watches) - 1
    BY <2>3, <1>3, LenProperties DEF List
  <2>5. ASSUME NEW i \in DOMAIN watches'
        PROVE  events'[i].sock = watches'[i] /\ events'[i].rev \in {"none", watches'[i]}
    <3>1. PICK j \in DOMAIN watches : events'[i] = events[j] /\ watches'[i] = watches[j]
      <4> DEFINE j == IF i = k THEN Len(watches) ELSE i
      <4>1. j \in DOMAIN watches /\ i \in 1 .. Len(watches) - 1
        BY <2>1, <2>4
      <4>2. events'[i] = events[j] /\ watches'[i] = watches[j]
        BY <4>1, <2>2, <2>3
      <4> QED BY <4>1, <4>2
    <3> QED BY <3>1 DEF IInv, EventsOK
  <2> QED BY <2>1, <2>2, <2>3, <2>5 DEF EventsOK
<1>6. PollOK'
  BY <1>2 DEF IInv, PollOK, Wakeup
<1>7. w \in Range(watches) /\ w \in Objects /\ w \notin Range(timeouts) \union Range(dispatchs)
  BY <1>1 DEF Range, Kinds, Objects, IInv, ListsOK, List
<1>8. CallOK'
  BY <1>2, <1>3, <1>7 DEF IInv, CallOK, Kinds
<1>9. LifeOK'
  <2>1. Range(timeouts) \subseteq Timeouts /\ Range(dispatchs) \subseteq Dispatchs
    BY RangeOfSeq DEF IInv, ListsOK, List
  <2>2. w \notin Timeouts \union Dispatchs
    BY DEF Kinds
  <2>3. CASE executing
    <3>1. Aside' = {w} /\ ~disposed /\ Aside = {}
      BY <2>3, <1>2, <1>7 DEF Aside, IInv, CallOK
    <3> QED BY <2>3, <3>1, <1>2, <1>3, <1>7 DEF IInv, LifeOK
  <2>4. CASE ~executing
    <3>1. Aside' = Aside /\ w \notin Aside
      BY <2>2, <2>4, <1>2, <1>7 DEF Aside, IInv, CallOK
    <3> QED BY <2>1, <2>2, <2>4, <3>1, <1>2, <1>3, <1>7 DEF IInv, LifeOK
  <2> QED BY <2>3, <2>4
<1>10. Woken'
  BY <1>2 DEF Woken
<1> QED BY <1>4, <1>5, <1>6, <1>8, <1>9, <1>10 DEF IInv

LEMMA AddTimeoutKeeps ==
  ASSUME Kinds, IInv, NEW t \in Timeouts, IoAddTimeout(t)
  PROVE  IInv'
<1> USE DEF IoAddTimeout
<1>1. t \notin Range(watches) \union Range(timeouts) \union Range(dispatchs) \union Aside
  BY DEF IInv, LifeOK, Objects
<1>2. List(timeouts', Timeouts) /\ Range(timeouts') = Range(timeouts) \union {t}
  BY <1>1, ConsAdds DEF IInv, ListsOK
<1>3. ListsOK' /\ EventsOK' /\ PollOK'
  <2>1. ListsOK' /\ EventsOK'
    BY <1>2 DEF IInv, ListsOK, EventsOK
  <2>2. PollOK'
    BY DEF IInv, PollOK, Wakeup
  <2> QED BY <2>1, <2>2
<1>4. CallOK'
  BY <1>1, <1>2 DEF IInv, CallOK, Aside
<1>5. LifeOK'
  BY <1>2 DEF IInv, LifeOK, Aside, Objects
<1>6. Woken'
  BY DEF IInv, PollOK, Woken, Wakeup
<1> QED BY <1>3, <1>4, <1>5, <1>6 DEF IInv

LEMMA RemoveTimeoutKeeps ==
  ASSUME Kinds, IInv, NEW t \in Timeouts, IoRemoveTimeout(t)
  PROVE  IInv'
<1> USE DEF IoRemoveTimeout
<1>1. List(timeouts', Timeouts) /\ Range(timeouts') = Range(timeouts) \ {t}
  BY WithoutRemoves DEF IInv, ListsOK
<1>2. ListsOK' /\ EventsOK' /\ PollOK'
  BY <1>1 DEF IInv, ListsOK, EventsOK, PollOK
<1>3. CallOK'
  BY <1>1 DEF IInv, CallOK
<1>4. LifeOK'
  <2>1. Range(watches) \subseteq Watches /\ Range(dispatchs) \subseteq Dispatchs
    BY RangeOfSeq DEF IInv, ListsOK, List
  <2>2. t \notin Range(watches) \union Range(dispatchs) \union Aside /\ Aside' = Aside
    BY <2>1 DEF Kinds, IInv, CallOK, Aside
  <2> QED BY <1>1, <2>2 DEF IInv, LifeOK
<1>5. Woken'
  BY <1>1 DEF IInv, Woken
<1> QED BY <1>2, <1>3, <1>4, <1>5 DEF IInv

LEMMA AddDispatchKeeps ==
  ASSUME Kinds, IInv, NEW d \in Dispatchs, IoAddDispatch(d)
  PROVE  IInv'
<1> USE DEF IoAddDispatch
<1>1. d \notin Range(watches) \union Range(timeouts) \union Range(dispatchs) \union Aside
  BY DEF IInv, LifeOK, Objects
<1>2. List(dispatchs', Dispatchs) /\ Range(dispatchs') = Range(dispatchs) \union {d}
  BY <1>1, ConsAdds DEF IInv, ListsOK
<1>3. ListsOK' /\ EventsOK' /\ PollOK'
  <2>1. ListsOK' /\ EventsOK'
    BY <1>2 DEF IInv, ListsOK, EventsOK
  <2>2. PollOK'
    BY DEF IInv, PollOK, Wakeup
  <2> QED BY <2>1, <2>2
<1>4. CallOK'
  BY <1>1, <1>2 DEF IInv, CallOK, Aside
<1>5. LifeOK'
  BY <1>2 DEF IInv, LifeOK, Aside, Objects
<1>6. Woken'
  BY DEF IInv, PollOK, Woken, Wakeup
<1> QED BY <1>3, <1>4, <1>5, <1>6 DEF IInv

LEMMA RemoveDispatchKeeps ==
  ASSUME Kinds, IInv, NEW d \in Dispatchs, IoRemoveDispatch(d)
  PROVE  IInv'
<1> USE DEF IoRemoveDispatch
<1>1. List(dispatchs', Dispatchs) /\ Range(dispatchs') = Range(dispatchs) \ {d}
  BY WithoutRemoves DEF IInv, ListsOK
<1>2. ListsOK' /\ EventsOK' /\ PollOK'
  BY <1>1 DEF IInv, ListsOK, EventsOK, PollOK
<1>3. CallOK'
  BY <1>1 DEF IInv, CallOK
<1>4. LifeOK'
  <2>1. Range(watches) \subseteq Watches /\ Range(timeouts) \subseteq Timeouts
    BY RangeOfSeq DEF IInv, ListsOK, List
  <2>2. d \notin Range(watches) \union Range(timeouts) \union Aside /\ Aside' = Aside
    BY <2>1 DEF Kinds, IInv, CallOK, Aside
  <2> QED BY <1>1, <2>2 DEF IInv, LifeOK
<1>5. Woken'
  <2>1. dispatchs = <<>> => Range(dispatchs) = {}
    BY EmptyList
  <2> QED BY <2>1 DEF IInv, Woken
<1> QED BY <1>2, <1>3, <1>4, <1>5 DEF IInv

-----------------------------------------------------------------------------
(* The loop.                                                                  *)
LEMMA LoopKeeps ==
  ASSUME Kinds, IInv, NEW how \in {"forever", "once"}, RunLoop(how)
  PROVE  IInv'
BY DEF RunLoop, IInv, ListsOK, EventsOK, PollOK, CallOK, LifeOK, Aside, Woken

LEMMA LoopQuitKeeps ==
  ASSUME Kinds, IInv, LoopQuit
  PROVE  IInv'
<1> USE DEF LoopQuit
<1>1. ListsOK' /\ EventsOK' /\ CallOK' /\ LifeOK'
  BY DEF IInv, ListsOK, EventsOK, CallOK, LifeOK, Aside
<1>2. PollOK' /\ Woken'
  BY DEF IInv, PollOK, Woken, Wakeup, Free
<1> QED BY <1>1, <1>2 DEF IInv

LEMMA EnterKeeps ==
  ASSUME Kinds, IInv, Enter
  PROVE  IInv'
<1> USE DEF Enter
<1>1. ListsOK' /\ EventsOK' /\ CallOK' /\ LifeOK'
  BY DEF IInv, ListsOK, EventsOK, CallOK, LifeOK, Aside
<1>2. poll'.socks = watches /\ watches \in Seq(Watches)
  <2>1. watches \in Seq(Watches) /\ DOMAIN events = DOMAIN watches
    BY LenProperties DEF IInv, EventsOK, ListsOK, List
  <2>2. poll'.socks = [i \in DOMAIN watches |-> watches[i]]
    BY <2>1 DEF IInv, EventsOK
  <2> QED BY <2>1, <2>2
<1>3. Range(timeouts) \subseteq Timeouts
  BY RangeOfSeq DEF IInv, ListsOK, List
<1>4. PollOK'
  <2>1. poll' \in [socks : Seq(Watches), wait : {"zero", "finite", "infinite"},
                   armed : SUBSET Timeouts, result : Nat]
    BY <1>2, <1>3
  <2> QED BY <2>1, <1>2 DEF IInv, PollOK
<1>5. Woken'
  BY <1>2 DEF IInv, PollOK, Woken
<1> QED BY <1>1, <1>4, <1>5 DEF IInv

\* What poll reports of each socket is of that socket: no other thread moves the
\* watches while the loop is in poll.
LEMMA PollReturnsKeeps ==
  ASSUME Kinds, IInv, PollReturns
  PROVE  IInv'
<1> DEFINE hit == {i \in DOMAIN poll.socks : poll.socks[i] \in ready}
           n == Cardinality(hit) + (IF pipe > 0 THEN 1 ELSE 0)
           E == [sock : Watches, rev : Watches \union {"none"}]
           After(i) == [events[i] EXCEPT !.rev = IF i \in hit THEN poll.socks[i] ELSE "none"]
<1>1. /\ pc = "poll" /\ pc' = "back"
      /\ events' = [i \in DOMAIN events |-> After(i)]
      /\ poll' = [poll EXCEPT !.result = n]
      /\ UNCHANGED <<watches, timeouts, dispatchs, polling, running, pipe, cur, disposed, life>>
  BY DEF PollReturns
<1>2. /\ poll.socks = watches /\ watches \in Seq(Watches) /\ DOMAIN watches = 1 .. Len(watches)
      /\ Len(watches) \in Nat /\ events \in Seq(E) /\ Len(events) = Len(watches)
      /\ DOMAIN events = DOMAIN watches
  BY <1>1, LenProperties DEF IInv, PollOK, EventsOK, ListsOK, List
<1>3. n \in Nat
  <2>1. hit \subseteq 1 .. Len(watches)
    BY <1>2
  <2>2. IsFiniteSet(1 .. Len(watches))
    BY <1>2, FS_Interval
  <2>3. IsFiniteSet(hit)
    BY <2>1, <2>2, FS_Subset
  <2> HIDE DEF hit
  <2>4. Cardinality(hit) \in Nat
    BY <2>3, FS_CardinalityType
  <2> QED BY <2>4
<1> HIDE DEF n
<1>4. ListsOK' /\ CallOK' /\ LifeOK' /\ Woken'
  BY <1>1 DEF IInv, ListsOK, CallOK, LifeOK, Aside, Woken
<1>5. EventsOK'
  <2>1. \A i \in DOMAIN watches :
          /\ After(i) \in E /\ After(i).sock = watches[i] /\ After(i).rev \in {"none", watches[i]}
    <3> SUFFICES ASSUME NEW i \in DOMAIN watches
                 PROVE  /\ After(i) \in E /\ After(i).sock = watches[i]
                        /\ After(i).rev \in {"none", watches[i]}
      OBVIOUS
    <3>1. events[i] \in E /\ watches[i] \in Watches /\ events[i].sock = watches[i]
      <4> HIDE DEF E
      <4>1. i \in 1 .. Len(events) /\ i \in 1 .. Len(watches)
        BY <1>2
      <4> QED BY <4>1, <1>2, ElementOfSeq DEF IInv, EventsOK
    <3> QED BY <3>1, <1>2
  <2> HIDE DEF After, E
  <2>2. events' = [i \in 1 .. Len(watches) |-> After(i)]
    BY <1>1, <1>2
  <2>3. events' \in Seq(E) /\ Len(events') = Len(watches)
    BY <1>2, <2>1, <2>2, IsASeq
  <2> QED BY <1>1, <1>2, <2>1, <2>2, <2>3 DEF EventsOK, E
<1>6. PollOK'
  <2>1. poll' \in [socks : Seq(Watches), wait : {"zero", "finite", "infinite"},
                   armed : SUBSET Timeouts, result : Nat]
    BY <1>1, <1>3 DEF IInv, PollOK
  <2> QED BY <1>1, <2>1 DEF IInv, PollOK
<1> QED BY <1>4, <1>5, <1>6 DEF IInv

LEMMA InterruptKeeps ==
  ASSUME Kinds, IInv, Interrupt \/ Interrupted
  PROVE  IInv'
<1>1. CASE Interrupt
  <2> USE <1>1 DEF Interrupt
  <2>1. ListsOK' /\ EventsOK' /\ CallOK' /\ LifeOK' /\ Woken'
    BY DEF IInv, ListsOK, EventsOK, CallOK, LifeOK, Aside, Woken
  <2>2. PollOK'
    BY DEF IInv, PollOK
  <2> QED BY <2>1, <2>2 DEF IInv
<1>2. CASE Interrupted
  <2> USE <1>2 DEF Interrupted, NextIteration
  <2>1. ListsOK' /\ EventsOK' /\ CallOK' /\ LifeOK' /\ Woken'
    BY DEF IInv, ListsOK, EventsOK, CallOK, LifeOK, Aside, Woken
  <2>2. PollOK'
    BY DEF IInv, PollOK
  <2> QED BY <2>1, <2>2 DEF IInv
<1> QED BY <1>1, <1>2

LEMMA ReturnKeeps ==
  ASSUME Kinds, IInv, Return
  PROVE  IInv'
<1> USE DEF Return, NextIteration
<1>1. ListsOK' /\ EventsOK' /\ Woken'
  BY DEF IInv, ListsOK, EventsOK, Woken
<1>2. PollOK'
  BY DEF IInv, PollOK
<1>3. CallOK'
  BY DEF IInv, CallOK, NoCall
<1>4. LifeOK'
  <2>1. Aside' = {}
    BY DEF Aside, NoCall
  <2>2. Range(watches) \subseteq Watches /\ Range(timeouts) \subseteq Timeouts
        /\ Range(dispatchs) \subseteq Dispatchs
    BY RangeOfSeq DEF IInv, ListsOK, List
  <2>3. CASE cur.kind # "watch" \/ disposed
    <3>1. Aside = {cur.id} /\ cur.id \in Objects
          /\ cur.id \notin Range(watches) \union Range(timeouts) \union Range(dispatchs)
      BY <2>2, <2>3 DEF Aside, IInv, CallOK, Kinds, Objects
    <3> QED BY <2>1, <2>3, <3>1 DEF IInv, LifeOK
  <2>4. CASE ~(cur.kind # "watch" \/ disposed)
    <3>1. Aside = {}
      BY <2>4 DEF Aside
    <3> QED BY <2>1, <2>4, <3>1 DEF IInv, LifeOK
  <2> QED BY <2>3, <2>4
<1> QED BY <1>1, <1>2, <1>3, <1>4 DEF IInv

LEMMA FinalizeKeeps ==
  ASSUME Kinds, IInv, Finalize
  PROVE  IInv'
<1> USE DEF Finalize
<1>1. ListsOK' /\ EventsOK'
  BY EmptyList, EmptySeq DEF IInv, ListsOK, EventsOK
<1>2. PollOK' /\ Woken'
  BY DEF IInv, PollOK, Woken
<1>3. CallOK'
  BY EmptyList DEF IInv, CallOK, NoCall
<1>4. LifeOK'
  <2>1. Aside' = {}
    BY DEF Aside, IInv, CallOK, NoCall
  <2>2. Range(watches)' \union Range(timeouts)' \union Range(dispatchs)' = {}
    BY EmptyList
  <2>3. life' \in [Objects -> {"none", "added", "freed"}] /\ \A x \in Objects : life'[x] # "added"
    BY DEF IInv, LifeOK
  <2> QED BY <2>1, <2>2, <2>3 DEF LifeOK
<1> QED BY <1>1, <1>2, <1>3, <1>4 DEF IInv

LEMMA Least ==
  ASSUME NEW S, S \subseteq Nat, S # {}
  PROVE  (CHOOSE i \in S : \A j \in S : i <= j) \in S
<1>1. \E i \in S : \A j \in S : <<j, i>> \notin OpToRel(<, Nat)
  BY NatLessThanWellFounded, WFMin
<1>2. PICK i \in S : \A j \in S : <<j, i>> \notin OpToRel(<, Nat)
  BY <1>1, Zenon
<1>3. \A j \in S : <<j, i>> \in Nat \X Nat
  BY SMT
<1>4. \A j \in S : ~(j < i)
  BY <1>2, <1>3, Zenon DEF OpToRel
<1>5. \A j \in S : i <= j
  BY <1>4, SMT
<1> QED BY <1>5

\* The loop calls the watch, the timeout or the dispatch whose turn it is.
LEMMA HandleKeeps ==
  ASSUME Kinds, IInv, Handle
  PROVE  IInv'
<1> DEFINE over == {i \in DOMAIN timeouts : poll.result = 0 /\ timeouts[i] \in due}
           hit == {i \in DOMAIN events : poll.result > 0 /\ events[i].rev # "none"}
           First(S) == CHOOSE i \in S : \A j \in S : i <= j
           f == First(over)
           g == First(hit)
<1>1. /\ pc = "back" /\ polling' = FALSE
      /\ pipe' = IF poll.result > 0 /\ pipe > 0 THEN pipe - 1 ELSE pipe
      /\ UNCHANGED <<watches, running, poll, disposed, life, due, ready, arrivals>>
  BY DEF Handle
<1>2. cur = NoCall /\ disposed = FALSE /\ Aside = {}
  BY <1>1 DEF IInv, CallOK, Aside, NoCall
<1>3. pc' # "poll" /\ pc' # "top" => PollOK'
  <2>1. pipe' \in Nat
    BY <1>1 DEF IInv, PollOK
  <2>2. pc' \in {"call", NextIteration}
    BY DEF Handle, Call
  <2>3. NextIteration \in {"top", "out"}
    BY DEF NextIteration
  <2> QED BY <1>1, <2>1, <2>2, <2>3 DEF IInv, PollOK
<1>4. pc' # "poll" => Woken'
  BY DEF Woken
<1>5. CASE over # {}
  <2>1. f \in over
    <3>1. over \subseteq Nat
      BY LenProperties DEF IInv, ListsOK, List
    <3> HIDE DEF over
    <3> QED BY <1>5, <3>1, Least
  <2>2. /\ Call("timeout", timeouts[f], TRUE)
        /\ timeouts' = RemoveAt(timeouts, f)
        /\ UNCHANGED <<events, dispatchs>>
    BY <1>5 DEF Handle
  <2> DEFINE t == timeouts[f]
  <2>3. t \in Timeouts /\ t \in Range(timeouts) /\ f \in DOMAIN timeouts
    BY <2>1, LenProperties DEF Range, IInv, ListsOK, List
  <2> HIDE DEF over, f
  <2>4. List(timeouts', Timeouts) /\ Range(timeouts') = Range(timeouts) \ {t}
    BY <2>2, <2>3, RemoveAtRemoves DEF IInv, ListsOK
  <2>5. ListsOK' /\ EventsOK'
    BY <2>2, <2>4, <1>1 DEF IInv, ListsOK, EventsOK
  <2>6. CallOK'
    BY <1>1, <1>2, <2>2, <2>3, <2>4 DEF Call, CallOK, Objects
  <2>7. LifeOK'
    <3>1. Aside' = {t}
      BY <1>1, <1>2, <2>2 DEF Aside, Call
    <3> QED BY <3>1, <1>1, <1>2, <2>2, <2>3, <2>4 DEF IInv, LifeOK
  <2> QED BY <1>3, <1>4, <2>2, <2>5, <2>6, <2>7 DEF IInv, Call
<1>6. CASE over = {} /\ hit # {}
  <2> DEFINE E == [sock : Watches, rev : Watches \union {"none"}]
             w == watches[g]
  <2>1. /\ watches \in Seq(Watches) /\ DOMAIN watches = 1 .. Len(watches)
        /\ events \in Seq(E) /\ DOMAIN events = DOMAIN watches /\ Len(events) = Len(watches)
        /\ Len(watches) \in Nat
    BY LenProperties DEF IInv, EventsOK, ListsOK, List
  <2>2. g \in DOMAIN watches /\ events[g].rev # "none"
    <3>1. hit \subseteq Nat
      BY <2>1
    <3>2. g \in hit
      <4> HIDE DEF hit
      <4> QED BY <1>6, <3>1, Least
    <3> HIDE DEF g
    <3> QED BY <2>1, <3>2
  <2>3. /\ Call("watch", w, events[g].rev = w)
        /\ events' = [events EXCEPT ![g].rev = "none"]
        /\ UNCHANGED <<timeouts, dispatchs>>
    BY <1>6 DEF Handle
  <2> HIDE DEF hit, g
  <2>4. w \in Watches /\ w \in Range(watches) /\ events[g] \in E
        /\ events[g].sock = w /\ events[g].rev = w
    <3> HIDE DEF E
    <3> QED BY <2>1, <2>2, ElementOfSeq DEF IInv, EventsOK, Range
  <2>5. ListsOK'
    BY <1>1, <2>3 DEF IInv, ListsOK
  <2>6. EventsOK'
    <3> DEFINE e == [events[g] EXCEPT !.rev = "none"]
    <3>1. e \in E /\ e.sock = w /\ e.rev = "none"
      BY <2>4
    <3>2. events' = [events EXCEPT ![g] = e]
      BY <2>3
    <3> HIDE DEF e, E
    <3>3. /\ events' \in Seq(E) /\ Len(events') = Len(events)
          /\ \A i \in 1 .. Len(events) : events'[i] = IF i = g THEN e ELSE events[i]
      BY <2>1, <2>2, <3>1, <3>2, ExceptSeq
    <3> QED BY <1>1, <2>1, <3>1, <3>3 DEF IInv, EventsOK, E
  <2>7. CallOK'
    BY <1>1, <1>2, <2>3, <2>4 DEF Call, CallOK, Objects
  <2>8. LifeOK'
    <3>1. Aside' = {}
      BY <1>1, <1>2, <2>3 DEF Aside, Call
    <3> QED BY <3>1, <1>1, <1>2, <2>3 DEF IInv, LifeOK
  <2> QED BY <1>3, <1>4, <2>3, <2>5, <2>6, <2>7, <2>8 DEF IInv, Call
<1>7. CASE over = {} /\ hit = {} /\ dispatchs # <<>>
  <2> DEFINE d == Head(dispatchs)
  <2>1. Call("dispatch", d, TRUE) /\ dispatchs' = Tail(dispatchs)
        /\ UNCHANGED <<events, timeouts>>
    BY <1>7 DEF Handle
  <2>2. /\ List(dispatchs', Dispatchs) /\ Range(dispatchs') = Range(dispatchs) \ {d}
        /\ d \in Range(dispatchs)
    BY <1>7, <2>1, TailRemoves DEF IInv, ListsOK
  <2>3. d \in Dispatchs
    BY <2>2, RangeOfSeq DEF IInv, ListsOK, List
  <2> HIDE DEF d
  <2>4. ListsOK' /\ EventsOK'
    BY <1>1, <2>1, <2>2 DEF IInv, ListsOK, EventsOK
  <2>5. CallOK'
    BY <1>1, <1>2, <2>1, <2>2, <2>3 DEF Call, CallOK, Objects
  <2>6. LifeOK'
    <3>1. Aside' = {d}
      BY <1>1, <1>2, <2>1 DEF Aside, Call
    <3> QED BY <3>1, <1>1, <1>2, <2>1, <2>2 DEF IInv, LifeOK
  <2> QED BY <1>3, <1>4, <2>1, <2>4, <2>5, <2>6 DEF IInv, Call
<1>8. CASE over = {} /\ hit = {} /\ dispatchs = <<>>
  <2>1. pc' = NextIteration /\ UNCHANGED <<events, timeouts, dispatchs, cur>>
    BY <1>8 DEF Handle
  <2>2. ListsOK' /\ EventsOK'
    BY <1>1, <2>1 DEF IInv, ListsOK, EventsOK
  <2>3. CallOK' /\ LifeOK' /\ Woken'
    BY <1>1, <2>1 DEF IInv, CallOK, LifeOK, Aside, NextIteration, Woken
  <2>4. PollOK'
    <3>1. pipe' \in Nat
      BY <1>1 DEF IInv, PollOK
    <3>2. pc' \in {"top", "out"} /\ (pc' = "top" => running # "no")
      BY <2>1 DEF NextIteration
    <3> QED BY <1>1, <3>1, <3>2 DEF IInv, PollOK
  <2> QED BY <2>2, <2>3, <2>4 DEF IInv
<1> QED BY <1>5, <1>6, <1>7, <1>8

-----------------------------------------------------------------------------
LEMMA WorldKeeps ==
  ASSUME Kinds, IInv, (\E w \in Watches : Arrive(w)) \/ (\E t \in Timeouts : Expire(t))
  PROVE  IInv'
<1>1. UNCHANGED <<events, watches, timeouts, dispatchs, polling, running, pipe, pc, poll, cur, disposed, life>>
  BY DEF Arrive, Expire
<1> QED BY <1>1 DEF IInv, ListsOK, EventsOK, PollOK, CallOK, LifeOK, Aside, Woken

LEMMA InitOK ==
  ASSUME Kinds, LoopInit
  PROVE  IInv
<1> USE DEF LoopInit
<1>1. ListsOK /\ EventsOK
  BY EmptyList, EmptySeq DEF ListsOK, EventsOK
<1>2. PollOK /\ Woken
  BY EmptySeq DEF PollOK, Woken, Nothing
<1>3. CallOK
  BY EmptyList DEF CallOK, NoCall
<1>4. LifeOK
  <2>1. Aside = {}
    BY DEF Aside, NoCall
  <2>2. Range(watches) \union Range(timeouts) \union Range(dispatchs) = {}
    BY EmptyList
  <2> QED BY <2>1, <2>2 DEF LifeOK
<1> QED BY <1>1, <1>2, <1>3, <1>4 DEF IInv

LEMMA NextKeeps ==
  ASSUME Kinds, IInv, [LoopNext]_loopVars
  PROVE  IInv'
<1>1. CASE UNCHANGED loopVars
  BY <1>1 DEF loopVars, IInv, ListsOK, EventsOK, PollOK, CallOK, LifeOK, Aside, Woken
<1>2. CASE Step
  BY <1>2, EnterKeeps, PollReturnsKeeps, InterruptKeeps, HandleKeeps, ReturnKeeps DEF Step
<1>3. CASE RunLoop("forever") \/ RunLoop("once") \/ LoopQuit \/ Finalize \/ Interrupt
  BY <1>3, LoopKeeps, LoopQuitKeeps, FinalizeKeeps, InterruptKeeps
<1>4. CASE \E w \in Watches : IoAddWatch(w) \/ IoUpdateWatch(w) \/ IoRemoveWatch(w) \/ Arrive(w)
  BY <1>4, AddWatchKeeps, UpdateWatchKeeps, RemoveWatchKeeps, WorldKeeps
<1>5. CASE \E t \in Timeouts : IoAddTimeout(t) \/ IoRemoveTimeout(t) \/ Expire(t)
  BY <1>5, AddTimeoutKeeps, RemoveTimeoutKeeps, WorldKeeps
<1>6. CASE \E d \in Dispatchs : IoAddDispatch(d) \/ IoRemoveDispatch(d)
  BY <1>6, AddDispatchKeeps, RemoveDispatchKeeps
<1> QED BY <1>1, <1>2, <1>3, <1>4, <1>5, <1>6 DEF LoopNext

(* The inductive invariant of the main loop.                                  *)
THEOREM LoopInvariant == ASSUME Kinds PROVE LoopSpec => []IInv
<1>1. LoopInit => IInv
  BY InitOK
<1>2. IInv /\ [LoopNext]_loopVars => IInv'
  BY NextKeeps
<1> QED BY <1>1, <1>2, PTL DEF LoopSpec

(* A loop that waits in poll is woken for whatever it does not wait for, every *)
(* thing added is in its list or runs until it is freed, the arrays of sockets *)
(* and watches go together, and a watch is called for an event of its own      *)
(* socket: inf_standalone_io_wakeup, _io_add_* and _io_remove_* of any thread  *)
(* against inf_standalone_io_iteration_impl.                                   *)
THEOREM LoopStaysSound == ASSUME Kinds PROVE LoopSpec => []LoopSound
<1>1. ASSUME Kinds, IInv PROVE LoopSound
  <2> USE <1>1
  <2>1. Range(watches) \subseteq Watches /\ Range(timeouts) \subseteq Timeouts
        /\ Range(dispatchs) \subseteq Dispatchs
    BY RangeOfSeq DEF IInv, ListsOK, List
  <2>2. Range(watches) \union Range(timeouts) \union Range(dispatchs) \union ({cur.id} \ {"none"})
        = Range(watches) \union Range(timeouts) \union Range(dispatchs) \union Aside
    BY DEF Kinds, Objects, IInv, CallOK, Aside, NoCall
  <2>3. Aside \subseteq Objects
    BY DEF Objects, IInv, CallOK, Aside
  <2>4. Range(watches) \union Range(timeouts) \union Range(dispatchs) \union Aside
        = {x \in Objects : life[x] = "added"}
    BY <2>1, <2>3 DEF IInv, LifeOK, Objects
  <2>5. ListsSound
    BY <2>2, <2>4 DEF ListsSound, OwnEvents, IInv, CallOK, EventsOK
  <2> QED BY <2>5 DEF LoopSound, IInv
<1>2. ASSUME Kinds PROVE IInv => LoopSound
  BY <1>1, <1>2
<1> QED BY <1>2, LoopInvariant, PTL

=============================================================================
