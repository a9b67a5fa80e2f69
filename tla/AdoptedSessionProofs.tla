------------------------ MODULE AdoptedSessionProofs ------------------------
(* Proofs about sessions, for every set of users and sites and every number  *)
(* of requests: the noop timers run, requests are received once, in order    *)
(* and after their causes, and the session implements the causal broadcast.  *)
EXTENDS AdoptedSession, FiniteSetTheorems, TLAPS

Messages == [user : Users, diff : [Users -> Int], num : Nat, affects : BOOLEAN, vector : Vectors]

Timers == [waiting : SUBSET Users, next : Users \cup {NoUser}, armed : BOOLEAN]

(* TimerRuns for one session                                                 *)
Runs(t) == IF t.armed THEN t.next \in t.waiting ELSE t.waiting = {}

(* The part of the state that decides who waits                              *)
Types ==
  /\ current \in [Sites -> Vectors]
  /\ last_send \in [Users -> Vectors]
  /\ timer \in [Sites -> Timers]
  /\ DOMAIN buffer = Sites /\ \A s \in Sites : IsFiniteSet(buffer[s])
  /\ up \in [Clients -> Seq(Messages)] /\ down \in [Clients -> Seq(Messages)]
  /\ forwarding \in Seq(Messages)

(* A user has not told more than what its site has executed.                 *)
ToldExecuted == \A u \in Users : CausallyBefore(last_send[u], current[Home[u]])

OnlyLocalWait == \A s \in Sites : timer[s].waiting \subseteq Local(s)

IInv == Types /\ OnlyLocalWait /\ TimerRuns /\ ToldExecuted /\ SilentWaits

-----------------------------------------------------------------------------
(* start_noop_timer keeps the timer running, and adds who starts to wait.    *)
LEMMA StartKeeps ==
  ASSUME NEW t \in Timers, Runs(t), NEW new \in SUBSET Users, NEW t2 \in StartTimers(t, new)
  PROVE  t2 \in Timers /\ Runs(t2) /\ t2.waiting = t.waiting \cup new
<1> DEFINE w == t.waiting \cup new
<1>1. CASE new \subseteq t.waiting
  BY <1>1 DEF StartTimers
<1>2. CASE ~(new \subseteq t.waiting) /\ t.armed
  <2>1. t2 = [t EXCEPT !.waiting = w]
    BY <1>2 DEF StartTimers
  <2> QED BY <1>2, <2>1 DEF Runs, Timers
<1>3. CASE ~(new \subseteq t.waiting) /\ ~t.armed
  <2>1. PICK n \in FindNext(w) : t2 = [waiting |-> w, next |-> n, armed |-> TRUE]
    BY <1>3 DEF StartTimers
  <2>2. n \in w /\ w \subseteq Users
    BY <1>3 DEF FindNext, Timers
  <2> QED BY <2>1, <2>2 DEF Runs, Timers
<1> QED BY <1>1, <1>2, <1>3

(* stop_noop_timer keeps the timer running for the others; it may have       *)
(* expired for the user that stops.                                          *)
LEMMA StopKeeps ==
  ASSUME NEW t \in Timers, NEW u \in Users, NEW t2 \in StopTimer(t, u),
         Runs(t) \/ (t.next = u /\ u \in t.waiting)
  PROVE  t2 \in Timers /\ Runs(t2) /\ t2.waiting = t.waiting \ {u}
<1>1. CASE u \notin t.waiting
  BY <1>1 DEF StopTimer
<1>2. CASE u \in t.waiting
  <2> DEFINE w == t.waiting \ {u}
  <2>1. PICK n \in FindNext(w) :
          t2 = IF n = t.next THEN [t EXCEPT !.waiting = w]
               ELSE [waiting |-> w, next |-> n, armed |-> n # NoUser]
    BY <1>2 DEF StopTimer
  <2>2. n \in Users \cup {NoUser} /\ (IF w = {} THEN n = NoUser ELSE n \in w)
    BY DEF FindNext, Timers
  <2>3. CASE n = t.next
    BY <1>2, <2>1, <2>2, <2>3, UsersAssumption DEF Runs, Timers
  <2>4. CASE n # t.next
    BY <1>2, <2>1, <2>2, <2>4, UsersAssumption DEF Runs, Timers
  <2> QED BY <2>3, <2>4
<1> QED BY <1>1, <1>2

(* A vector grows by what is executed.                                       *)
LEMMA AddGrows ==
  ASSUME NEW v \in Vectors, NEW u \in Users, NEW n \in Nat
  PROVE  /\ Add(v, u, n) \in Vectors /\ CausallyBefore(v, Add(v, u, n))
         /\ Add(v, u, n)[u] = v[u] + n
  BY DEF Add, Vectors, CausallyBefore

LEMMA TargetGrows ==
  ASSUME NEW v \in Vectors, NEW m \in Messages
  PROVE  Target(m, v) \in Vectors /\ CausallyBefore(v, Target(m, v))
<1>1. m.user \in Users /\ m.num \in Nat
  BY DEF Messages
<1>2. CausallyBefore(v, v)
  BY DEF CausallyBefore, Vectors
<1> QED BY <1>1, <1>2, AddGrows DEF Target

LEMMA AdvanceGrows ==
  ASSUME NEW v \in Vectors, NEW X, IsFiniteSet(X)
  PROVE  Advance(v, X) \in Vectors /\ CausallyBefore(v, Advance(v, X))
<1> DEFINE of(u) == {r \in X : r.user = u /\ r.affects}
<1>1. \A u \in Users : Cardinality(of(u)) \in Nat
  <2> TAKE u \in Users
  <2>1. of(u) \in SUBSET X
    OBVIOUS
  <2>2. IsFiniteSet(of(u))
    BY <2>1, FS_Subset
  <2> QED BY <2>2, FS_CardinalityType
<1> HIDE DEF of
<1>2. Advance(v, X) = [u \in Users |-> v[u] + Cardinality(of(u))]
  BY DEF Advance, of
<1> QED BY <1>1, <1>2 DEF Vectors, CausallyBefore

(* What has grown and is not the same is not what was told.                  *)
LEMMA GrownIsNews ==
  ASSUME NEW a \in Vectors, NEW v \in Vectors, NEW w \in Vectors,
         CausallyBefore(a, v), CausallyBefore(v, w)
  PROVE  CausallyBefore(a, w) /\ (v # w => a # w)
<1>1. \A u \in Users : a[u] \in Nat /\ v[u] \in Nat /\ w[u] \in Nat /\ a[u] <= v[u] /\ v[u] <= w[u]
  BY DEF CausallyBefore, Vectors
<1>2. CausallyBefore(a, w)
  BY <1>1 DEF CausallyBefore, Vectors
<1>3. ASSUME a = w PROVE v = w
  <2>1. \A u \in Users : v[u] = w[u]
    BY <1>1, <1>3
  <2> QED BY <2>1 DEF Vectors
<1> QED BY <1>2, <1>3

(* The requests of a message are finitely many.                              *)
LEMMA RequestsFinite ==
  ASSUME NEW m \in Messages, NEW v
  PROVE  IsFiniteSet(Requests(m, v))
<1> DEFINE I == 0 .. m.num - 1
           f == [i \in I |-> [user |-> m.user, vector |-> Add(v, m.user, i), affects |-> m.affects]]
<1>1. IsFiniteSet(I)
  BY FS_Interval DEF Messages
<1>2. f \in Surjection(I, Requests(m, v))
  BY DEF Surjection, Requests
<1> QED BY <1>1, <1>2, FS_Surjection

(* The message is typed, and the channels stay so.                           *)
LEMMA MessageType ==
  ASSUME Types, NEW u \in Users, NEW v \in Vectors, NEW n \in Nat, NEW a \in BOOLEAN
  PROVE  Message(u, v, n, a) \in Messages
<1>1. last_send[u] \in Vectors
  BY DEF Types
<1>2. ToDiff(v, last_send[u]) \in [Users -> Int]
  BY <1>1 DEF ToDiff, Vectors
<1> QED BY <1>2 DEF Message, Messages

LEMMA SendTypes ==
  ASSUME Types, NEW m \in Messages, Send(m)
  PROVE  /\ up' \in [Clients -> Seq(Messages)] /\ down' \in [Clients -> Seq(Messages)]
         /\ last_send' = [last_send EXCEPT ![m.user] = Target(m, m.vector)]
         /\ last_send' \in [Users -> Vectors]
<1>1. m.user \in Users /\ m.vector \in Vectors
  BY DEF Messages
<1>2. Target(m, m.vector) \in Vectors
  BY <1>1, TargetGrows
<1>3. last_send' = [last_send EXCEPT ![m.user] = Target(m, m.vector)]
  BY DEF Send
<1>4. last_send' \in [Users -> Vectors]
  BY <1>1, <1>2, <1>3 DEF Types
<1>5. up' \in [Clients -> Seq(Messages)] /\ down' \in [Clients -> Seq(Messages)]
  <2>1. \A q \in Seq(Messages) : Append(q, m) \in Seq(Messages)
    OBVIOUS
  <2>2. CASE Home[m.user] = Server
    BY <2>1, <2>2 DEF Send, Types
  <2>3. CASE Home[m.user] # Server
    <3>1. up' = [up EXCEPT ![Home[m.user]] = Append(@, m)] /\ down' = down
      BY <2>3 DEF Send
    <3>2. Home[m.user] \in Clients
      BY <1>1, <2>3, SitesAssumption DEF Clients
    <3> QED BY <2>1, <3>1, <3>2 DEF Types
  <2> QED BY <2>2, <2>3
<1> QED BY <1>3, <1>4, <1>5

-----------------------------------------------------------------------------
(* An edit tells the others everything, and is news to the other local users *)
LEMMA LocalRequestPreserves ==
  ASSUME IInv, NEW u \in Users, NEW n \in 1 .. MaxNum, LocalRequest(u, n)
  PROVE  IInv'
<1> DEFINE s == Home[u]
           v == current[s]
           w == Add(v, u, n)
           m == Message(u, v, n, TRUE)
<1>1. s \in Sites /\ n \in Nat /\ n > 0
  BY SitesAssumption
<1>2. v \in Vectors /\ w \in Vectors /\ CausallyBefore(v, w) /\ w[u] = v[u] + n
  BY <1>1, AddGrows DEF IInv, Types
<1>3. v # w
  BY <1>1, <1>2 DEF Vectors
<1>4. m \in Messages /\ m.user = u /\ Target(m, m.vector) = w
  <2>1. m \in Messages
    BY <1>1, <1>2, MessageType DEF IInv
  <2> QED BY <2>1 DEF Message, Target
<1>5. Send(m) /\ UNCHANGED <<buffer, forwarding>> /\ current' = [current EXCEPT ![s] = w]
  BY DEF LocalRequest
<1>6. /\ up' \in [Clients -> Seq(Messages)] /\ down' \in [Clients -> Seq(Messages)]
      /\ last_send' = [last_send EXCEPT ![u] = w] /\ last_send' \in [Users -> Vectors]
  BY <1>4, <1>5, SendTypes DEF IInv
<1>7. current' \in [Sites -> Vectors] /\ current'[s] = w
      /\ \A t \in Sites \ {s} : current'[t] = current[t]
  BY <1>1, <1>2, <1>5 DEF IInv, Types
<1>8. PICK t1 \in StartTimers(timer[s], Local(s) \ {u}) : \E t2 \in StopTimer(t1, u) :
        timer' = [timer EXCEPT ![s] = t2]
  BY DEF LocalRequest
<1>9. PICK t2 \in StopTimer(t1, u) : timer' = [timer EXCEPT ![s] = t2]
  BY <1>8
<1>10. timer[s] \in Timers /\ Runs(timer[s]) /\ timer[s].waiting \subseteq Local(s)
  BY <1>1 DEF IInv, Types, TimerRuns, Runs, OnlyLocalWait
<1>11. t1 \in Timers /\ Runs(t1) /\ t1.waiting = timer[s].waiting \cup (Local(s) \ {u})
  BY <1>8, <1>10, StartKeeps DEF Local
<1>12. t2 \in Timers /\ Runs(t2) /\ t2.waiting = Local(s) \ {u}
  <2>1. t2 \in Timers /\ Runs(t2) /\ t2.waiting = t1.waiting \ {u}
    BY <1>9, <1>11, StopKeeps
  <2> QED BY <2>1, <1>10, <1>11
<1>13. timer' \in [Sites -> Timers] /\ timer'[s] = t2
       /\ \A t \in Sites \ {s} : timer'[t] = timer[t]
  BY <1>1, <1>9, <1>12 DEF IInv, Types
<1>14. Types'
  BY <1>5, <1>6, <1>7, <1>13 DEF IInv, Types
<1>15. OnlyLocalWait' /\ TimerRuns'
  BY <1>12, <1>13 DEF IInv, OnlyLocalWait, TimerRuns, Runs, Local
<1>16. ASSUME NEW x \in Users
       PROVE  /\ CausallyBefore(last_send'[x], current'[Home[x]])
              /\ x \in timer'[Home[x]].waiting <=> last_send'[x] # current'[Home[x]]
  <2>1. Home[x] \in Sites /\ last_send[x] \in Vectors
    BY SitesAssumption DEF IInv, Types
  <2>2. CASE x = u
    <3>1. last_send'[x] = w /\ current'[Home[x]] = w
      BY <1>6, <1>7, <2>2 DEF IInv, Types
    <3>2. CausallyBefore(w, w)
      BY <1>2 DEF CausallyBefore, Vectors
    <3> QED BY <1>12, <1>13, <2>2, <3>1, <3>2
  <2>3. CASE x # u /\ Home[x] = s
    <3>1. last_send'[x] = last_send[x] /\ current'[Home[x]] = w
      BY <1>6, <1>7, <2>3 DEF IInv, Types
    <3>2. CausallyBefore(last_send[x], v)
      BY <2>3 DEF IInv, ToldExecuted
    <3>3. CausallyBefore(last_send[x], w) /\ last_send[x] # w
      BY <1>2, <1>3, <2>1, <3>2, GrownIsNews
    <3> QED BY <1>12, <1>13, <2>3, <3>1, <3>3 DEF Local
  <2>4. CASE x # u /\ Home[x] # s
    <3>1. last_send'[x] = last_send[x] /\ current'[Home[x]] = current[Home[x]]
          /\ timer'[Home[x]] = timer[Home[x]]
      BY <1>6, <1>7, <1>13, <2>1, <2>4 DEF IInv, Types
    <3> QED BY <3>1 DEF IInv, ToldExecuted, SilentWaits
  <2> QED BY <2>2, <2>3, <2>4
<1> QED BY <1>14, <1>15, <1>16 DEF IInv, ToldExecuted, SilentWaits

(* A no-operation tells everything its user's site has executed.             *)
LEMMA NoopTimeoutPreserves ==
  ASSUME IInv, NEW s \in Sites, NoopTimeout(s)
  PROVE  IInv'
<1> DEFINE u == timer[s].next
           v == current[s]
           m == Message(u, v, 1, FALSE)
           t1 == [timer[s] EXCEPT !.armed = FALSE]
<1>1. timer[s] \in Timers /\ u \in timer[s].waiting /\ u \in Users /\ Home[u] = s
  BY DEF NoopTimeout, IInv, Types, TimerRuns, OnlyLocalWait, Local
<1>2. v \in Vectors
  BY DEF IInv, Types
<1>3. m \in Messages /\ m.user = u /\ Target(m, m.vector) = v
  <2>1. m \in Messages
    BY <1>1, <1>2, MessageType DEF IInv
  <2> QED BY <2>1 DEF Message, Target
<1>4. Send(m) /\ UNCHANGED <<current, buffer, forwarding>>
  BY DEF NoopTimeout
<1>5. /\ up' \in [Clients -> Seq(Messages)] /\ down' \in [Clients -> Seq(Messages)]
      /\ last_send' = [last_send EXCEPT ![u] = v] /\ last_send' \in [Users -> Vectors]
  BY <1>3, <1>4, SendTypes DEF IInv
<1>6. PICK t2 \in StopTimer(t1, u) : timer' = [timer EXCEPT ![s] = t2]
  BY DEF NoopTimeout
<1>7. t1 \in Timers /\ t1.next = u /\ u \in t1.waiting /\ t1.waiting = timer[s].waiting
  BY <1>1 DEF Timers
<1>8. t2 \in Timers /\ Runs(t2) /\ t2.waiting = timer[s].waiting \ {u}
  <2> HIDE DEF t1, u
  <2>1. t2 \in Timers /\ Runs(t2) /\ t2.waiting = t1.waiting \ {u}
    BY <1>1, <1>6, <1>7, StopKeeps
  <2> QED BY <1>7, <2>1
<1>9. timer' \in [Sites -> Timers] /\ timer'[s] = t2
      /\ \A t \in Sites \ {s} : timer'[t] = timer[t]
  BY <1>6, <1>8 DEF IInv, Types
<1>10. Types'
  BY <1>4, <1>5, <1>9 DEF IInv, Types
<1>11. OnlyLocalWait' /\ TimerRuns'
  BY <1>8, <1>9 DEF IInv, OnlyLocalWait, TimerRuns, Runs, Local
<1>12. ASSUME NEW x \in Users
       PROVE  /\ CausallyBefore(last_send'[x], current'[Home[x]])
              /\ x \in timer'[Home[x]].waiting <=> last_send'[x] # current'[Home[x]]
  <2>1. Home[x] \in Sites
    BY SitesAssumption
  <2>2. CASE x = u
    <3>1. last_send'[x] = v /\ current'[Home[x]] = v
      BY <1>1, <1>4, <1>5, <2>2 DEF IInv, Types
    <3>2. CausallyBefore(v, v)
      BY <1>2 DEF CausallyBefore, Vectors
    <3> QED BY <1>1, <1>8, <1>9, <2>2, <3>1, <3>2
  <2>3. CASE x # u
    <3>1. last_send'[x] = last_send[x] /\ current'[Home[x]] = current[Home[x]]
      BY <1>4, <1>5, <2>3 DEF IInv, Types
    <3>2. x \in timer'[Home[x]].waiting <=> x \in timer[Home[x]].waiting
      BY <1>8, <1>9, <2>1, <2>3
    <3> QED BY <3>1, <3>2 DEF IInv, ToldExecuted, SilentWaits
  <2> QED BY <2>2, <2>3
<1> QED BY <1>10, <1>11, <1>12 DEF IInv, ToldExecuted, SilentWaits

(* Requests that are executed are news to all local users; a message that is *)
(* buffered, or that executes nothing, is news to nobody.                    *)
LEMMA ProcessPreserves ==
  ASSUME IInv, NEW s \in Sites, NEW m \in Messages, Process(s, m),
         up' \in [Clients -> Seq(Messages)], down' \in [Clients -> Seq(Messages)],
         forwarding' \in Seq(Messages)
  PROVE  IInv'
<1> DEFINE v == FromDiff(m.diff, vector[s][m.user])
           ready == CanProcess(s, v)
           reached == IF ready THEN Target(m, current[s]) ELSE current[s]
           b == IF ready THEN buffer[s] ELSE buffer[s] \cup Requests(m, v)
           out == Released(b, reached)
           w == Advance(reached, out)
           new == IF w = current[s] THEN {} ELSE Local(s)
<1>1. /\ current' = [current EXCEPT ![s] = w]
      /\ buffer' = [buffer EXCEPT ![s] = b \ out]
      /\ \E t \in StartTimers(timer[s], new) : timer' = [timer EXCEPT ![s] = t]
      /\ UNCHANGED last_send
  BY DEF Process
<1>2. current[s] \in Vectors /\ IsFiniteSet(buffer[s])
  BY DEF IInv, Types
<1>3. reached \in Vectors /\ CausallyBefore(current[s], reached)
  <2>1. CausallyBefore(current[s], current[s])
    BY <1>2 DEF CausallyBefore, Vectors
  <2> QED BY <1>2, <2>1, TargetGrows
<1>4. IsFiniteSet(b)
  BY <1>2, RequestsFinite, FS_Union
<1>5. out \in SUBSET b
  BY DEF Released
<1>6. IsFiniteSet(out) /\ IsFiniteSet(b \ out)
  <2>1. b \ out \in SUBSET b
    OBVIOUS
  <2> QED BY <1>4, <1>5, <2>1, FS_Subset
<1> HIDE DEF reached, b, out
<1>7. w \in Vectors /\ CausallyBefore(current[s], w)
  <2>1. w \in Vectors /\ CausallyBefore(reached, w)
    BY <1>3, <1>6, AdvanceGrows
  <2> QED BY <1>2, <1>3, <2>1, GrownIsNews
<1> HIDE DEF w
<1>8. PICK t \in StartTimers(timer[s], new) : timer' = [timer EXCEPT ![s] = t]
  BY <1>1
<1>9. timer[s] \in Timers /\ Runs(timer[s]) /\ timer[s].waiting \subseteq Local(s)
  BY DEF IInv, Types, TimerRuns, Runs, OnlyLocalWait
<1>10. t \in Timers /\ Runs(t) /\ t.waiting = timer[s].waiting \cup new
  BY <1>8, <1>9, StartKeeps DEF Local
<1>11. timer' \in [Sites -> Timers] /\ timer'[s] = t
       /\ \A r \in Sites \ {s} : timer'[r] = timer[r]
  BY <1>8, <1>10 DEF IInv, Types
<1>12. current' \in [Sites -> Vectors] /\ current'[s] = w
       /\ \A r \in Sites \ {s} : current'[r] = current[r]
  BY <1>1, <1>7 DEF IInv, Types
<1>13. DOMAIN buffer' = Sites /\ \A r \in Sites : IsFiniteSet(buffer'[r])
  BY <1>1, <1>6 DEF IInv, Types
<1>14. Types'
  BY <1>1, <1>11, <1>12, <1>13 DEF IInv, Types
<1>15. OnlyLocalWait' /\ TimerRuns'
  <2>1. timer'[s].waiting \subseteq Local(s) /\ Runs(timer'[s])
    BY <1>9, <1>10, <1>11
  <2>2. \A r \in Sites \ {s} : timer'[r].waiting \subseteq Local(r) /\ Runs(timer'[r])
    BY <1>11 DEF IInv, OnlyLocalWait, TimerRuns, Runs
  <2> QED BY <2>1, <2>2 DEF OnlyLocalWait, TimerRuns, Runs, Local
<1>16. ASSUME NEW x \in Users
       PROVE  /\ CausallyBefore(last_send'[x], current'[Home[x]])
              /\ x \in timer'[Home[x]].waiting <=> last_send'[x] # current'[Home[x]]
  <2>1. Home[x] \in Sites /\ last_send[x] \in Vectors /\ last_send'[x] = last_send[x]
        /\ CausallyBefore(last_send[x], current[Home[x]])
        /\ (x \in timer[Home[x]].waiting <=> last_send[x] # current[Home[x]])
    BY <1>1, SitesAssumption DEF IInv, Types, ToldExecuted, SilentWaits
  <2>2. CASE Home[x] = s /\ w # current[s]
    <3>1. CausallyBefore(last_send[x], w) /\ last_send[x] # w
      BY <1>2, <1>7, <2>1, <2>2, GrownIsNews
    <3> QED BY <1>10, <1>11, <1>12, <2>1, <2>2, <3>1 DEF Local
  <2>3. CASE Home[x] = s /\ w = current[s]
    BY <1>10, <1>11, <1>12, <2>1, <2>3
  <2>4. CASE Home[x] # s
    BY <1>11, <1>12, <2>1, <2>4
  <2> QED BY <2>2, <2>3, <2>4
<1> QED BY <1>14, <1>15, <1>16 DEF IInv, ToldExecuted, SilentWaits

-----------------------------------------------------------------------------
LEMMA InitEstablishes == Init => IInv
<1> SUFFICES ASSUME Init PROVE IInv
  OBVIOUS
<1>1. Zero \in Vectors
  BY DEF Zero, Vectors
<1>2. NewTimer \in Timers /\ NewTimer.waiting = {} /\ Runs(NewTimer)
  BY DEF NewTimer, Timers, Runs
<1>3. Types
  BY <1>1, <1>2, FS_EmptySet DEF Init, Types
<1>4. \A s \in Sites : timer[s] = NewTimer /\ current[s] = Zero
  BY DEF Init
<1>5. OnlyLocalWait /\ TimerRuns
  BY <1>2, <1>4 DEF OnlyLocalWait, TimerRuns, Runs
<1>6. \A u \in Users : Home[u] \in Sites /\ last_send[u] = Zero
  BY SitesAssumption DEF Init
<1>7. ToldExecuted /\ SilentWaits
  BY <1>1, <1>2, <1>4, <1>6 DEF ToldExecuted, SilentWaits, CausallyBefore, Vectors
<1> QED BY <1>3, <1>5, <1>7 DEF IInv

LEMMA NextPreserves == IInv /\ [Next]_vars => IInv'
<1> SUFFICES ASSUME IInv, [Next]_vars PROVE IInv'
  OBVIOUS
<1>1. ASSUME NEW u \in Users, NEW n \in 1 .. MaxNum, LocalRequest(u, n) PROVE IInv'
  BY <1>1, LocalRequestPreserves
<1>2. ASSUME NEW s \in Sites, NoopTimeout(s) PROVE IInv'
  BY <1>2, NoopTimeoutPreserves
<1>3. \A q \in Seq(Messages) : q # <<>> => Head(q) \in Messages /\ Tail(q) \in Seq(Messages)
                                           /\ <<Head(q)>> \in Seq(Messages)
  OBVIOUS
<1>4. ASSUME NEW c \in Clients, ReceiveAtClient(c) PROVE IInv'
  <2>1. c \in Sites /\ Head(down[c]) \in Messages /\ Process(c, Head(down[c]))
    BY <1>3, <1>4 DEF ReceiveAtClient, Clients, IInv, Types
  <2>2. up' \in [Clients -> Seq(Messages)] /\ down' \in [Clients -> Seq(Messages)]
        /\ forwarding' \in Seq(Messages)
    BY <1>3, <1>4 DEF ReceiveAtClient, IInv, Types
  <2> QED BY <2>1, <2>2, ProcessPreserves
<1>5. ASSUME NEW c \in Clients, ReceiveAtServer(c) PROVE IInv'
  <2>1. Server \in Sites /\ Head(up[c]) \in Messages /\ Process(Server, Head(up[c]))
    BY <1>3, <1>5, SitesAssumption DEF ReceiveAtServer, IInv, Types
  <2>2. up' \in [Clients -> Seq(Messages)] /\ down' \in [Clients -> Seq(Messages)]
        /\ forwarding' \in Seq(Messages)
    BY <1>3, <1>5 DEF ReceiveAtServer, IInv, Types
  <2> QED BY <2>1, <2>2, ProcessPreserves
<1>6. ASSUME Forward PROVE IInv'
  <2>1. Head(forwarding) \in Messages
    BY <1>3, <1>6 DEF Forward, IInv, Types
  <2>2. down' \in [Clients -> Seq(Messages)] /\ forwarding' = <<>>
    BY <1>6, <2>1 DEF Forward, IInv, Types
  <2>3. Types'
    BY <1>6, <2>2 DEF Forward, IInv, Types
  <2> QED BY <1>6, <2>3 DEF Forward, IInv, OnlyLocalWait, TimerRuns, ToldExecuted, SilentWaits
<1>7. CASE UNCHANGED vars
  BY <1>7 DEF vars, IInv, Types, OnlyLocalWait, TimerRuns, ToldExecuted, SilentWaits
<1> QED BY <1>1, <1>2, <1>4, <1>5, <1>6, <1>7 DEF Next, MainLoop, Clients

(* No session forgets a local user that has to tell what it processed: the   *)
(* shared noop timer runs as long as somebody waits, and for one who waits.  *)
THEOREM TimersRun == Spec => []TimerRuns
<1>1. IInv => TimerRuns
  BY DEF IInv
<1> QED BY InitEstablishes, NextPreserves, <1>1, PTL DEF Spec

(* A local user waits for the noop timer exactly if its site has executed    *)
(* what its last message did not tell.                                       *)
THEOREM SilentUsersWait == Spec => []SilentWaits
<1>1. IInv => SilentWaits
  BY DEF IInv
<1> QED BY InitEstablishes, NextPreserves, <1>1, PTL DEF Spec

(* The timer that the local users share never forgets one of them.           *)
THEOREM TimersAlwaysServe == Spec => []TimersServe
BY TimersRun, SilentUsersWait, PTL DEF TimersServe

-----------------------------------------------------------------------------
(* Reception: what a site knows of a user of another site, followed through  *)
(* the messages that are on their way to it.                                 *)

(* A message of user u was made from the state y told before, and tells z.   *)
Link(m, u, y, z) ==
  IF m.user = u
    THEN /\ m.diff = ToDiff(m.vector, y) /\ m.vector[u] = y[u]
         /\ z = Target(m, m.vector)
    ELSE z = y

(* The messages of u in a channel lead from what u told before them to what  *)
(* the last one tells.                                                       *)
Chain(q, u, y, z) ==
  \E t \in [0 .. Len(q) -> Vectors] :
    t[0] = y /\ t[Len(q)] = z /\ \A i \in 1 .. Len(q) : Link(q[i], u, t[i - 1], t[i])

(* The state a user told last counts its own requests.                       *)
OwnTold ==
  \A u \in Users : current[Home[u]][u] = Len(issued[u]) /\ last_send[u][u] = Len(issued[u])

(* Where messages come from                                                  *)
Origins ==
  /\ \A c \in Clients : /\ \A i \in 1 .. Len(up[c]) : Home[up[c][i].user] = c
                        /\ \A i \in 1 .. Len(down[c]) : Home[down[c][i].user] # c
  /\ forwarding # <<>> => Len(forwarding) = 1 /\ Home[forwarding[1].user] # Server

(* From what a site has received of a user, the messages on their way lead   *)
(* to what the user has sent; for a client of another client's user, by way  *)
(* of what the server has received.                                          *)
PathFrom(u, c) ==
  \E x \in Vectors :
    /\ Chain(down[c], u, vector[c][u], x)
    /\ IF forwarding = <<>> THEN x = vector[Server][u]
       ELSE Link(forwarding[1], u, x, vector[Server][u])

Paths ==
  \A u \in Users :
    IF Home[u] = Server
      THEN \A c \in Clients : Chain(down[c], u, vector[c][u], last_send[u])
      ELSE /\ Chain(up[Home[u]], u, vector[Server][u], last_send[u])
           /\ \A c \in Clients \ {Home[u]} : PathFrom(u, c)

(* A vector that refers to nothing but requests that were made               *)
Known(v, made) == \A u \in Users : v[u] <= Len(made[u])

(* A message carries the requests its user made, a buffered request is one.  *)
Carries(m, made) ==
  /\ Known(m.vector, made)
  /\ ~m.affects => m.num = 1
  /\ m.affects => \A i \in 1 .. m.num :
       /\ m.vector[m.user] + i <= Len(made[m.user])
       /\ made[m.user][m.vector[m.user] + i] = Add(m.vector, m.user, i - 1)

Carried(r, made) ==
  /\ Known(r.vector, made)
  /\ r.affects => /\ r.vector[r.user] + 1 <= Len(made[r.user])
                  /\ made[r.user][r.vector[r.user] + 1] = r.vector

Contents ==
  /\ \A c \in Clients : /\ \A i \in 1 .. Len(up[c]) : Carries(up[c][i], issued)
                        /\ \A i \in 1 .. Len(down[c]) : Carries(down[c][i], issued)
  /\ forwarding # <<>> => Carries(forwarding[1], issued)
  /\ \A s \in Sites : \A r \in buffer[s] : Carried(r, issued) /\ Home[r.user] # s

(* The requests of u in a set, and their numbers                             *)
Of(X, u) == {r \in X : r.user = u /\ r.affects}
Numbers(X, u) == {r.vector[u] : r \in Of(X, u)}

(* What a site has received of a user and not executed is in its buffer.     *)
Arrived ==
  \A s \in Sites, u \in Users : Home[u] # s =>
    /\ current[s][u] <= vector[s][u][u] /\ vector[s][u][u] <= Len(issued[u])
    /\ Numbers(buffer[s], u) = current[s][u] .. vector[s][u][u] - 1

(* A site has executed what the requests it has executed depend on.          *)
Causal ==
  \A s \in Sites, u \in Users :
    \A i \in 1 .. current[s][u] : CausallyBefore(issued[u][i], current[s])

Buffers == [user : Users, vector : Vectors, affects : BOOLEAN]

RTypes ==
  /\ vector \in [Sites -> [Users -> Vectors]]
  /\ buffer \in [Sites -> SUBSET Buffers]
  /\ issued \in [Users -> Seq(Vectors)]

RInv ==
  RTypes /\ OwnTold /\ Origins /\ Paths /\ Contents /\ Arrived /\ Causal /\ BufferWaits

-----------------------------------------------------------------------------
(* Chains of messages: none, one more at the end, one less at the beginning. *)
LEMMA ChainEmpty ==
  ASSUME NEW u \in Users, NEW y \in Vectors
  PROVE  Chain(<<>>, u, y, y)
<1> DEFINE t == [i \in 0 .. 0 |-> y]
<1>1. t \in [0 .. Len(<<>>) -> Vectors] /\ t[0] = y /\ t[Len(<<>>)] = y /\ 1 .. Len(<<>>) = {}
  OBVIOUS
<1> HIDE DEF t
<1> QED BY <1>1 DEF Chain

LEMMA ChainAppend ==
  ASSUME NEW q \in Seq(Messages), NEW m \in Messages, NEW u \in Users, NEW y, NEW x, NEW z \in Vectors,
         Chain(q, u, y, x), Link(m, u, x, z)
  PROVE  Chain(Append(q, m), u, y, z)
<1> DEFINE n == Len(q)
           p == Append(q, m)
<1>1. PICK t \in [0 .. n -> Vectors] :
        t[0] = y /\ t[n] = x /\ \A i \in 1 .. n : Link(q[i], u, t[i - 1], t[i])
  BY DEF Chain
<1> DEFINE t2 == [i \in 0 .. n + 1 |-> IF i \in 0 .. n THEN t[i] ELSE z]
<1>2. n \in Nat /\ Len(p) = n + 1 /\ p[n + 1] = m /\ \A i \in 1 .. n : p[i] = q[i]
  OBVIOUS
<1>3. t2 \in [0 .. n + 1 -> Vectors] /\ t2[n + 1] = z /\ \A i \in 0 .. n : t2[i] = t[i]
  BY <1>1, <1>2
<1> HIDE DEF t2, n, p
<1>4. ASSUME NEW i \in 1 .. n + 1 PROVE Link(p[i], u, t2[i - 1], t2[i])
  <2>1. CASE i = n + 1
    <3>1. n \in 0 .. n /\ i - 1 = n
      BY <1>2, <2>1
    <3>2. p[i] = m /\ t2[i - 1] = x /\ t2[i] = z
      BY <1>1, <1>2, <1>3, <2>1, <3>1
    <3> QED BY <3>2
  <2>2. CASE i # n + 1
    <3>1. i \in 1 .. n /\ i \in 0 .. n /\ i - 1 \in 0 .. n
      BY <1>2, <2>2
    <3> QED BY <1>1, <1>2, <1>3, <3>1
  <2> QED BY <2>1, <2>2
<1>5. t2[0] = y
  BY <1>1, <1>2, <1>3
<1>6. t2 \in [0 .. Len(p) -> Vectors] /\ t2[Len(p)] = z
      /\ \A i \in 1 .. Len(p) : Link(p[i], u, t2[i - 1], t2[i])
  BY <1>2, <1>3, <1>4
<1>7. Chain(p, u, y, z)
  BY <1>5, <1>6 DEF Chain
<1> QED BY <1>7 DEF p

LEMMA ChainTail ==
  ASSUME NEW q \in Seq(Messages), q # <<>>, NEW u \in Users, NEW y, NEW z, Chain(q, u, y, z)
  PROVE  \E x \in Vectors : Link(Head(q), u, y, x) /\ Chain(Tail(q), u, x, z)
<1> DEFINE n == Len(q)
           p == Tail(q)
<1>1. PICK t \in [0 .. n -> Vectors] :
        t[0] = y /\ t[n] = z /\ \A i \in 1 .. n : Link(q[i], u, t[i - 1], t[i])
  BY DEF Chain
<1> DEFINE t2 == [i \in 0 .. n - 1 |-> t[i + 1]]
<1>2. n \in Nat /\ n > 0 /\ Len(p) = n - 1 /\ Head(q) = q[1] /\ \A i \in 1 .. n - 1 : p[i] = q[i + 1]
  OBVIOUS
<1>3. t2 \in [0 .. n - 1 -> Vectors] /\ \A i \in 0 .. n - 1 : t2[i] = t[i + 1]
  BY <1>1, <1>2
<1> HIDE DEF t2, n, p
<1>4. ASSUME NEW i \in 1 .. n - 1 PROVE Link(p[i], u, t2[i - 1], t2[i])
  <2>1. i + 1 \in 1 .. n /\ i \in 0 .. n - 1 /\ i - 1 \in 0 .. n - 1 /\ (i - 1) + 1 = i /\ (i + 1) - 1 = i
    BY <1>2
  <2>2. Link(q[i + 1], u, t[i], t[i + 1])
    BY <1>1, <2>1
  <2> QED BY <1>2, <1>3, <2>1, <2>2
<1>5. t2[0] = t[1] /\ t2[n - 1] = z /\ t[1] \in Vectors
  <2>1. 0 \in 0 .. n - 1 /\ n - 1 \in 0 .. n - 1 /\ (n - 1) + 1 = n /\ 1 \in 0 .. n /\ 0 + 1 = 1
    BY <1>2
  <2> QED BY <1>1, <1>3, <2>1
<1>6. t2 \in [0 .. Len(p) -> Vectors] /\ t2[Len(p)] = z
      /\ \A i \in 1 .. Len(p) : Link(p[i], u, t2[i - 1], t2[i])
  BY <1>2, <1>3, <1>4, <1>5
<1>7. Chain(p, u, t[1], z)
  BY <1>5, <1>6 DEF Chain
<1>8. Link(Head(q), u, y, t[1])
  <2>1. 1 \in 1 .. n /\ 1 - 1 = 0
    BY <1>2
  <2> QED BY <1>1, <1>2, <2>1
<1> QED BY <1>5, <1>7, <1>8 DEF p

(* What a chain leads to is a vector.                                        *)
LEMMA ChainVectors ==
  ASSUME NEW q \in Seq(Messages), NEW u, NEW y, NEW z, Chain(q, u, y, z)
  PROVE  y \in Vectors /\ z \in Vectors
<1>1. 0 \in 0 .. Len(q) /\ Len(q) \in 0 .. Len(q)
  OBVIOUS
<1> QED BY <1>1 DEF Chain

(* A message is decoded from what its user told before.                      *)
LEMMA LinkDecodes ==
  ASSUME NEW m \in Messages, NEW y \in Vectors, NEW z, Link(m, m.user, y, z)
  PROVE  FromDiff(m.diff, y) = m.vector /\ m.vector[m.user] = y[m.user] /\ z = Target(m, m.vector)
<1>1. m.diff = ToDiff(m.vector, y) /\ m.vector \in Vectors
  BY DEF Link, Messages
<1>2. FromDiff(ToDiff(m.vector, y), y) = [w \in Users |-> (m.vector[w] - y[w]) + y[w]]
  BY DEF FromDiff, ToDiff
<1>3. \A w \in Users : (m.vector[w] - y[w]) + y[w] = m.vector[w]
  BY <1>1 DEF Vectors
<1>4. m.vector = [w \in Users |-> m.vector[w]]
  BY <1>1 DEF Vectors
<1> QED BY <1>1, <1>2, <1>3, <1>4 DEF Link

-----------------------------------------------------------------------------
(* process_buffered_requests.  A set is closed if it contains each request   *)
(* that is ready after it; what is released is the least of them.            *)
Closed(X, b, v) == \A q \in b : CausallyBefore(q.vector, Advance(v, X)) => q \in X

LEMMA ReleasedLeast ==
  ASSUME NEW b, NEW v, NEW X \in SUBSET b, Closed(X, b, v)
  PROVE  Released(b, v) \subseteq X
  BY DEF Released, Closed

LEMMA AdvanceMonotone ==
  ASSUME NEW v \in Vectors, NEW Y, IsFiniteSet(Y), NEW X \in SUBSET Y
  PROVE  CausallyBefore(Advance(v, X), Advance(v, Y))
<1>1. \A u \in Users : /\ Cardinality(Of(X, u)) \in Nat /\ Cardinality(Of(Y, u)) \in Nat
                       /\ Cardinality(Of(X, u)) <= Cardinality(Of(Y, u))
  <2> TAKE u \in Users
  <2>1. Of(X, u) \in SUBSET Of(Y, u) /\ Of(Y, u) \in SUBSET Y
    BY DEF Of
  <2>2. IsFiniteSet(Of(Y, u))
    BY <2>1, FS_Subset
  <2>3. IsFiniteSet(Of(X, u)) /\ Cardinality(Of(X, u)) <= Cardinality(Of(Y, u))
    BY <2>1, <2>2, FS_Subset
  <2> QED BY <2>2, <2>3, FS_CardinalityType
<1>2. \A Z : Advance(v, Z) = [u \in Users |-> v[u] + Cardinality(Of(Z, u))]
  BY DEF Advance, Of
<1> QED BY <1>1, <1>2 DEF CausallyBefore, Vectors

LEMMA BeforeTransitive ==
  ASSUME NEW x \in Vectors, NEW y \in Vectors, NEW z \in Vectors,
         CausallyBefore(x, y), CausallyBefore(y, z)
  PROVE  CausallyBefore(x, z)
  BY DEF CausallyBefore, Vectors

LEMMA ReleasedClosed ==
  ASSUME NEW v \in Vectors, NEW b \in SUBSET Buffers, IsFiniteSet(b)
  PROVE  Closed(Released(b, v), b, v)
<1> DEFINE out == Released(b, v)
<1> SUFFICES ASSUME NEW q \in b, CausallyBefore(q.vector, Advance(v, out)) PROVE q \in out
  BY DEF Closed
<1>1. out \in SUBSET b
  BY DEF Released
<1>2. ASSUME NEW X \in SUBSET b, Closed(X, b, v) PROVE q \in X
  <2>1. out \subseteq X
    BY <1>2, ReleasedLeast
  <2>2. IsFiniteSet(X) /\ IsFiniteSet(out)
    BY <1>1, FS_Subset
  <2>3. Advance(v, X) \in Vectors /\ Advance(v, out) \in Vectors /\ q.vector \in Vectors
    BY <2>2, AdvanceGrows DEF Buffers
  <2>4. CausallyBefore(Advance(v, out), Advance(v, X))
    BY <2>1, <2>2, AdvanceMonotone
  <2>5. CausallyBefore(q.vector, Advance(v, X))
    BY <2>3, <2>4, BeforeTransitive
  <2> QED BY <1>2, <2>5 DEF Closed
<1> QED BY <1>2 DEF Released, Closed

(* What is released is ready in the end.                                     *)
LEMMA ReleasedReady ==
  ASSUME NEW v \in Vectors, NEW b \in SUBSET Buffers, IsFiniteSet(b)
  PROVE  \A r \in Released(b, v) : CausallyBefore(r.vector, Advance(v, Released(b, v)))
<1> DEFINE out == Released(b, v)
           Y == {r \in out : CausallyBefore(r.vector, Advance(v, out))}
<1>1. out \in SUBSET b /\ Y \in SUBSET b /\ Y \in SUBSET out
  BY DEF Released
<1>2. IsFiniteSet(out) /\ IsFiniteSet(Y)
  BY <1>1, FS_Subset
<1>3. Closed(out, b, v)
  BY ReleasedClosed
<1>4. CausallyBefore(Advance(v, Y), Advance(v, out))
  BY <1>1, <1>2, AdvanceMonotone
<1>5. Advance(v, Y) \in Vectors /\ Advance(v, out) \in Vectors
  BY <1>2, AdvanceGrows
<1>6. ASSUME NEW q \in b, CausallyBefore(q.vector, Advance(v, Y)) PROVE q \in Y
  <2>1. q.vector \in Vectors
    BY DEF Buffers
  <2>2. CausallyBefore(q.vector, Advance(v, out))
    BY <1>4, <1>5, <1>6, <2>1, BeforeTransitive
  <2> QED BY <1>3, <2>2 DEF Closed
<1>7. Closed(Y, b, v)
  BY <1>6 DEF Closed
<1>8. out \subseteq Y
  BY <1>1, <1>7, ReleasedLeast
<1> QED BY <1>8

-----------------------------------------------------------------------------
(* A set that contains with a number all before it, from a on, is counted    *)
(* from a.                                                                   *)
LEMMA InitialSegment ==
  ASSUME NEW a \in Nat, NEW c \in Nat, NEW D \in SUBSET (a .. c - 1), \A d \in D : a .. d \subseteq D
  PROVE  IsFiniteSet(D) /\ Cardinality(D) \in Nat /\ D = a .. a + Cardinality(D) - 1
<1>1. IsFiniteSet(D)
  <2>1. a \in Int /\ c - 1 \in Int
    OBVIOUS
  <2>2. IsFiniteSet(a .. c - 1)
    BY <2>1, FS_Interval
  <2> QED BY <2>2, FS_Subset
<1>2. Cardinality(D) \in Nat
  BY <1>1, FS_CardinalityType
<1> DEFINE k == Cardinality(D)
           I == a .. a + k - 1
<1>3. D \subseteq I
  <2> SUFFICES ASSUME NEW d \in D PROVE d \in I
    OBVIOUS
  <2>1. d \in Nat /\ a <= d
    OBVIOUS
  <2>2. a .. d \in SUBSET D
    OBVIOUS
  <2>3. Cardinality(a .. d) <= k
    BY <1>1, <2>2, FS_Subset
  <2>4. Cardinality(a .. d) = d - a + 1
    BY <2>1, FS_Interval
  <2> QED BY <1>2, <2>1, <2>3, <2>4
<1>4. IsFiniteSet(I) /\ Cardinality(I) = k
  <2>1. a + k - 1 \in Int
    BY <1>2
  <2>2. IsFiniteSet(I) /\ Cardinality(I) = IF a > a + k - 1 THEN 0 ELSE (a + k - 1) - a + 1
    BY <2>1, FS_Interval
  <2> HIDE DEF I
  <2> QED BY <1>2, <2>2
<1>5. D = I
  <2> HIDE DEF I
  <2> QED BY <1>3, <1>4, FS_Subset
<1> QED BY <1>1, <1>2, <1>5

(* Each request of a user occurs once.                                       *)
Distinct(b) ==
  \A q, r \in b : q.affects /\ r.affects /\ q.user = r.user /\ q.vector[q.user] = r.vector[q.user]
                  => q = r

LEMMA NumbersCount ==
  ASSUME NEW b, IsFiniteSet(b), Distinct(b), NEW X \in SUBSET b, NEW u
  PROVE  Cardinality(Of(X, u)) = Cardinality(Numbers(X, u)) /\ IsFiniteSet(Of(X, u))
<1> DEFINE S == Of(X, u)
           T == Numbers(X, u)
           f == [r \in S |-> r.vector[u]]
<1>1. S \in SUBSET b
  BY DEF Of
<1>2. IsFiniteSet(S)
  BY <1>1, FS_Subset
<1>3. f \in [S -> T] /\ \A y \in T : \E r \in S : f[r] = y
  BY DEF Numbers
<1>4. \A q, r \in S : f[q] = f[r] => q = r
  BY <1>1 DEF Of, Distinct
<1>5. f \in Bijection(S, T)
  <2> HIDE DEF S, T, f
  <2> QED BY <1>3, <1>4 DEF Bijection, Injection, Surjection, IsInjective
<1>6. ExistsBijection(S, T)
  BY <1>5 DEF ExistsBijection
<1> QED BY <1>2, <1>6, FS_Bijection

(* The requests of a site's buffer continue, for each user, those executed;  *)
(* so do those that are released, and those that stay continue these.        *)
Continues(b, v, top) ==
  /\ Distinct(b)
  /\ \A u \in Users : v[u] <= top[u] /\ Numbers(b, u) = v[u] .. top[u] - 1

(* The released requests of a user are the first ones in the buffer.         *)
LEMMA ReleasedInOrder ==
  ASSUME NEW v \in Vectors, NEW top \in Vectors, NEW b \in SUBSET Buffers, IsFiniteSet(b),
         Continues(b, v, top), NEW u \in Users
  PROVE  LET out == Released(b, v)
         IN Numbers(out, u) = v[u] .. Advance(v, out)[u] - 1
<1> DEFINE out == Released(b, v)
           Earlier(q, r) == /\ q.affects /\ r.affects /\ q.user = r.user
                            /\ q.vector[q.user] <= r.vector[r.user]
           Whole(r) == \A q \in b : Earlier(q, r) => q \in out
           Y == {r \in out : Whole(r)}
<1>1. out \in SUBSET b /\ Y \in SUBSET b /\ Y \in SUBSET out /\ Distinct(b)
  BY DEF Released, Continues
<1>2. IsFiniteSet(out) /\ IsFiniteSet(Y) /\ Closed(out, b, v)
  BY <1>1, FS_Subset, ReleasedClosed
<1>3. CausallyBefore(Advance(v, Y), Advance(v, out)) /\ Advance(v, Y) \in Vectors
      /\ Advance(v, out) \in Vectors
  BY <1>1, <1>2, AdvanceMonotone, AdvanceGrows
<1>4. ASSUME NEW w \in Users
      PROVE  /\ Numbers(Y, w) \in SUBSET (v[w] .. top[w] - 1)
             /\ \A d \in Numbers(Y, w) : v[w] .. d \subseteq Numbers(Y, w)
  <2>1. v[w] \in Nat /\ top[w] \in Nat /\ Numbers(b, w) = v[w] .. top[w] - 1
    BY DEF Continues, Vectors
  <2>2. Numbers(Y, w) \in SUBSET Numbers(b, w)
    BY <1>1 DEF Numbers, Of
  <2>3. ASSUME NEW d \in Numbers(Y, w), NEW e \in v[w] .. d PROVE e \in Numbers(Y, w)
    <3>1. PICK r \in Y : r.user = w /\ r.affects /\ r.vector[w] = d
      BY DEF Numbers, Of
    <3>2. e \in Numbers(b, w) /\ e <= d /\ e \in Nat /\ d \in Nat
      BY <2>1, <2>2
    <3>3. PICK q \in b : q.user = w /\ q.affects /\ q.vector[w] = e
      BY <3>2 DEF Numbers, Of
    <3>4. Whole(r) /\ q \in out
      BY <3>1, <3>2, <3>3
    <3>5. Whole(q)
      <4> SUFFICES ASSUME NEW p \in b, p.affects, p.user = w, p.vector[w] <= e PROVE p \in out
        BY <3>3
      <4>1. p.vector[w] \in Nat
        BY DEF Buffers, Vectors
      <4>2. p.vector[w] <= d
        BY <3>2, <4>1
      <4> QED BY <3>1, <3>4, <4>2
    <3> HIDE DEF Whole
    <3>6. q \in Y
      BY <3>4, <3>5
    <3> QED BY <3>3, <3>6 DEF Numbers, Of
  <2> HIDE DEF Y
  <2> QED BY <2>1, <2>2, <2>3
<1>5. ASSUME NEW w \in Users
      PROVE  /\ Advance(v, Y)[w] = v[w] + Cardinality(Numbers(Y, w))
             /\ Numbers(Y, w) = v[w] .. Advance(v, Y)[w] - 1
  <2> HIDE DEF Y
  <2>1. v[w] \in Nat /\ top[w] \in Nat
    BY DEF Vectors
  <2>2. Cardinality(Of(Y, w)) = Cardinality(Numbers(Y, w))
    BY <1>1, NumbersCount
  <2>3. Numbers(Y, w) = v[w] .. v[w] + Cardinality(Numbers(Y, w)) - 1
    BY <1>4, <2>1, InitialSegment
  <2>4. Advance(v, Y)[w] = v[w] + Cardinality(Of(Y, w))
    BY DEF Advance, Of
  <2> DEFINE N == Numbers(Y, w)
             A == Advance(v, Y)[w]
  <2>5. A = v[w] + Cardinality(N)
    BY <2>2, <2>4
  <2>6. N = v[w] .. v[w] + Cardinality(N) - 1 /\ Cardinality(N) \in Nat
    BY <1>4, <2>1, <2>3, InitialSegment
  <2> HIDE DEF N, A
  <2>7. N = v[w] .. A - 1
    BY <2>1, <2>5, <2>6
  <2> QED BY <2>5, <2>7 DEF N, A
<1>6. ASSUME NEW q \in b, CausallyBefore(q.vector, Advance(v, Y)) PROVE q \in Y
  <2>1. q.vector \in Vectors /\ q.user \in Users
    BY DEF Buffers
  <2>2. CausallyBefore(q.vector, Advance(v, out))
    BY <1>3, <1>6, <2>1, BeforeTransitive
  <2>3. q \in out
    BY <1>2, <2>2 DEF Closed
  <2>4. Whole(q)
    <3> SUFFICES ASSUME NEW p \in b, Earlier(p, q) PROVE p \in out
      OBVIOUS
    <3> DEFINE w == q.user
    <3>1. p.vector[w] \in Nat /\ q.vector[w] \in Nat /\ p.vector[w] <= q.vector[w]
      BY <2>1 DEF Buffers, Vectors
    <3>2. CASE p.vector[w] = q.vector[w]
      <4>1. p = q
        BY <1>1, <3>2 DEF Distinct
      <4> QED BY <2>3, <4>1
    <3>3. CASE p.vector[w] # q.vector[w]
      <4>1. q.vector[w] <= Advance(v, Y)[w] /\ Advance(v, Y)[w] \in Nat /\ v[w] \in Nat
        BY <1>3, <1>6, <2>1 DEF CausallyBefore, Vectors
      <4>2. v[w] <= p.vector[w]
        <5>1. p.vector[w] \in Numbers(b, w)
          BY DEF Numbers, Of
        <5> QED BY <2>1, <3>1, <4>1, <5>1 DEF Continues, Vectors
      <4>3. p.vector[w] \in v[w] .. Advance(v, Y)[w] - 1
        BY <3>1, <3>3, <4>1, <4>2
      <4>4. p.vector[w] \in Numbers(Y, w)
        BY <1>5, <2>1, <4>3
      <4>5. PICK r \in Y : r.user = w /\ r.affects /\ r.vector[w] = p.vector[w]
        BY <4>4 DEF Numbers, Of
      <4>6. p = r
        BY <1>1, <4>5 DEF Distinct
      <4> QED BY <1>1, <4>5, <4>6
    <3> QED BY <3>2, <3>3
  <2> HIDE DEF Whole
  <2> QED BY <2>3, <2>4
<1>7. Closed(Y, b, v)
  BY <1>6 DEF Closed
<1>8. out = Y
  BY <1>1, <1>7, ReleasedLeast
<1> QED BY <1>5, <1>8

(* What is released, and what stays                                          *)
LEMMA ReleaseContinues ==
  ASSUME NEW v \in Vectors, NEW top \in Vectors, NEW b \in SUBSET Buffers, IsFiniteSet(b),
         Continues(b, v, top)
  PROVE  LET out == Released(b, v)
             w == Advance(v, out)
         IN /\ w \in Vectors /\ CausallyBefore(v, w)
            /\ Continues(b \ out, w, top)
            /\ \A u \in Users : Numbers(out, u) = v[u] .. w[u] - 1
            /\ \A r \in b : CausallyBefore(r.vector, w) <=> r \in out
<1> DEFINE out == Released(b, v)
           w == Advance(v, out)
<1>1. out \in SUBSET b
  BY DEF Released
<1>2. w \in Vectors /\ CausallyBefore(v, w)
  <2>1. IsFiniteSet(out)
    BY <1>1, FS_Subset
  <2> QED BY <2>1, AdvanceGrows
<1>3. \A u \in Users : Numbers(out, u) = v[u] .. w[u] - 1
  BY ReleasedInOrder
<1>4. \A r \in b : CausallyBefore(r.vector, w) <=> r \in out
  BY ReleasedClosed, ReleasedReady DEF Closed
<1> HIDE DEF out, w
<1>5. Distinct(b) /\ Distinct(b \ out)
  BY DEF Continues, Distinct
<1>6. ASSUME NEW u \in Users
      PROVE  w[u] <= top[u] /\ Numbers(b \ out, u) = w[u] .. top[u] - 1
  <2>1. /\ v[u] \in Nat /\ w[u] \in Nat /\ top[u] \in Nat /\ v[u] <= w[u] /\ v[u] <= top[u]
        /\ Numbers(b, u) = v[u] .. top[u] - 1 /\ Numbers(out, u) = v[u] .. w[u] - 1
    BY <1>2, <1>3 DEF Continues, Vectors, CausallyBefore
  <2>2. Numbers(out, u) \subseteq Numbers(b, u)
    BY <1>1 DEF Numbers, Of
  <2>3. w[u] <= top[u]
    <3> SUFFICES ASSUME w[u] > top[u] PROVE FALSE
      BY <2>1
    <3>1. w[u] - 1 \in v[u] .. w[u] - 1
      BY <2>1
    <3>2. w[u] - 1 \in v[u] .. top[u] - 1
      BY <2>1, <2>2, <3>1
    <3> QED BY <2>1, <3>2
  <2>4. Numbers(b \ out, u) = Numbers(b, u) \ Numbers(out, u)
    <3>1. ASSUME NEW n \in Numbers(b \ out, u) PROVE n \in Numbers(b, u) /\ n \notin Numbers(out, u)
      <4>1. PICK r \in b \ out : r.user = u /\ r.affects /\ r.vector[u] = n
        BY DEF Numbers, Of
      <4>2. n \in Numbers(b, u)
        BY <4>1 DEF Numbers, Of
      <4>3. ASSUME n \in Numbers(out, u) PROVE FALSE
        <5>1. PICK q \in out : q.user = u /\ q.affects /\ q.vector[u] = n
          BY <4>3 DEF Numbers, Of
        <5>2. q = r
          BY <1>1, <1>5, <4>1, <5>1 DEF Distinct
        <5> QED BY <4>1, <5>2
      <4> QED BY <4>2, <4>3
    <3>2. ASSUME NEW n \in Numbers(b, u), n \notin Numbers(out, u) PROVE n \in Numbers(b \ out, u)
      <4>1. PICK r \in b : r.user = u /\ r.affects /\ r.vector[u] = n
        BY DEF Numbers, Of
      <4>2. r \notin out
        BY <3>2, <4>1 DEF Numbers, Of
      <4> QED BY <4>1, <4>2 DEF Numbers, Of
    <3> QED BY <3>1, <3>2
  <2>5. (v[u] .. top[u] - 1) \ (v[u] .. w[u] - 1) = w[u] .. top[u] - 1
    BY <2>1, <2>3
  <2> QED BY <2>1, <2>3, <2>4, <2>5
<1>7. Continues(b \ out, w, top)
  BY <1>5, <1>6 DEF Continues
<1> QED BY <1>2, <1>3, <1>4, <1>7 DEF out, w

-----------------------------------------------------------------------------
(* What a site has received of each user; of its own users, what it made.    *)
Top(s) == [u \in Users |-> IF Home[u] = s THEN current[s][u] ELSE vector[s][u][u]]

(* Buffered requests of one user with the same number are the same request.  *)
LEMMA CarriedDistinct ==
  ASSUME NEW b \in SUBSET Buffers, NEW made, \A r \in b : Carried(r, made)
  PROVE  Distinct(b)
<1> SUFFICES ASSUME NEW q \in b, NEW r \in b, q.affects, r.affects, q.user = r.user,
                    q.vector[q.user] = r.vector[q.user]
             PROVE  q = r
  BY DEF Distinct
<1>1. q.vector = r.vector
  BY DEF Carried
<1>2. q.affects = TRUE /\ r.affects = TRUE
  BY DEF Buffers
<1> QED BY <1>1, <1>2 DEF Buffers

(* Before a message arrives, the buffer continues what is executed.          *)
LEMMA BufferContinues ==
  ASSUME IInv, RInv, NEW s \in Sites
  PROVE  Top(s) \in Vectors /\ Continues(buffer[s], current[s], Top(s))
<1>1. /\ current[s] \in Vectors /\ vector[s] \in [Users -> Vectors] /\ buffer[s] \in SUBSET Buffers
      /\ \A r \in buffer[s] : Carried(r, issued) /\ Home[r.user] # s
  BY DEF IInv, Types, RInv, RTypes, Contents
<1>2. Top(s) \in Vectors
  BY <1>1 DEF Top, Vectors
<1>3. Distinct(buffer[s])
  BY <1>1, CarriedDistinct
<1>4. ASSUME NEW u \in Users
      PROVE  current[s][u] <= Top(s)[u] /\ Numbers(buffer[s], u) = current[s][u] .. Top(s)[u] - 1
  <2>1. CASE Home[u] = s
    <3>1. Top(s)[u] = current[s][u] /\ current[s][u] \in Nat
      BY <1>1, <2>1 DEF Top, Vectors
    <3>2. Numbers(buffer[s], u) = {}
      BY <1>1, <2>1 DEF Numbers, Of
    <3> QED BY <3>1, <3>2
  <2>2. CASE Home[u] # s
    BY <2>2 DEF Top, RInv, Arrived
  <2> QED BY <2>1, <2>2
<1> QED BY <1>2, <1>3, <1>4 DEF Continues

(* process_xml_run with a message that was decoded right: the state and the  *)
(* buffer before the loop of process_buffered_requests                       *)
Reached(s, m) == IF CanProcess(s, m.vector) THEN Target(m, current[s]) ELSE current[s]
Buffered(s, m) ==
  IF CanProcess(s, m.vector) THEN buffer[s] ELSE buffer[s] \cup Requests(m, m.vector)
TopWith(s, m) == [Top(s) EXCEPT ![m.user] = Target(m, m.vector)[m.user]]

(* A message that continues what a site has received of a user               *)
Arrives(s, m) ==
  /\ m \in Messages /\ Home[m.user] # s /\ Carries(m, issued)
  /\ m.vector[m.user] = vector[s][m.user][m.user]

(* Numbers of the requests in a message                                      *)
LEMMA RequestsNumbers ==
  ASSUME NEW m \in Messages, Carries(m, issued), RTypes
  PROVE  /\ Requests(m, m.vector) \in SUBSET Buffers
         /\ \A r \in Requests(m, m.vector) : Carried(r, issued) /\ r.user = m.user
         /\ \A u \in Users : Numbers(Requests(m, m.vector), u) =
              IF u = m.user /\ m.affects THEN m.vector[u] .. m.vector[u] + m.num - 1 ELSE {}
<1> DEFINE x == m.user
           v == m.vector
           R(i) == [user |-> x, vector |-> Add(v, x, i), affects |-> m.affects]
<1>1. x \in Users /\ v \in Vectors /\ m.num \in Nat /\ m.affects \in BOOLEAN /\ v[x] \in Nat
  BY DEF Messages, Vectors
<1>2. Requests(m, v) = {R(i) : i \in 0 .. m.num - 1}
  BY DEF Requests
<1>3. ASSUME NEW i \in 0 .. m.num - 1
      PROVE  R(i) \in Buffers /\ Carried(R(i), issued) /\ R(i).vector[x] = v[x] + i
  <2>1. Add(v, x, i) \in Vectors /\ Add(v, x, i)[x] = v[x] + i
    <3>1. i \in Nat
      BY <1>1
    <3> QED BY <1>1, <3>1, AddGrows
  <2>2. \A w \in Users : w # x => Add(v, x, i)[w] = v[w]
    BY <1>1 DEF Add, Vectors
  <2>3. CASE m.affects
    <3>1. i + 1 \in 1 .. m.num /\ (i + 1) - 1 = i /\ v[x] + (i + 1) = v[x] + i + 1
      BY <1>1
    <3>2. v[x] + (i + 1) <= Len(issued[x]) /\ issued[x][v[x] + (i + 1)] = Add(v, x, (i + 1) - 1)
      BY <2>3, <3>1 DEF Carries
    <3>3. v[x] + i + 1 <= Len(issued[x]) /\ issued[x][v[x] + i + 1] = Add(v, x, i)
      BY <3>1, <3>2
    <3>4. Known(Add(v, x, i), issued)
      <4> SUFFICES ASSUME NEW w \in Users PROVE Add(v, x, i)[w] <= Len(issued[w])
        BY DEF Known
      <4>1. CASE w # x
        BY <2>2, <4>1 DEF Carries, Known
      <4>2. CASE w = x
        <5>1. v[x] + i <= v[x] + i + 1 /\ Len(issued[x]) \in Int
          <6>1. issued[x] \in Seq(Vectors)
            BY <1>1 DEF RTypes
          <6> QED BY <1>1, <6>1
        <5> QED BY <1>1, <2>1, <3>3, <4>2, <5>1
      <4> QED BY <4>1, <4>2
    <3> QED BY <1>1, <2>1, <3>3, <3>4 DEF Carried, Buffers
  <2>4. CASE ~m.affects
    <3>1. i = 0 /\ Add(v, x, 0) = v
      <4>1. m.num = 1
        BY <2>4 DEF Carries
      <4> QED BY <1>1, <4>1 DEF Add, Vectors
    <3>2. Known(v, issued)
      BY DEF Carries
    <3> QED BY <1>1, <2>1, <2>4, <3>1, <3>2 DEF Carried, Buffers
  <2> QED BY <2>3, <2>4
<1>4. ASSUME NEW u \in Users
      PROVE  Numbers({R(i) : i \in 0 .. m.num - 1}, u) =
               IF u = x /\ m.affects THEN v[u] .. v[u] + m.num - 1 ELSE {}
  <2> DEFINE X == {R(i) : i \in 0 .. m.num - 1}
  <2>1. CASE ~(u = x /\ m.affects)
    <3>1. Of(X, u) = {}
      BY <2>1 DEF Of
    <3> QED BY <2>1, <3>1 DEF Numbers
  <2>2. CASE u = x /\ m.affects
    <3>1. ASSUME NEW n \in Numbers(X, u) PROVE n \in v[u] .. v[u] + m.num - 1
      <4>1. PICK i \in 0 .. m.num - 1 : n = R(i).vector[u]
        BY DEF Numbers, Of
      <4>2. n = v[x] + i
        BY <1>3, <2>2, <4>1
      <4> QED BY <1>1, <2>2, <4>2
    <3>2. ASSUME NEW n \in v[u] .. v[u] + m.num - 1 PROVE n \in Numbers(X, u)
      <4>1. n - v[u] \in 0 .. m.num - 1 /\ v[u] + (n - v[u]) = n
        BY <1>1, <2>2
      <4>2. R(n - v[u]) \in X /\ R(n - v[u]).vector[u] = n
        BY <1>3, <2>2, <4>1
      <4>3. R(n - v[u]) \in Of(X, u)
        BY <2>2, <4>2 DEF Of
      <4> QED BY <4>2, <4>3 DEF Numbers
    <3> QED BY <2>2, <3>1, <3>2
  <2> QED BY <2>1, <2>2
<1> QED BY <1>2, <1>3, <1>4

(* After its arrival, too, the buffer continues what is executed.            *)
LEMMA ArrivalContinues ==
  ASSUME IInv, RInv, NEW s \in Sites, NEW m, Arrives(s, m)
  PROVE  /\ Reached(s, m) \in Vectors /\ CausallyBefore(current[s], Reached(s, m))
         /\ Buffered(s, m) \in SUBSET Buffers /\ IsFiniteSet(Buffered(s, m))
         /\ \A r \in Buffered(s, m) : Carried(r, issued) /\ Home[r.user] # s
         /\ TopWith(s, m) \in Vectors
         /\ \A u \in Users : /\ TopWith(s, m)[u] <= Len(issued[u])
                             /\ Home[u] = s => TopWith(s, m)[u] = current[s][u]
         /\ Continues(Buffered(s, m), Reached(s, m), TopWith(s, m))
<1> DEFINE x == m.user
           v == m.vector
           cur == current[s]
           top == Top(s)
           z == Target(m, v)
<1>1. /\ m \in Messages /\ x \in Users /\ v \in Vectors /\ m.num \in Nat /\ m.affects \in BOOLEAN
      /\ Home[x] # s /\ Carries(m, issued) /\ v[x] = vector[s][x][x]
  BY DEF Arrives, Messages
<1>2. cur \in Vectors /\ buffer[s] \in SUBSET Buffers /\ IsFiniteSet(buffer[s])
      /\ issued \in [Users -> Seq(Vectors)]
  BY DEF IInv, Types, RInv, RTypes
<1>3. top \in Vectors /\ Continues(buffer[s], cur, top) /\ top[x] = v[x]
  <2>1. top[x] = v[x]
    BY <1>1 DEF Top
  <2> QED BY <2>1, BufferContinues
<1>4. z \in Vectors /\ z[x] = (IF m.affects THEN v[x] + m.num ELSE v[x])
  BY <1>1, TargetGrows, AddGrows DEF Target
<1>5. TopWith(s, m) \in Vectors /\ TopWith(s, m)[x] = z[x]
      /\ \A u \in Users \ {x} : TopWith(s, m)[u] = top[u]
  <2> HIDE DEF top, z
  <2>1. TopWith(s, m) = [top EXCEPT ![x] = z[x]]
    BY DEF TopWith, top, z
  <2> QED BY <1>1, <1>3, <1>4, <2>1 DEF Vectors
<1>6. Reached(s, m) \in Vectors /\ CausallyBefore(cur, Reached(s, m))
  <2>1. CausallyBefore(cur, cur)
    BY <1>2 DEF CausallyBefore, Vectors
  <2> QED BY <1>1, <1>2, <2>1, TargetGrows DEF Reached
<1>7. /\ Requests(m, v) \in SUBSET Buffers /\ IsFiniteSet(Requests(m, v))
      /\ \A r \in Requests(m, v) : Carried(r, issued) /\ r.user = x
      /\ \A u \in Users : Numbers(Requests(m, v), u) =
           IF u = x /\ m.affects THEN v[u] .. v[u] + m.num - 1 ELSE {}
  BY <1>1, RequestsNumbers, RequestsFinite DEF RInv
<1>8. /\ Buffered(s, m) \in SUBSET Buffers /\ IsFiniteSet(Buffered(s, m))
      /\ \A r \in Buffered(s, m) : Carried(r, issued) /\ Home[r.user] # s
  <2>1. IsFiniteSet(buffer[s] \cup Requests(m, v))
    BY <1>2, <1>7, FS_Union
  <2>2. \A r \in buffer[s] : Carried(r, issued) /\ Home[r.user] # s
    BY DEF RInv, Contents
  <2> QED BY <1>1, <1>2, <1>7, <2>1, <2>2 DEF Buffered
<1>9. ASSUME NEW u \in Users
      PROVE  TopWith(s, m)[u] <= Len(issued[u]) /\ (Home[u] = s => TopWith(s, m)[u] = cur[u])
  <2>1. Len(issued[u]) \in Nat
    BY <1>2
  <2>2. CASE u # x
    <3>1. TopWith(s, m)[u] = top[u]
      BY <1>5, <2>2
    <3>2. CASE Home[u] = s
      <4>1. top[u] = cur[u] /\ cur[u] = Len(issued[u])
        BY <3>2 DEF Top, RInv, OwnTold
      <4> QED BY <2>1, <3>1, <4>1
    <3>3. CASE Home[u] # s
      <4>1. top[u] = vector[s][u][u] /\ vector[s][u][u] <= Len(issued[u])
        BY <3>3 DEF Top, RInv, Arrived
      <4> QED BY <3>1, <3>3, <4>1
    <3> QED BY <3>2, <3>3
  <2>3. CASE u = x
    <3>1. v[x] <= Len(issued[x]) /\ v[x] \in Nat
      BY <1>1 DEF Carries, Known, Vectors
    <3>2. m.affects => v[x] + m.num <= Len(issued[x])
      <4>1. CASE m.affects /\ m.num > 0
        <5>1. m.num \in 1 .. m.num
          BY <1>1, <4>1
        <5> QED BY <1>1, <4>1, <5>1 DEF Carries
      <4>2. CASE m.num = 0
        BY <2>1, <2>3, <3>1, <4>2
      <4> QED BY <1>1, <4>1, <4>2
    <3> QED BY <1>1, <1>4, <1>5, <2>3, <3>1, <3>2
  <2> QED BY <2>2, <2>3
<1>10. Distinct(Buffered(s, m))
  BY <1>8, CarriedDistinct
<1>11. ASSUME NEW u \in Users
       PROVE  /\ Reached(s, m)[u] <= TopWith(s, m)[u]
              /\ Numbers(Buffered(s, m), u) = Reached(s, m)[u] .. TopWith(s, m)[u] - 1
  <2>1. cur[u] \in Nat /\ top[u] \in Nat /\ v[u] \in Nat /\ cur[u] <= top[u]
        /\ Numbers(buffer[s], u) = cur[u] .. top[u] - 1
    BY <1>1, <1>2, <1>3 DEF Continues, Vectors
  <2>2. CASE CanProcess(s, v)
    <3>1. Reached(s, m) = Target(m, cur) /\ Buffered(s, m) = buffer[s] /\ v[u] <= cur[u]
      BY <1>1, <2>2 DEF Reached, Buffered, CanProcess, CausallyBefore, Vectors
    <3>2. CASE u = x /\ m.affects
      <4>1. Reached(s, m)[u] = cur[u] + m.num
        <5>1. Target(m, cur) = Add(cur, x, m.num)
          BY <3>2 DEF Target
        <5>2. Add(cur, x, m.num)[u] = cur[u] + m.num
          BY <1>1, <1>2, <3>2, AddGrows
        <5> QED BY <3>1, <5>1, <5>2
      <4>2. TopWith(s, m)[u] = v[u] + m.num /\ top[u] = v[u]
        BY <1>3, <1>4, <1>5, <3>2
      <4>3. cur[u] = v[u] /\ Numbers(buffer[s], u) = {}
        BY <2>1, <3>1, <4>2
      <4>4. Reached(s, m)[u] = TopWith(s, m)[u] /\ TopWith(s, m)[u] \in Nat
        BY <1>1, <2>1, <4>1, <4>2, <4>3
      <4> QED BY <3>1, <4>3, <4>4
    <3>3. CASE ~(u = x /\ m.affects)
      <4>1. Reached(s, m)[u] = cur[u]
        BY <1>1, <1>2, <3>1, <3>3 DEF Target, Add, Vectors
      <4>2. TopWith(s, m)[u] = top[u]
        BY <1>3, <1>4, <1>5, <3>3
      <4> QED BY <2>1, <3>1, <4>1, <4>2
    <3> QED BY <3>2, <3>3
  <2>3. CASE ~CanProcess(s, v)
    <3>1. Reached(s, m) = cur /\ Buffered(s, m) = buffer[s] \cup Requests(m, v)
      BY <2>3 DEF Reached, Buffered
    <3>2. Numbers(Buffered(s, m), u) = Numbers(buffer[s], u) \cup Numbers(Requests(m, v), u)
      BY <3>1 DEF Numbers, Of
    <3>3. CASE u = x /\ m.affects
      <4>1. TopWith(s, m)[u] = v[u] + m.num /\ top[u] = v[u]
        BY <1>3, <1>4, <1>5, <3>3
      <4>2. Numbers(Requests(m, v), u) = v[u] .. v[u] + m.num - 1
        BY <1>7, <3>3
      <4>3. (cur[u] .. v[u] - 1) \cup (v[u] .. v[u] + m.num - 1) = cur[u] .. v[u] + m.num - 1
        BY <1>1, <2>1, <4>1
      <4>4. cur[u] <= v[u] + m.num
        BY <1>1, <2>1, <4>1
      <4>5. Numbers(Buffered(s, m), u) = cur[u] .. v[u] + m.num - 1
        BY <2>1, <3>2, <4>1, <4>2, <4>3
      <4>6. v[u] + m.num - 1 = TopWith(s, m)[u] - 1 /\ Reached(s, m)[u] = cur[u]
        <5> DEFINE T == TopWith(s, m)[u]
        <5>1. T = v[u] + m.num /\ v[u] \in Nat /\ m.num \in Nat
          BY <1>1, <2>1, <4>1
        <5> HIDE DEF T
        <5>2. v[u] + m.num - 1 = T - 1
          BY <5>1
        <5> QED BY <3>1, <5>2 DEF T
      <4>7. Numbers(Buffered(s, m), u) = Reached(s, m)[u] .. TopWith(s, m)[u] - 1
        BY <4>5, <4>6
      <4> QED BY <4>1, <4>4, <4>6, <4>7
    <3>4. CASE ~(u = x /\ m.affects)
      <4>1. TopWith(s, m)[u] = top[u]
        BY <1>3, <1>4, <1>5, <3>4
      <4>2. Numbers(Requests(m, v), u) = {}
        BY <1>7, <3>4
      <4> QED BY <2>1, <3>1, <3>2, <4>1, <4>2
    <3> QED BY <3>3, <3>4
  <2> QED BY <2>2, <2>3
<1>12. Continues(Buffered(s, m), Reached(s, m), TopWith(s, m))
  BY <1>10, <1>11 DEF Continues
<1> QED BY <1>5, <1>6, <1>8, <1>9, <1>12

(* process_xml_run, at the level of requests: nothing is lost, everything is *)
(* executed in causal order, and nothing waits that is ready.                *)
LEMMA ProcessReceives ==
  ASSUME IInv, RInv, NEW s \in Sites, NEW m, Arrives(s, m),
         FromDiff(m.diff, vector[s][m.user]) = m.vector, Process(s, m)
  PROVE  /\ RTypes' /\ OwnTold' /\ Arrived' /\ Causal' /\ BufferWaits'
         /\ \A r \in Sites : \A q \in buffer'[r] : Carried(q, issued) /\ Home[q.user] # r
         /\ \A r \in Sites, u \in Users : Home[u] # r =>
              vector'[r][u] = IF r = s /\ u = m.user THEN Target(m, m.vector) ELSE vector[r][u]
         /\ UNCHANGED <<issued, last_send>>
         /\ Broadcast!Deliver(s)
<1> DEFINE v == m.vector
           x == m.user
           b == Buffered(s, m)
           reached == Reached(s, m)
           top == TopWith(s, m)
           out == Released(b, reached)
           w == Advance(reached, out)
<1>1. /\ current' = [current EXCEPT ![s] = w] /\ buffer' = [buffer EXCEPT ![s] = b \ out]
      /\ vector' = [vector EXCEPT ![s] = UpdateLocalTimes(s, [@ EXCEPT ![x] = Target(m, v)], w)]
      /\ UNCHANGED <<issued, last_send>>
  BY DEF Process, Buffered, Reached
<1>2. /\ current \in [Sites -> Vectors] /\ vector \in [Sites -> [Users -> Vectors]]
      /\ buffer \in [Sites -> SUBSET Buffers] /\ issued \in [Users -> Seq(Vectors)]
      /\ m \in Messages /\ x \in Users /\ v \in Vectors /\ Home[x] # s
  BY DEF IInv, Types, RInv, RTypes, Arrives, Messages
<1>3. /\ reached \in Vectors /\ CausallyBefore(current[s], reached)
      /\ b \in SUBSET Buffers /\ IsFiniteSet(b)
      /\ \A r \in b : Carried(r, issued) /\ Home[r.user] # s
      /\ top \in Vectors
      /\ \A u \in Users : top[u] <= Len(issued[u]) /\ (Home[u] = s => top[u] = current[s][u])
      /\ Continues(b, reached, top)
  BY ArrivalContinues
<1>4. top[x] = Target(m, v)[x] /\ \A u \in Users \ {x} : Home[u] # s => top[u] = vector[s][u][u]
  BY <1>2 DEF TopWith, Top
<1>5. CanProcess(s, v) => CausallyBefore(v, current[s]) /\ reached = Target(m, current[s])
  BY DEF CanProcess, Reached
<1>6. ~CanProcess(s, v) => reached = current[s]
  BY DEF Reached
<1> HIDE DEF b, reached, top
<1>7. /\ w \in Vectors /\ CausallyBefore(reached, w) /\ Continues(b \ out, w, top)
      /\ \A u \in Users : Numbers(out, u) = reached[u] .. w[u] - 1
      /\ \A r \in b : CausallyBefore(r.vector, w) <=> r \in out
  BY <1>3, ReleaseContinues
<1>8. out \subseteq b
  BY DEF Released
<1> HIDE DEF out, w
<1>9. CausallyBefore(current[s], w)
  BY <1>2, <1>3, <1>7, BeforeTransitive
<1>10. Target(m, v) \in Vectors
  BY <1>2, TargetGrows
<1>11. /\ current' \in [Sites -> Vectors] /\ current'[s] = w
       /\ \A r \in Sites \ {s} : current'[r] = current[r] /\ buffer'[r] = buffer[r] /\ vector'[r] = vector[r]
       /\ buffer'[s] = b \ out
       /\ buffer' \in [Sites -> SUBSET Buffers]
  BY <1>1, <1>2, <1>3, <1>7
<1>12. /\ vector'[s] \in [Users -> Vectors]
       /\ \A u \in Users : Home[u] # s => vector'[s][u] = IF u = x THEN Target(m, v) ELSE vector[s][u]
  <2>1. vector'[s] = UpdateLocalTimes(s, [vector[s] EXCEPT ![x] = Target(m, v)], w)
    BY <1>1, <1>2
  <2>2. vector[s] \in [Users -> Vectors]
    BY <1>2
  <2> QED BY <1>2, <1>7, <1>10, <2>1, <2>2 DEF UpdateLocalTimes
<1>13. RTypes'
  BY <1>1, <1>2, <1>11, <1>12 DEF RTypes
<1>14. \A u \in Users : Home[u] = s => w[u] = current[s][u]
  <2> SUFFICES ASSUME NEW u \in Users, Home[u] = s PROVE w[u] = current[s][u]
    OBVIOUS
  <2>1. w[u] <= top[u] /\ top[u] = current[s][u] /\ current[s][u] <= w[u]
    BY <1>3, <1>7, <1>9, <1>2 DEF Continues, CausallyBefore, Vectors
  <2> QED BY <1>2, <1>7, <2>1 DEF Vectors
<1>15. OwnTold'
  <2> SUFFICES ASSUME NEW u \in Users PROVE current'[Home[u]][u] = current[Home[u]][u]
    BY <1>1 DEF RInv, OwnTold
  <2>1. Home[u] \in Sites
    BY SitesAssumption
  <2> QED BY <1>11, <1>14, <2>1
<1>16. Arrived'
  <2> SUFFICES ASSUME NEW r \in Sites, NEW u \in Users, Home[u] # r
               PROVE  /\ current'[r][u] <= vector'[r][u][u] /\ vector'[r][u][u] <= Len(issued[u])
                      /\ Numbers(buffer'[r], u) = current'[r][u] .. vector'[r][u][u] - 1
    BY <1>1 DEF Arrived
  <2>1. CASE r # s
    BY <1>11, <2>1 DEF RInv, Arrived
  <2>2. CASE r = s
    <3>1. vector'[s][u][u] = top[u]
      BY <1>4, <1>12, <2>2
    <3> QED BY <1>3, <1>7, <1>11, <2>2, <3>1 DEF Continues
  <2> QED BY <2>1, <2>2
<1>17. \A r \in Sites : \A q \in buffer'[r] : Carried(q, issued) /\ Home[q.user] # r
  BY <1>3, <1>11 DEF RInv, Contents
<1>18. BufferWaits'
  BY <1>7, <1>11 DEF RInv, BufferWaits
<1>19. ASSUME NEW u \in Users, NEW i \in 1 .. w[u] PROVE CausallyBefore(issued[u][i], w)
  <2>1. /\ w[u] \in Nat /\ reached[u] \in Nat /\ current[s][u] \in Nat /\ top[u] \in Nat
        /\ current[s][u] <= reached[u] /\ reached[u] <= w[u] /\ w[u] <= top[u]
        /\ top[u] <= Len(issued[u]) /\ issued[u] \in Seq(Vectors)
    BY <1>2, <1>3, <1>7 DEF Vectors, CausallyBefore, Continues
  <2>2. issued[u][i] \in Vectors
    BY <2>1
  <2>3. CASE i <= current[s][u]
    <3>1. CausallyBefore(issued[u][i], current[s])
      BY <2>1, <2>3 DEF RInv, Causal
    <3> QED BY <1>2, <1>7, <1>9, <2>2, <3>1, BeforeTransitive
  <2>4. CASE ~(i <= current[s][u]) /\ i <= reached[u]
    <3>1. CanProcess(s, v) /\ reached = Target(m, current[s]) /\ CausallyBefore(v, current[s])
      BY <1>5, <1>6, <2>1, <2>4
    <3>2. u = x /\ m.affects /\ reached[x] = current[s][x] + m.num
      BY <1>2, <2>1, <2>4, <3>1 DEF Target, Add, Vectors
    <3>3. v[x] = vector[s][x][x] /\ current[s][x] <= vector[s][x][x] /\ v[x] <= current[s][x]
      BY <1>2, <3>1 DEF Arrives, RInv, Arrived, CausallyBefore, Vectors
    <3>4. v[x] = current[s][x] /\ v[x] \in Nat /\ m.num \in Nat
      BY <1>2, <3>3 DEF Vectors, Messages
    <3> DEFINE j == i - v[x]
    <3>5. j \in 1 .. m.num /\ v[x] + j = i
      BY <2>1, <2>4, <3>2, <3>4
    <3>6. issued[x][v[x] + j] = Add(v, x, j - 1)
      BY <3>2, <3>5 DEF Arrives, Carries
    <3>7. CausallyBefore(Add(v, x, j - 1), reached)
      <4>1. reached = Add(current[s], x, m.num)
        BY <3>1, <3>2 DEF Target
      <4>2. \A y \in Users : v[y] <= current[s][y] /\ v[y] \in Nat /\ current[s][y] \in Nat
        BY <1>2, <3>1 DEF CausallyBefore, Vectors
      <4>3. j - 1 <= m.num /\ j \in Nat /\ m.num \in Nat
        BY <3>4, <3>5
      <4> HIDE DEF j
      <4>4. v \in [Users -> Nat] /\ current[s] \in [Users -> Nat] /\ x \in Users
        BY <1>2 DEF Vectors
      <4>5. /\ DOMAIN Add(v, x, j - 1) = Users
            /\ Add(v, x, j - 1)[x] = v[x] + (j - 1) /\ reached[x] = current[s][x] + m.num
            /\ \A y \in Users \ {x} : Add(v, x, j - 1)[y] = v[y] /\ reached[y] = current[s][y]
        BY <4>1, <4>4 DEF Add
      <4>6. v[x] + (j - 1) <= current[s][x] + m.num
        BY <4>2, <4>3, <4>4
      <4>7. ASSUME NEW y \in Users PROVE Add(v, x, j - 1)[y] <= reached[y]
        <5>1. CASE y = x
          <6>1. Add(v, x, j - 1)[y] = v[x] + (j - 1) /\ reached[y] = current[s][x] + m.num
            BY <4>5, <5>1
          <6> QED BY <4>6, <6>1
        <5>2. CASE y # x
          <6>1. Add(v, x, j - 1)[y] = v[y] /\ reached[y] = current[s][y]
            BY <4>5, <5>2
          <6> QED BY <4>2, <6>1
        <5> QED BY <5>1, <5>2
      <4> QED BY <4>5, <4>7 DEF CausallyBefore
    <3>8. CausallyBefore(issued[u][i], reached)
      BY <3>2, <3>5, <3>6, <3>7
    <3> QED BY <1>3, <1>7, <2>2, <3>8, BeforeTransitive
  <2>5. CASE ~(i <= reached[u])
    <3>1. i - 1 \in Numbers(out, u)
      BY <1>7, <2>1, <2>5
    <3>2. PICK r \in out : r.user = u /\ r.affects /\ r.vector[u] = i - 1
      BY <3>1 DEF Numbers, Of
    <3>3. r \in b /\ CausallyBefore(r.vector, w) /\ Carried(r, issued)
      BY <1>3, <1>7, <1>8
    <3>4. issued[u][(i - 1) + 1] = r.vector
      BY <3>2, <3>3 DEF Carried
    <3>5. (i - 1) + 1 = i
      BY <2>1
    <3> QED BY <3>3, <3>4, <3>5
  <2> QED BY <2>3, <2>4, <2>5
<1>20. Causal'
  <2> SUFFICES ASSUME NEW r \in Sites, NEW u \in Users, NEW i \in 1 .. current'[r][u]
               PROVE  CausallyBefore(issued[u][i], current'[r])
    BY <1>1 DEF Causal
  <2>1. CASE r # s
    BY <1>11, <2>1 DEF RInv, Causal
  <2>2. CASE r = s
    BY <1>11, <1>19, <2>2
  <2> QED BY <2>1, <2>2
<1>21. Broadcast!Deliver(s)
  <2>1. \A t \in Sites \ {s} : current'[t] = current[t]
    BY <1>11
  <2>2. ASSUME NEW u \in Users
        PROVE  /\ w[u] \in current[s][u] .. Len(issued[u])
               /\ Home[u] = s => w[u] = current[s][u]
               /\ \A i \in 1 .. w[u] : CausallyBefore(issued[u][i], w)
    <3>1. /\ current[s][u] <= w[u] /\ w[u] <= top[u] /\ top[u] <= Len(issued[u])
          /\ current[s][u] \in Nat /\ w[u] \in Nat /\ top[u] \in Nat /\ Len(issued[u]) \in Nat
      BY <1>2, <1>3, <1>7, <1>9 DEF Vectors, CausallyBefore, Continues
    <3> QED BY <1>14, <1>19, <3>1
  <2> QED BY <1>1, <1>11, <2>1, <2>2 DEF Broadcast!Deliver, Broadcast!CausallyBefore, CausallyBefore
<1> QED BY <1>1, <1>11, <1>12, <1>13, <1>15, <1>16, <1>17, <1>18, <1>20, <1>21

-----------------------------------------------------------------------------
(* The messages of a channel when one is sent and when one is received       *)
LEMMA Appended ==
  ASSUME NEW q \in Seq(Messages), NEW m \in Messages, NEW i \in 1 .. Len(Append(q, m))
  PROVE  Append(q, m)[i] = m \/ (i \in 1 .. Len(q) /\ Append(q, m)[i] = q[i])
  OBVIOUS

LEMMA Taken ==
  ASSUME NEW q \in Seq(Messages), q # <<>>
  PROVE  /\ Head(q) = q[1] /\ 1 \in 1 .. Len(q) /\ Head(q) \in Messages
         /\ Tail(q) \in Seq(Messages)
         /\ \A i \in 1 .. Len(Tail(q)) : i + 1 \in 1 .. Len(q) /\ Tail(q)[i] = q[i + 1]
  OBVIOUS

(* A user makes further requests.                                            *)
Extends(made, more) ==
  \A u \in Users : /\ Len(made[u]) <= Len(more[u])
                   /\ \A i \in 1 .. Len(made[u]) : more[u][i] = made[u][i]

LEMMA KnownStays ==
  ASSUME NEW made \in [Users -> Seq(Vectors)], NEW more \in [Users -> Seq(Vectors)],
         Extends(made, more), NEW v \in Vectors, Known(v, made)
  PROVE  Known(v, more)
<1> SUFFICES ASSUME NEW u \in Users PROVE v[u] <= Len(more[u])
  BY DEF Known
<1>1. v[u] <= Len(made[u]) /\ Len(made[u]) <= Len(more[u])
  BY DEF Known, Extends
<1>2. v[u] \in Nat /\ Len(made[u]) \in Nat /\ Len(more[u]) \in Nat
  BY DEF Vectors
<1> QED BY <1>1, <1>2

LEMMA CarriesStays ==
  ASSUME NEW made \in [Users -> Seq(Vectors)], NEW more \in [Users -> Seq(Vectors)],
         Extends(made, more), NEW m \in Messages, Carries(m, made)
  PROVE  Carries(m, more)
<1>1. m.user \in Users /\ m.vector \in Vectors /\ m.num \in Nat /\ m.vector[m.user] \in Nat
  BY DEF Messages, Vectors
<1>2. Known(m.vector, more)
  BY <1>1, KnownStays DEF Carries
<1>3. ASSUME m.affects, NEW i \in 1 .. m.num
      PROVE  /\ m.vector[m.user] + i <= Len(more[m.user])
             /\ more[m.user][m.vector[m.user] + i] = Add(m.vector, m.user, i - 1)
  <2> DEFINE k == m.vector[m.user] + i
  <2>1. k <= Len(made[m.user]) /\ made[m.user][k] = Add(m.vector, m.user, i - 1)
    BY <1>3 DEF Carries
  <2>2. /\ Len(made[m.user]) \in Nat /\ Len(more[m.user]) \in Nat
        /\ Len(made[m.user]) <= Len(more[m.user]) /\ k \in Nat /\ k >= 1
    BY <1>1 DEF Extends
  <2> HIDE DEF k
  <2>3. k \in 1 .. Len(made[m.user])
    BY <2>1, <2>2
  <2>4. more[m.user][k] = made[m.user][k]
    BY <1>1, <2>3 DEF Extends
  <2>5. k <= Len(more[m.user]) /\ more[m.user][k] = Add(m.vector, m.user, i - 1)
    BY <2>1, <2>2, <2>4
  <2> QED BY <2>5 DEF k
<1> QED BY <1>2, <1>3 DEF Carries

LEMMA CarriedStays ==
  ASSUME NEW made \in [Users -> Seq(Vectors)], NEW more \in [Users -> Seq(Vectors)],
         Extends(made, more), NEW r \in Buffers, Carried(r, made)
  PROVE  Carried(r, more)
<1>1. r.user \in Users /\ r.vector \in Vectors /\ r.vector[r.user] \in Nat
  BY DEF Buffers, Vectors
<1>2. Known(r.vector, more)
  BY <1>1, KnownStays DEF Carried
<1>3. ASSUME r.affects
      PROVE  /\ r.vector[r.user] + 1 <= Len(more[r.user])
             /\ more[r.user][r.vector[r.user] + 1] = r.vector
  <2> DEFINE k == r.vector[r.user] + 1
  <2>1. k <= Len(made[r.user]) /\ made[r.user][k] = r.vector
    BY <1>3 DEF Carried
  <2>2. /\ Len(made[r.user]) \in Nat /\ Len(more[r.user]) \in Nat
        /\ Len(made[r.user]) <= Len(more[r.user]) /\ k \in Nat /\ k >= 1
    BY <1>1 DEF Extends
  <2> HIDE DEF k
  <2>3. k \in 1 .. Len(made[r.user])
    BY <2>1, <2>2
  <2>4. more[r.user][k] = made[r.user][k]
    BY <1>1, <2>3 DEF Extends
  <2>5. k <= Len(more[r.user]) /\ more[r.user][k] = r.vector
    BY <2>1, <2>2, <2>4
  <2> QED BY <2>5 DEF k
<1> QED BY <1>2, <1>3 DEF Carried

(* What a local user sends ends up in the channels.                          *)
LEMMA SendChannels ==
  ASSUME IInv, NEW m \in Messages, Send(m)
  PROVE  /\ last_send' = [last_send EXCEPT ![m.user] = Target(m, m.vector)]
         /\ Home[m.user] = Server => /\ up' = up
                                     /\ \A c \in Clients : down'[c] = Append(down[c], m)
         /\ Home[m.user] # Server => /\ down' = down
                                     /\ up'[Home[m.user]] = Append(up[Home[m.user]], m)
                                     /\ \A c \in Clients \ {Home[m.user]} : up'[c] = up[c]
<1>1. Home[m.user] \in Sites /\ up \in [Clients -> Seq(Messages)]
  BY SitesAssumption DEF IInv, Types, Messages
<1>2. CASE Home[m.user] = Server
  BY <1>2 DEF Send
<1>3. CASE Home[m.user] # Server
  <2>1. Home[m.user] \in Clients
    BY <1>1, <1>3 DEF Clients
  <2> QED BY <1>1, <1>3, <2>1 DEF Send
<1> QED BY <1>2, <1>3

LEMMA SendContents ==
  ASSUME IInv, RInv, NEW m \in Messages, Send(m), issued' \in [Users -> Seq(Vectors)],
         Extends(issued, issued'), Carries(m, issued'), UNCHANGED <<buffer, forwarding>>
  PROVE  Origins' /\ Contents'
<1>1. /\ issued \in [Users -> Seq(Vectors)] /\ buffer \in [Sites -> SUBSET Buffers]
      /\ up \in [Clients -> Seq(Messages)] /\ down \in [Clients -> Seq(Messages)]
      /\ forwarding \in Seq(Messages) /\ m.user \in Users
  BY DEF IInv, Types, RInv, RTypes, Messages
<1>2. ASSUME NEW q \in Seq(Messages), NEW i \in 1 .. Len(q), Carries(q[i], issued)
      PROVE  Carries(q[i], issued')
  <2>1. q[i] \in Messages
    OBVIOUS
  <2> QED BY <1>1, <1>2, <2>1, CarriesStays
<1>3. ASSUME NEW c \in Clients, NEW i \in 1 .. Len(up'[c])
      PROVE  Home[up'[c][i].user] = c /\ Carries(up'[c][i], issued')
  <2>1. CASE up'[c] = up[c]
    BY <1>1, <1>2, <1>3, <2>1 DEF RInv, Origins, Contents
  <2>2. CASE up'[c] # up[c]
    <3>1. Home[m.user] = c /\ up'[c] = Append(up[c], m)
      BY <2>2, SendChannels
    <3>2. up'[c][i] = m \/ (i \in 1 .. Len(up[c]) /\ up'[c][i] = up[c][i])
      BY <1>1, <1>3, <3>1, Appended
    <3> QED BY <1>1, <1>2, <3>1, <3>2 DEF RInv, Origins, Contents
  <2> QED BY <2>1, <2>2
<1>4. ASSUME NEW c \in Clients, NEW i \in 1 .. Len(down'[c])
      PROVE  Home[down'[c][i].user] # c /\ Carries(down'[c][i], issued')
  <2>1. CASE down'[c] = down[c]
    BY <1>1, <1>2, <1>4, <2>1 DEF RInv, Origins, Contents
  <2>2. CASE down'[c] # down[c]
    <3>1. Home[m.user] = Server /\ down'[c] = Append(down[c], m) /\ c # Server
      BY <2>2, SendChannels DEF Clients
    <3>2. down'[c][i] = m \/ (i \in 1 .. Len(down[c]) /\ down'[c][i] = down[c][i])
      BY <1>1, <1>4, <3>1, Appended
    <3> QED BY <1>1, <1>2, <3>1, <3>2 DEF RInv, Origins, Contents
  <2> QED BY <2>1, <2>2
<1>5. forwarding' # <<>> => Len(forwarding') = 1 /\ Home[forwarding'[1].user] # Server
                            /\ Carries(forwarding'[1], issued')
  <2> SUFFICES ASSUME forwarding # <<>>
               PROVE  Len(forwarding) = 1 /\ Home[forwarding[1].user] # Server
                      /\ Carries(forwarding[1], issued')
    OBVIOUS
  <2>1. Len(forwarding) = 1 /\ Home[forwarding[1].user] # Server /\ Carries(forwarding[1], issued)
    BY DEF RInv, Origins, Contents
  <2>2. 1 \in 1 .. Len(forwarding)
    BY <2>1
  <2> QED BY <1>1, <1>2, <2>1, <2>2
<1>6. \A s \in Sites : \A r \in buffer'[s] : Carried(r, issued') /\ Home[r.user] # s
  <2> SUFFICES ASSUME NEW s \in Sites, NEW r \in buffer[s]
               PROVE  Carried(r, issued') /\ Home[r.user] # s
    OBVIOUS
  <2>1. r \in Buffers /\ Carried(r, issued) /\ Home[r.user] # s
    BY <1>1 DEF RInv, Contents
  <2> QED BY <1>1, <2>1, CarriedStays
<1>7. Origins'
  BY <1>3, <1>4, <1>5 DEF Origins
<1>8. Contents'
  BY <1>3, <1>4, <1>5, <1>6 DEF Contents
<1> QED BY <1>7, <1>8

(* What is sent continues the path from what every other site has received.  *)
LEMMA SendPaths ==
  ASSUME IInv, RInv, NEW m \in Messages, Send(m), UNCHANGED forwarding,
         m.diff = ToDiff(m.vector, last_send[m.user]), m.vector[m.user] = last_send[m.user][m.user],
         \A s \in Sites, w \in Users : Home[w] # s => vector'[s][w] = vector[s][w]
  PROVE  Paths'
<1> DEFINE u == m.user
           z == Target(m, m.vector)
<1>1. /\ up \in [Clients -> Seq(Messages)] /\ down \in [Clients -> Seq(Messages)]
      /\ last_send \in [Users -> Vectors] /\ u \in Users /\ m.vector \in Vectors
      /\ Server \in Sites /\ Clients \subseteq Sites /\ Server \notin Clients
      /\ \A w \in Users : Home[w] \in Sites
  BY SitesAssumption DEF IInv, Types, Messages, Clients
<1>2. z \in Vectors /\ last_send' = [last_send EXCEPT ![u] = z]
  BY <1>1, TargetGrows, SendChannels
<1>3. \A w \in Users : Link(m, w, last_send[w], last_send'[w]) /\ last_send'[w] \in Vectors
  BY <1>1, <1>2 DEF Link
<1>4. \A w \in Users \ {u} : last_send'[w] = last_send[w] /\ \A x : Link(m, w, x, x)
  BY <1>1, <1>2 DEF Link
<1>5. ASSUME NEW w \in Users, Home[w] = Server, NEW c \in Clients
      PROVE  Chain(down'[c], w, vector'[c][w], last_send'[w])
  <2>1. Chain(down[c], w, vector[c][w], last_send[w]) /\ vector'[c][w] = vector[c][w]
    BY <1>1, <1>5 DEF RInv, Paths
  <2>2. CASE Home[u] = Server
    <3>1. down'[c] = Append(down[c], m) /\ down[c] \in Seq(Messages)
      BY <1>1, <2>2, SendChannels
    <3> QED BY <1>3, <2>1, <3>1, ChainAppend
  <2>3. CASE Home[u] # Server
    <3>1. down'[c] = down[c] /\ w # u
      BY <1>5, <2>3, SendChannels
    <3> QED BY <1>4, <2>1, <3>1
  <2> QED BY <2>2, <2>3
<1>6. ASSUME NEW w \in Users, Home[w] # Server
      PROVE  Chain(up'[Home[w]], w, vector'[Server][w], last_send'[w])
  <2>1. Chain(up[Home[w]], w, vector[Server][w], last_send[w]) /\ vector'[Server][w] = vector[Server][w]
        /\ Home[w] \in Clients
    BY <1>1, <1>6 DEF RInv, Paths, Clients
  <2>2. CASE Home[u] = Home[w]
    <3>1. up'[Home[w]] = Append(up[Home[w]], m) /\ up[Home[w]] \in Seq(Messages)
      BY <1>1, <1>6, <2>1, <2>2, SendChannels
    <3> QED BY <1>3, <2>1, <3>1, ChainAppend
  <2>3. CASE Home[u] # Home[w]
    <3>1. up'[Home[w]] = up[Home[w]] /\ w # u
      BY <2>1, <2>3, SendChannels
    <3> QED BY <1>4, <2>1, <3>1
  <2> QED BY <2>2, <2>3
<1>7. ASSUME NEW w \in Users, Home[w] # Server, NEW c \in Clients \ {Home[w]}
      PROVE  PathFrom(w, c)'
  <2>1. /\ vector'[Server][w] = vector[Server][w] /\ vector'[c][w] = vector[c][w]
        /\ PathFrom(w, c)
    BY <1>1, <1>7 DEF RInv, Paths
  <2>2. PICK x \in Vectors : /\ Chain(down[c], w, vector[c][w], x)
                             /\ IF forwarding = <<>> THEN x = vector[Server][w]
                                ELSE Link(forwarding[1], w, x, vector[Server][w])
    BY <2>1 DEF PathFrom
  <2>3. Chain(down'[c], w, vector[c][w], x)
    <3>1. CASE Home[u] = Server
      <4>1. down'[c] = Append(down[c], m) /\ down[c] \in Seq(Messages) /\ w # u
        BY <1>1, <1>7, <3>1, SendChannels
      <4> QED BY <1>4, <2>2, <4>1, ChainAppend
    <3>2. CASE Home[u] # Server
      BY <2>2, <3>2, SendChannels
    <3> QED BY <3>1, <3>2
  <2> QED BY <2>1, <2>2, <2>3 DEF PathFrom
<1> QED BY <1>5, <1>6, <1>7 DEF Paths

-----------------------------------------------------------------------------
(* r is p followed by q.                                                     *)
Joins(r, p, q) ==
  /\ Len(r) = Len(p) + Len(q)
  /\ \A i \in 1 .. Len(p) : r[i] = p[i]
  /\ \A i \in 1 .. Len(q) : r[Len(p) + i] = q[i]

LEMMA Concatenated ==
  ASSUME NEW S, NEW p \in Seq(S), NEW q \in Seq(S)
  PROVE  p \o q \in Seq(S) /\ Joins(p \o q, p, q)
  BY DEF Joins

(* A site's state refers to nothing but requests that were made.             *)
LEMMA StateKnown ==
  ASSUME IInv, RInv, NEW s \in Sites
  PROVE  Known(current[s], issued)
<1> SUFFICES ASSUME NEW x \in Users PROVE current[s][x] <= Len(issued[x])
  BY DEF Known
<1>1. current[s] \in Vectors /\ vector[s] \in [Users -> Vectors] /\ issued[x] \in Seq(Vectors)
  BY DEF IInv, Types, RInv, RTypes
<1>2. CASE Home[x] = s
  <2>1. current[s][x] = Len(issued[x]) /\ Len(issued[x]) \in Nat
    BY <1>1, <1>2 DEF RInv, OwnTold
  <2> QED BY <2>1
<1>3. CASE Home[x] # s
  <2>1. current[s][x] <= vector[s][x][x] /\ vector[s][x][x] <= Len(issued[x])
    BY <1>3 DEF RInv, Arrived
  <2>2. current[s][x] \in Nat /\ vector[s][x][x] \in Nat /\ Len(issued[x]) \in Nat
    BY <1>1 DEF Vectors
  <2> QED BY <2>1, <2>2
<1> QED BY <1>2, <1>3

(* A request grows the state of its user's site by nothing that others have  *)
(* to wait for: what waits there waits for another user.                     *)
LEMMA LocalRequestReceives ==
  ASSUME IInv, RInv, NEW u \in Users, NEW n \in 1 .. MaxNum, LocalRequest(u, n)
  PROVE  RInv' /\ Broadcast!Issue(u)
<1> DEFINE s == Home[u]
           v == current[s]
           w == Add(v, u, n)
           m == Message(u, v, n, TRUE)
           new == [i \in 1 .. n |-> Add(v, u, i - 1)]
<1>1. s \in Sites /\ n \in Nat /\ n > 0 /\ v \in Vectors
  BY SitesAssumption DEF IInv, Types
<1>2. /\ current \in [Sites -> Vectors] /\ vector \in [Sites -> [Users -> Vectors]]
      /\ buffer \in [Sites -> SUBSET Buffers] /\ issued \in [Users -> Seq(Vectors)]
      /\ last_send \in [Users -> Vectors]
  BY DEF IInv, Types, RInv, RTypes
<1>3. w \in Vectors /\ CausallyBefore(v, w) /\ w[u] = v[u] + n
      /\ \A x \in Users \ {u} : w[x] = v[x]
  BY <1>1, AddGrows DEF Add, Vectors
<1>4. m \in Messages /\ m.user = u /\ m.vector = v /\ m.num = n /\ m.affects
      /\ m.diff = ToDiff(v, last_send[u]) /\ Target(m, m.vector) = w
  <2>1. m \in Messages
    BY <1>1, MessageType DEF IInv
  <2> QED BY <2>1 DEF Message, Target
<1>5. /\ Send(m) /\ UNCHANGED <<buffer, forwarding>> /\ current' = [current EXCEPT ![s] = w]
      /\ issued' = [issued EXCEPT ![u] = @ \o new]
      /\ vector' = [vector EXCEPT ![s] = UpdateLocalTimes(s, @, current'[s])]
  BY DEF LocalRequest
<1> HIDE DEF m
<1>6. v[u] = Len(issued[u]) /\ last_send[u][u] = Len(issued[u]) /\ v[u] \in Nat
  BY <1>1 DEF RInv, OwnTold, Vectors
<1>7. new \in Seq(Vectors) /\ Len(new) = n /\ \A i \in 1 .. n : new[i] = Add(v, u, i - 1)
  <2>1. \A i \in 1 .. n : Add(v, u, i - 1) \in Vectors
    <3> TAKE i \in 1 .. n
    <3>1. i - 1 \in Nat
      OBVIOUS
    <3> QED BY <1>1, <3>1, AddGrows
  <2>2. new \in [1 .. n -> Vectors]
    BY <2>1
  <2>3. new \in Seq(Vectors)
    BY <1>1, <2>2
  <2>4. DOMAIN new = 1 .. n
    OBVIOUS
  <2>5. Len(new) = n
    BY <1>1, <2>3, <2>4
  <2> QED BY <2>3, <2>5
<1> HIDE DEF new
<1>8. /\ issued' \in [Users -> Seq(Vectors)] /\ \A x \in Users \ {u} : issued'[x] = issued[x]
      /\ Len(issued'[u]) = v[u] + n
      /\ \A i \in 1 .. v[u] : issued'[u][i] = issued[u][i]
      /\ \A i \in 1 .. n : issued'[u][v[u] + i] = Add(v, u, i - 1)
  <2>1. issued[u] \in Seq(Vectors) /\ issued'[u] = issued[u] \o new
    BY <1>2, <1>5
  <2>2. issued[u] \o new \in Seq(Vectors) /\ Joins(issued'[u], issued[u], new)
    BY <1>7, <2>1, Concatenated
  <2>6. \A x \in Users \ {u} : issued'[x] = issued[x]
    BY <1>2, <1>5
  <2>7. issued' \in [Users -> Seq(Vectors)]
    BY <1>2, <1>5, <2>2
  <2> QED BY <1>6, <1>7, <2>2, <2>6, <2>7 DEF Joins
<1>9. Extends(issued, issued')
  <2> SUFFICES ASSUME NEW x \in Users
               PROVE  /\ Len(issued[x]) <= Len(issued'[x])
                      /\ \A i \in 1 .. Len(issued[x]) : issued'[x][i] = issued[x][i]
    BY DEF Extends
  <2>1. CASE x = u
    BY <1>1, <1>6, <1>8, <2>1
  <2>2. CASE x # u
    <3>1. Len(issued[x]) \in Nat
      BY <1>2
    <3> QED BY <1>8, <2>2, <3>1
  <2> QED BY <2>1, <2>2
<1>10. /\ current' \in [Sites -> Vectors] /\ current'[s] = w
       /\ \A r \in Sites \ {s} : current'[r] = current[r]
  BY <1>1, <1>2, <1>3, <1>5
<1>11. vector' \in [Sites -> [Users -> Vectors]]
       /\ \A r \in Sites, x \in Users : Home[x] # r => vector'[r][x] = vector[r][x]
  <2>1. UpdateLocalTimes(s, vector[s], w) \in [Users -> Vectors]
        /\ \A x \in Users : Home[x] # s => UpdateLocalTimes(s, vector[s], w)[x] = vector[s][x]
    BY <1>1, <1>2, <1>3 DEF UpdateLocalTimes
  <2> QED BY <1>1, <1>2, <1>5, <1>10, <2>1
<1>12. RTypes'
  BY <1>2, <1>5, <1>8, <1>11 DEF RTypes
<1>13. last_send' = [last_send EXCEPT ![u] = w]
  BY <1>4, <1>5, SendChannels
<1>14. OwnTold'
  <2> SUFFICES ASSUME NEW x \in Users
               PROVE  current'[Home[x]][x] = Len(issued'[x]) /\ last_send'[x][x] = Len(issued'[x])
    BY DEF OwnTold
  <2>1. Home[x] \in Sites /\ current[Home[x]][x] = Len(issued[x]) /\ last_send[x][x] = Len(issued[x])
    BY SitesAssumption DEF RInv, OwnTold
  <2>2. CASE x = u
    BY <1>2, <1>3, <1>8, <1>10, <1>13, <2>2
  <2>3. CASE x # u
    <3>1. issued'[x] = issued[x] /\ last_send'[x] = last_send[x]
      BY <1>2, <1>8, <1>13, <2>3
    <3>2. current'[Home[x]][x] = current[Home[x]][x]
      BY <1>3, <1>10, <2>1, <2>3
    <3> QED BY <2>1, <3>1, <3>2
  <2> QED BY <2>2, <2>3
<1>15. \A r \in Sites, x \in Users : Home[x] # r => current'[r][x] = current[r][x]
  BY <1>3, <1>10
<1>16. Known(v, issued)
  BY <1>1, StateKnown
<1>17. Carries(m, issued')
  <2>1. Known(v, issued')
    BY <1>1, <1>2, <1>8, <1>9, <1>16, KnownStays
  <2>2. \A i \in 1 .. n : v[u] + i <= Len(issued'[u]) /\ issued'[u][v[u] + i] = Add(v, u, i - 1)
    BY <1>1, <1>6, <1>8
  <2> QED BY <1>4, <2>1, <2>2 DEF Carries
<1>18. Origins' /\ Contents'
  BY <1>4, <1>5, <1>8, <1>9, <1>17, SendContents
<1>19. Paths'
  BY <1>4, <1>5, <1>6, <1>11, SendPaths
<1>20. Arrived'
  <2> SUFFICES ASSUME NEW r \in Sites, NEW x \in Users, Home[x] # r
               PROVE  /\ current'[r][x] <= vector'[r][x][x] /\ vector'[r][x][x] <= Len(issued'[x])
                      /\ Numbers(buffer'[r], x) = current'[r][x] .. vector'[r][x][x] - 1
    BY DEF Arrived
  <2>1. /\ current[r][x] <= vector[r][x][x] /\ vector[r][x][x] <= Len(issued[x])
        /\ Numbers(buffer[r], x) = current[r][x] .. vector[r][x][x] - 1
    BY DEF RInv, Arrived
  <2>2. Len(issued[x]) <= Len(issued'[x]) /\ Len(issued[x]) \in Nat /\ Len(issued'[x]) \in Nat
        /\ vector[r][x][x] \in Nat
    <3>1. issued[x] \in Seq(Vectors) /\ issued'[x] \in Seq(Vectors) /\ vector[r][x] \in Vectors
      BY <1>2, <1>8
    <3> QED BY <1>9, <3>1 DEF Extends, Vectors
  <2>3. current'[r][x] = current[r][x] /\ vector'[r][x] = vector[r][x] /\ buffer'[r] = buffer[r]
    BY <1>5, <1>11, <1>15
  <2> QED BY <2>1, <2>2, <2>3
<1>21. Causal'
  <2> SUFFICES ASSUME NEW r \in Sites, NEW x \in Users, NEW i \in 1 .. current'[r][x]
               PROVE  CausallyBefore(issued'[x][i], current'[r])
    BY DEF Causal
  <2>1. /\ current[r][x] \in Nat /\ Len(issued[x]) \in Nat
        /\ current[r][x] <= Len(issued[x])
    <3>1. CASE Home[x] = r
      BY <1>2, <3>1 DEF RInv, OwnTold, Vectors
    <3>2. CASE Home[x] # r
      <4>1. current[r][x] <= vector[r][x][x] /\ vector[r][x][x] <= Len(issued[x])
        BY <3>2 DEF RInv, Arrived
      <4>2. current[r][x] \in Nat /\ vector[r][x][x] \in Nat /\ Len(issued[x]) \in Nat
        BY <1>2 DEF Vectors
      <4> QED BY <4>1, <4>2
    <3> QED BY <3>1, <3>2
  <2>2. CASE i \in 1 .. current[r][x]
    <3>1. CausallyBefore(issued[x][i], current[r]) /\ i \in 1 .. Len(issued[x])
      BY <2>1, <2>2 DEF RInv, Causal
    <3>2. issued'[x][i] = issued[x][i] /\ issued[x][i] \in Vectors
      BY <1>2, <1>9, <3>1 DEF Extends
    <3>3. CASE r = s
      BY <1>1, <1>3, <1>10, <3>1, <3>2, <3>3, BeforeTransitive
    <3>4. CASE r # s
      BY <1>10, <3>1, <3>2, <3>4
    <3> QED BY <3>3, <3>4
  <2>3. CASE i \notin 1 .. current[r][x]
    <3>1. r = s /\ x = u
      BY <1>3, <1>10, <2>3
    <3>2. i - v[u] \in 1 .. n /\ v[u] + (i - v[u]) = i
      BY <1>1, <1>3, <1>6, <1>10, <2>3, <3>1
    <3>3. issued'[u][i] = Add(v, u, (i - v[u]) - 1)
      BY <1>8, <3>2
    <3>4. (i - v[u]) - 1 \in Nat /\ (i - v[u]) - 1 <= n
      BY <1>1, <3>2
    <3> DEFINE k == (i - v[u]) - 1
    <3> HIDE DEF k
    <3>5. Add(v, u, k) \in Vectors /\ Add(v, u, k)[u] = v[u] + k
          /\ \A y \in Users \ {u} : Add(v, u, k)[y] = v[y]
      BY <1>1, <3>4, AddGrows DEF Add, Vectors, k
    <3>6. k \in Nat /\ k <= n
      BY <3>4 DEF k
    <3>7. ASSUME NEW y \in Users PROVE Add(v, u, k)[y] <= w[y]
      <4>1. CASE y = u
        BY <1>1, <1>3, <1>6, <3>5, <3>6, <4>1
      <4>2. CASE y # u
        BY <1>1, <1>3, <3>5, <4>2 DEF Vectors
      <4> QED BY <4>1, <4>2
    <3>8. CausallyBefore(Add(v, u, k), w)
      BY <3>5, <3>7 DEF CausallyBefore, Vectors
    <3> QED BY <1>10, <3>1, <3>3, <3>8 DEF k
  <2> QED BY <2>2, <2>3
<1>22. BufferWaits'
  <2> SUFFICES ASSUME NEW r \in Sites, NEW q \in buffer[r], CausallyBefore(q.vector, current'[r])
               PROVE  FALSE
    BY <1>5 DEF BufferWaits
  <2>1. q \in Buffers /\ Carried(q, issued) /\ ~CausallyBefore(q.vector, current[r])
    BY <1>2 DEF RInv, Contents, BufferWaits
  <2>2. q.vector \in Vectors
    BY <2>1 DEF Buffers
  <2>3. \A x \in Users : q.vector[x] <= current'[r][x]
    BY <2>2 DEF CausallyBefore, Vectors
  <2>4. PICK x \in Users : ~(q.vector[x] <= current[r][x])
    BY <2>1, <2>2 DEF CausallyBefore, Vectors
  <2>5. Home[x] = r
    BY <1>15, <2>3, <2>4
  <2>6. q.vector[x] <= Len(issued[x]) /\ current[r][x] = Len(issued[x])
    BY <2>1, <2>5 DEF Carried, Known, RInv, OwnTold
  <2> QED BY <2>4, <2>6
<1>23. RInv'
  BY <1>12, <1>14, <1>18, <1>19, <1>20, <1>21, <1>22 DEF RInv
<1>24. Broadcast!Issue(u)
  <2>1. Len(issued'[u]) - Len(issued[u]) = n
    BY <1>1, <1>6, <1>8
  <2> QED BY <1>1, <1>5, <2>1 DEF Broadcast!Issue, Broadcast!Add, Add, new
<1> QED BY <1>23, <1>24

(* A no-operation is sent, and nothing is executed.                          *)
LEMMA NoopTimeoutReceives ==
  ASSUME IInv, RInv, NEW s \in Sites, NoopTimeout(s)
  PROVE  RInv'
<1> DEFINE u == timer[s].next
           v == current[s]
           m == Message(u, v, 1, FALSE)
<1>1. u \in Users /\ Home[u] = s
  BY DEF NoopTimeout, IInv, Types, TimerRuns, OnlyLocalWait, Local
<1>2. v \in Vectors /\ last_send \in [Users -> Vectors] /\ issued \in [Users -> Seq(Vectors)]
  BY DEF IInv, Types, RInv, RTypes
<1>3. Send(m) /\ UNCHANGED <<current, vector, buffer, forwarding, issued>>
  BY DEF NoopTimeout
<1> HIDE DEF u
<1>4. m \in Messages /\ m.user = u /\ m.vector = v /\ m.num = 1 /\ ~m.affects
      /\ m.diff = ToDiff(v, last_send[u]) /\ Target(m, m.vector) = v
  <2>1. m \in Messages
    BY <1>1, <1>2, MessageType DEF IInv
  <2> QED BY <2>1 DEF Message, Target
<1> HIDE DEF m
<1>5. v[u] = Len(issued[u]) /\ last_send[u][u] = Len(issued[u])
  BY <1>1 DEF RInv, OwnTold
<1>6. Extends(issued, issued') /\ issued' \in [Users -> Seq(Vectors)]
  <2>1. \A x \in Users : Len(issued[x]) \in Nat
    BY <1>2
  <2> QED BY <1>2, <1>3, <2>1 DEF Extends
<1>7. Carries(m, issued')
  BY <1>3, <1>4, StateKnown DEF Carries
<1>8. Origins' /\ Contents'
  BY <1>3, <1>4, <1>6, <1>7, SendContents
<1>9. Paths'
  BY <1>3, <1>4, <1>5, SendPaths
<1>10. last_send' = [last_send EXCEPT ![u] = v]
  BY <1>3, <1>4, SendChannels
<1>11. OwnTold'
  <2> SUFFICES ASSUME NEW x \in Users
               PROVE  current[Home[x]][x] = Len(issued[x]) /\ last_send'[x][x] = Len(issued[x])
    BY <1>3 DEF OwnTold
  <2>1. current[Home[x]][x] = Len(issued[x]) /\ last_send[x][x] = Len(issued[x])
    BY DEF RInv, OwnTold
  <2>2. CASE x = u
    BY <1>1, <1>2, <1>5, <1>10, <2>1, <2>2
  <2>3. CASE x # u
    BY <1>2, <1>10, <2>1, <2>3
  <2> QED BY <2>2, <2>3
<1>12. RTypes' /\ Arrived' /\ Causal' /\ BufferWaits'
  BY <1>3 DEF RInv, RTypes, Arrived, Causal, BufferWaits
<1> QED BY <1>8, <1>9, <1>11, <1>12 DEF RInv

(* The first message of a channel continues what its receiver knows.         *)
LEMMA HeadArrives ==
  ASSUME IInv, RInv, NEW s \in Sites, NEW m \in Messages, Home[m.user] # s, Carries(m, issued),
         NEW z, Link(m, m.user, vector[s][m.user], z)
  PROVE  Arrives(s, m) /\ FromDiff(m.diff, vector[s][m.user]) = m.vector /\ z = Target(m, m.vector)
<1>1. vector[s][m.user] \in Vectors
  BY DEF RInv, RTypes, Messages
<1> QED BY <1>1, LinkDecodes DEF Arrives

LEMMA ReceiveAtClientReceives ==
  ASSUME IInv, RInv, NEW c \in Clients, ReceiveAtClient(c)
  PROVE  RInv' /\ Broadcast!Deliver(c)
<1> DEFINE m == Head(down[c])
           u == m.user
<1>1. /\ down[c] \in Seq(Messages) /\ down[c] # <<>> /\ Process(c, m)
      /\ down' = [down EXCEPT ![c] = Tail(@)] /\ UNCHANGED <<up, forwarding>>
      /\ c \in Sites /\ c # Server /\ down \in [Clients -> Seq(Messages)]
  BY DEF ReceiveAtClient, IInv, Types, Clients
<1>2. /\ m = down[c][1] /\ 1 \in 1 .. Len(down[c]) /\ m \in Messages
      /\ Tail(down[c]) \in Seq(Messages)
      /\ \A i \in 1 .. Len(Tail(down[c])) :
           i + 1 \in 1 .. Len(down[c]) /\ Tail(down[c])[i] = down[c][i + 1]
  BY <1>1, Taken
<1>3. u \in Users /\ Home[u] # c /\ Home[u] \in Sites /\ Carries(m, issued)
  BY <1>2, SitesAssumption DEF Messages, RInv, Origins, Contents
<1> HIDE DEF m
<1>4. PICK q \in Vectors : Chain(down[c], u, vector[c][u], q)
  <2>1. CASE Home[u] = Server
    <3>1. Chain(down[c], u, vector[c][u], last_send[u])
      BY <1>3, <2>1 DEF RInv, Paths
    <3> QED BY <1>1, <3>1, ChainVectors
  <2>2. CASE Home[u] # Server
    BY <1>3, <2>2 DEF RInv, Paths, PathFrom
  <2> QED BY <2>1, <2>2
<1>5. PICK z \in Vectors : Link(m, u, vector[c][u], z)
  BY <1>1, <1>3, <1>4, ChainTail DEF m
<1>6. Arrives(c, m) /\ FromDiff(m.diff, vector[c][u]) = m.vector
  BY <1>1, <1>2, <1>3, <1>5, HeadArrives
<1>7. /\ RTypes' /\ OwnTold' /\ Arrived' /\ Causal' /\ BufferWaits'
      /\ \A r \in Sites : \A p \in buffer'[r] : Carried(p, issued) /\ Home[p.user] # r
      /\ \A r \in Sites, w \in Users : Home[w] # r =>
           vector'[r][w] = IF r = c /\ w = u THEN Target(m, m.vector) ELSE vector[r][w]
      /\ UNCHANGED <<issued, last_send>>
      /\ Broadcast!Deliver(c)
  BY <1>1, <1>6, ProcessReceives
<1>8. down'[c] = Tail(down[c]) /\ \A e \in Clients \ {c} : down'[e] = down[e]
  BY <1>1
<1>9. Origins'
  BY <1>1, <1>2, <1>8 DEF RInv, Origins
<1>10. Contents'
  BY <1>1, <1>2, <1>7, <1>8 DEF RInv, Contents
<1>11. ASSUME NEW w \in Users, Home[w] # c, NEW y, Chain(down[c], w, vector[c][w], y)
       PROVE  Chain(down'[c], w, vector'[c][w], y)
  <2>1. PICK x \in Vectors : Link(m, w, vector[c][w], x) /\ Chain(Tail(down[c]), w, x, y)
    BY <1>1, <1>11, ChainTail DEF m
  <2>2. x = vector'[c][w]
    <3>1. CASE w = u
      <4>1. x = Target(m, m.vector)
        BY <2>1, <3>1 DEF Link
      <4> QED BY <1>1, <1>3, <1>7, <3>1, <4>1
    <3>2. CASE w # u
      <4>1. x = vector[c][w]
        BY <2>1, <3>2 DEF Link
      <4> QED BY <1>1, <1>7, <1>11, <3>2, <4>1
    <3> QED BY <3>1, <3>2
  <2> QED BY <1>8, <2>1, <2>2
<1>12. ASSUME NEW w \in Users, NEW e \in Clients, Home[w] # e, NEW y, Chain(down[e], w, vector[e][w], y)
       PROVE  Chain(down'[e], w, vector'[e][w], y)
  <2>1. CASE e = c
    BY <1>11, <1>12, <2>1
  <2>2. CASE e # c
    <3>1. down'[e] = down[e] /\ vector'[e][w] = vector[e][w]
      BY <1>7, <1>8, <1>12, <2>2 DEF Clients
    <3> QED BY <1>12, <3>1
  <2> QED BY <2>1, <2>2
<1>13. Paths'
  <2>1. ASSUME NEW w \in Users, Home[w] = Server, NEW e \in Clients
        PROVE  Chain(down'[e], w, vector'[e][w], last_send'[w])
    <3>1. Chain(down[e], w, vector[e][w], last_send[w]) /\ Home[w] # e
      BY <2>1 DEF RInv, Paths, Clients
    <3> QED BY <1>7, <1>12, <3>1
  <2>2. ASSUME NEW w \in Users, Home[w] # Server
        PROVE  /\ Chain(up'[Home[w]], w, vector'[Server][w], last_send'[w])
               /\ vector'[Server][w] = vector[Server][w]
    <3>1. vector'[Server][w] = vector[Server][w]
      BY <1>1, <1>7, <2>2, SitesAssumption
    <3> QED BY <1>1, <1>7, <2>2, <3>1 DEF RInv, Paths
  <2>3. ASSUME NEW w \in Users, Home[w] # Server, NEW e \in Clients \ {Home[w]}
        PROVE  PathFrom(w, e)'
    <3>1. PICK x \in Vectors : /\ Chain(down[e], w, vector[e][w], x)
                               /\ IF forwarding = <<>> THEN x = vector[Server][w]
                                  ELSE Link(forwarding[1], w, x, vector[Server][w])
      BY <2>3 DEF RInv, Paths, PathFrom
    <3>2. Chain(down'[e], w, vector'[e][w], x)
      BY <1>12, <2>3, <3>1
    <3> QED BY <1>1, <2>2, <2>3, <3>1, <3>2 DEF PathFrom
  <2> QED BY <2>1, <2>2, <2>3 DEF Paths
<1> QED BY <1>7, <1>9, <1>10, <1>13 DEF RInv

LEMMA ReceiveAtServerReceives ==
  ASSUME IInv, RInv, NEW c \in Clients, ReceiveAtServer(c)
  PROVE  RInv' /\ Broadcast!Deliver(Server)
<1> DEFINE m == Head(up[c])
           u == m.user
<1>1. /\ up[c] \in Seq(Messages) /\ up[c] # <<>> /\ Process(Server, m)
      /\ up' = [up EXCEPT ![c] = Tail(@)] /\ forwarding = <<>> /\ forwarding' = <<m>>
      /\ UNCHANGED down
      /\ c \in Sites /\ c # Server /\ Server \in Sites /\ up \in [Clients -> Seq(Messages)]
  BY SitesAssumption DEF ReceiveAtServer, IInv, Types, Clients
<1>2. /\ m = up[c][1] /\ 1 \in 1 .. Len(up[c]) /\ m \in Messages
      /\ Tail(up[c]) \in Seq(Messages)
      /\ \A i \in 1 .. Len(Tail(up[c])) : i + 1 \in 1 .. Len(up[c]) /\ Tail(up[c])[i] = up[c][i + 1]
  BY <1>1, Taken
<1>3. u \in Users /\ Home[u] = c /\ Carries(m, issued)
  BY <1>2 DEF Messages, RInv, Origins, Contents
<1> HIDE DEF m
<1>4. PICK z \in Vectors : Link(m, u, vector[Server][u], z)
  <2>1. Chain(up[c], u, vector[Server][u], last_send[u])
    BY <1>1, <1>3 DEF RInv, Paths
  <2> QED BY <1>1, <1>3, <2>1, ChainTail DEF m
<1>5. /\ Arrives(Server, m) /\ FromDiff(m.diff, vector[Server][u]) = m.vector
      /\ z = Target(m, m.vector)
  BY <1>1, <1>2, <1>3, <1>4, HeadArrives
<1>6. /\ RTypes' /\ OwnTold' /\ Arrived' /\ Causal' /\ BufferWaits'
      /\ \A r \in Sites : \A p \in buffer'[r] : Carried(p, issued) /\ Home[p.user] # r
      /\ \A r \in Sites, w \in Users : Home[w] # r =>
           vector'[r][w] = IF r = Server /\ w = u THEN Target(m, m.vector) ELSE vector[r][w]
      /\ UNCHANGED <<issued, last_send>>
      /\ Broadcast!Deliver(Server)
  BY <1>1, <1>5, ProcessReceives
<1>7. up'[c] = Tail(up[c]) /\ \A e \in Clients \ {c} : up'[e] = up[e]
  BY <1>1
<1>8. forwarding' # <<>> /\ Len(forwarding') = 1 /\ forwarding'[1] = m
  BY <1>1
<1>9. Origins'
  <2>1. ASSUME NEW e \in Clients
        PROVE  \A i \in 1 .. Len(up'[e]) : Home[up'[e][i].user] = e
    <3>1. \A i \in 1 .. Len(up[e]) : Home[up[e][i].user] = e
      BY DEF RInv, Origins
    <3>2. CASE e = c
      <4> DEFINE rest == Tail(up[c])
      <4>1. up'[e] = rest
        BY <1>7, <3>2
      <4>2. \A i \in 1 .. Len(rest) : Home[rest[i].user] = e
        BY <1>2, <3>1, <3>2
      <4> HIDE DEF rest
      <4> QED BY <4>1, <4>2
    <3>3. CASE e # c
      BY <1>7, <3>1, <3>3
    <3> QED BY <3>2, <3>3
  <2>2. \A e \in Clients : \A i \in 1 .. Len(down'[e]) : Home[down'[e][i].user] # e
    BY <1>1 DEF RInv, Origins
  <2>3. Len(forwarding') = 1 /\ Home[forwarding'[1].user] # Server
    BY <1>1, <1>3, <1>8
  <2> QED BY <2>1, <2>2, <2>3 DEF Origins
<1>10. Contents'
  BY <1>1, <1>2, <1>3, <1>6, <1>7, <1>8 DEF RInv, Contents
<1>11. \A w \in Users : Home[w] # Server => Link(m, w, vector[Server][w], vector'[Server][w])
  BY <1>1, <1>4, <1>5, <1>6 DEF Link
<1>12. \A e \in Clients, w \in Users : Home[w] # e => vector'[e][w] = vector[e][w]
  BY <1>6 DEF Clients
<1>13. Paths'
  <2>1. ASSUME NEW w \in Users, Home[w] = Server, NEW e \in Clients
        PROVE  Chain(down'[e], w, vector'[e][w], last_send'[w])
    BY <1>1, <1>6, <1>12, <2>1 DEF RInv, Paths, Clients
  <2>2. ASSUME NEW w \in Users, Home[w] # Server
        PROVE  Chain(up'[Home[w]], w, vector'[Server][w], last_send'[w])
    <3>1. Chain(up[Home[w]], w, vector[Server][w], last_send[w]) /\ last_send'[w] = last_send[w]
          /\ Home[w] \in Clients
      BY <1>6, <2>2, SitesAssumption DEF RInv, Paths, Clients
    <3>2. CASE Home[w] = c
      <4>1. PICK x \in Vectors :
              Link(m, w, vector[Server][w], x) /\ Chain(Tail(up[c]), w, x, last_send[w])
        BY <1>1, <3>1, <3>2, ChainTail DEF m
      <4>2. x = vector'[Server][w]
        BY <1>11, <2>2, <4>1 DEF Link
      <4> QED BY <1>7, <3>1, <3>2, <4>1, <4>2
    <3>3. CASE Home[w] # c
      <4>1. up'[Home[w]] = up[Home[w]] /\ w # u
        BY <1>3, <1>7, <3>1, <3>3
      <4>2. vector'[Server][w] = vector[Server][w]
        BY <1>1, <1>6, <2>2, <4>1
      <4> QED BY <3>1, <4>1, <4>2
    <3> QED BY <3>2, <3>3
  <2>3. ASSUME NEW w \in Users, Home[w] # Server, NEW e \in Clients \ {Home[w]}
        PROVE  PathFrom(w, e)'
    <3>1. PICK x \in Vectors : Chain(down[e], w, vector[e][w], x) /\ x = vector[Server][w]
      BY <1>1, <2>3 DEF RInv, Paths, PathFrom
    <3>2. Chain(down'[e], w, vector'[e][w], x)
      BY <1>1, <1>12, <2>3, <3>1
    <3>3. Link(forwarding'[1], w, x, vector'[Server][w])
      BY <1>8, <1>11, <2>3, <3>1
    <3> QED BY <1>8, <3>2, <3>3 DEF PathFrom
  <2> QED BY <2>1, <2>2, <2>3 DEF Paths
<1> QED BY <1>6, <1>9, <1>10, <1>13 DEF RInv

(* What is forwarded continues the way to the other clients.                 *)
LEMMA ForwardReceives ==
  ASSUME IInv, RInv, Forward
  PROVE  RInv'
<1> DEFINE m == forwarding[1]
           u == m.user
<1>1. /\ forwarding # <<>> /\ forwarding' = <<>>
      /\ down' = [c \in Clients |-> IF c = Home[u] THEN down[c] ELSE Append(down[c], m)]
      /\ UNCHANGED <<current, vector, buffer, last_send, up, issued>>
  <2>1. Head(forwarding) = forwarding[1]
    BY DEF Forward, IInv, Types
  <2> QED BY <2>1 DEF Forward
<1>2. m \in Messages /\ u \in Users /\ Home[u] # Server /\ Carries(m, issued)
  <2>1. forwarding \in Seq(Messages) /\ Len(forwarding) = 1
    BY <1>1 DEF IInv, Types, RInv, Origins
  <2>2. m \in Messages
    BY <2>1
  <2> QED BY <1>1, <2>2 DEF RInv, Origins, Contents, Messages
<1>3. up \in [Clients -> Seq(Messages)] /\ down \in [Clients -> Seq(Messages)]
  BY DEF IInv, Types
<1> HIDE DEF m
<1>4. ASSUME NEW c \in Clients, NEW i \in 1 .. Len(down'[c])
      PROVE  Home[down'[c][i].user] # c /\ Carries(down'[c][i], issued)
  <2>1. CASE c = Home[u]
    BY <1>1, <1>4, <2>1 DEF RInv, Origins, Contents
  <2>2. CASE c # Home[u]
    <3>1. down'[c] = Append(down[c], m) /\ down[c] \in Seq(Messages)
      BY <1>1, <1>3, <2>2
    <3>2. down'[c][i] = m \/ (i \in 1 .. Len(down[c]) /\ down'[c][i] = down[c][i])
      BY <1>2, <1>4, <3>1, Appended
    <3> QED BY <1>2, <2>2, <3>2 DEF RInv, Origins, Contents
  <2> QED BY <2>1, <2>2
<1>5. Origins'
  BY <1>1, <1>4 DEF RInv, Origins
<1>6. Contents'
  BY <1>1, <1>4 DEF RInv, Contents
<1>7. ASSUME NEW w \in Users, NEW c \in Clients, NEW y \in Vectors, NEW z \in Vectors,
             Chain(down[c], w, vector[c][w], y),
             IF c = Home[u] THEN z = y ELSE Link(m, w, y, z)
      PROVE  Chain(down'[c], w, vector[c][w], z)
  <2>1. CASE c = Home[u]
    BY <1>1, <1>7, <2>1
  <2>2. CASE c # Home[u]
    <3>1. down'[c] = Append(down[c], m) /\ down[c] \in Seq(Messages)
      BY <1>1, <1>3, <2>2
    <3> QED BY <1>2, <1>7, <2>2, <3>1, ChainAppend
  <2> QED BY <2>1, <2>2
<1>8. Paths'
  <2>1. ASSUME NEW w \in Users, Home[w] = Server, NEW c \in Clients
        PROVE  Chain(down'[c], w, vector[c][w], last_send[w])
    <3>1. Chain(down[c], w, vector[c][w], last_send[w]) /\ last_send[w] \in Vectors
      BY <2>1 DEF RInv, Paths, IInv, Types
    <3>2. Link(m, w, last_send[w], last_send[w])
      BY <1>2, <2>1 DEF Link
    <3> QED BY <1>7, <3>1, <3>2
  <2>2. ASSUME NEW w \in Users, Home[w] # Server, NEW c \in Clients \ {Home[w]}
        PROVE  Chain(down'[c], w, vector[c][w], vector[Server][w]) /\ vector[Server][w] \in Vectors
    <3>1. PICK x \in Vectors : /\ Chain(down[c], w, vector[c][w], x)
                               /\ Link(m, w, x, vector[Server][w])
      BY <1>1, <2>2 DEF RInv, Paths, PathFrom, m
    <3>2. vector[Server][w] \in Vectors
      BY SitesAssumption DEF RInv, RTypes
    <3>3. c = Home[u] => vector[Server][w] = x
      BY <2>2, <3>1 DEF Link
    <3> QED BY <1>7, <3>1, <3>2, <3>3
  <2>3. ASSUME NEW w \in Users, Home[w] # Server, NEW c \in Clients \ {Home[w]}
        PROVE  PathFrom(w, c)'
    BY <1>1, <2>2, <2>3 DEF PathFrom
  <2>4. \A w \in Users : Home[w] # Server => Chain(up[Home[w]], w, vector[Server][w], last_send[w])
    BY DEF RInv, Paths
  <2> QED BY <1>1, <2>1, <2>3, <2>4 DEF Paths
<1>9. RTypes' /\ OwnTold' /\ Arrived' /\ Causal' /\ BufferWaits'
  BY <1>1 DEF RInv, RTypes, OwnTold, Arrived, Causal, BufferWaits
<1> QED BY <1>5, <1>6, <1>8, <1>9 DEF RInv

-----------------------------------------------------------------------------
LEMMA ReceptionInit == Init => RInv /\ Broadcast!BroadcastInit
<1> SUFFICES ASSUME Init PROVE RInv /\ Broadcast!BroadcastInit
  OBVIOUS
<1>1. Zero \in Vectors /\ \A u \in Users : Zero[u] = 0
  BY DEF Zero, Vectors
<1>2. /\ \A s \in Sites : current[s] = Zero /\ buffer[s] = {} /\ \A u \in Users : vector[s][u] = Zero
      /\ \A u \in Users : last_send[u] = Zero /\ issued[u] = <<>>
      /\ \A c \in Clients : up[c] = <<>> /\ down[c] = <<>>
      /\ forwarding = <<>> /\ Server \in Sites /\ Clients \subseteq Sites
      /\ \A u \in Users : Home[u] \in Sites
  BY SitesAssumption DEF Init, Clients
<1>3. RTypes
  BY <1>1 DEF Init, RTypes
<1>4. OwnTold
  BY <1>1, <1>2 DEF OwnTold
<1>5. Origins /\ Contents /\ BufferWaits
  BY <1>2 DEF Origins, Contents, BufferWaits
<1>6. \A u \in Users : Chain(<<>>, u, Zero, Zero)
  BY <1>1, ChainEmpty
<1>7. \A u \in Users, c \in Clients : Chain(down[c], u, vector[c][u], Zero)
  BY <1>2, <1>6
<1>8. Paths
  <2>1. \A u \in Users, c \in Clients : PathFrom(u, c)
    BY <1>1, <1>2, <1>7 DEF PathFrom
  <2>2. \A u \in Users : Home[u] # Server => Chain(up[Home[u]], u, vector[Server][u], last_send[u])
    BY <1>2, <1>6 DEF Clients
  <2>3. \A u \in Users, c \in Clients : Chain(down[c], u, vector[c][u], last_send[u])
    BY <1>2, <1>7
  <2> QED BY <2>1, <2>2, <2>3 DEF Paths
<1>9. Arrived
  BY <1>1, <1>2 DEF Arrived, Numbers, Of
<1>10. Causal
  BY <1>1, <1>2 DEF Causal
<1>11. Broadcast!BroadcastInit
  BY DEF Init, Zero, Broadcast!BroadcastInit
<1> QED BY <1>3, <1>4, <1>5, <1>8, <1>9, <1>10, <1>11 DEF RInv

(* Every step preserves the invariant, and is a step of the broadcast.       *)
LEMMA ReceptionNext ==
  IInv /\ RInv /\ [Next]_vars => RInv' /\ [Broadcast!BroadcastNext]_(Broadcast!bvars)
<1> SUFFICES ASSUME IInv, RInv, [Next]_vars
             PROVE  RInv' /\ [Broadcast!BroadcastNext]_(Broadcast!bvars)
  OBVIOUS
<1>1. ASSUME NEW u \in Users, NEW n \in 1 .. MaxNum, LocalRequest(u, n)
      PROVE  RInv' /\ Broadcast!BroadcastNext
  BY <1>1, LocalRequestReceives DEF Broadcast!BroadcastNext
<1>2. ASSUME NEW s \in Sites, NoopTimeout(s)
      PROVE  RInv' /\ UNCHANGED Broadcast!bvars
  BY <1>2, NoopTimeoutReceives DEF NoopTimeout, Broadcast!bvars
<1>3. ASSUME NEW c \in Clients, ReceiveAtClient(c)
      PROVE  RInv' /\ Broadcast!BroadcastNext
  BY <1>3, ReceiveAtClientReceives DEF Broadcast!BroadcastNext, Clients
<1>4. ASSUME NEW c \in Clients, ReceiveAtServer(c)
      PROVE  RInv' /\ Broadcast!BroadcastNext
  BY <1>4, ReceiveAtServerReceives, SitesAssumption DEF Broadcast!BroadcastNext
<1>5. ASSUME Forward
      PROVE  RInv' /\ UNCHANGED Broadcast!bvars
  BY <1>5, ForwardReceives DEF Forward, Broadcast!bvars
<1>6. CASE UNCHANGED vars
  BY <1>6 DEF vars, RInv, RTypes, OwnTold, Origins, Paths, PathFrom, Contents, Arrived, Causal,
              BufferWaits, Broadcast!bvars
<1> QED BY <1>1, <1>2, <1>3, <1>4, <1>5, <1>6 DEF Next, MainLoop, Clients

(* The messages a site receives next are decoded to what was sent.           *)
LEMMA ReceptionDecodes == IInv /\ RInv => ReceptionSound
<1> SUFFICES ASSUME IInv, RInv PROVE DiffsDecode
  BY DEF RInv, ReceptionSound
<1>1. up \in [Clients -> Seq(Messages)] /\ down \in [Clients -> Seq(Messages)] /\ Server \in Sites
  BY SitesAssumption DEF IInv, Types
<1>2. ASSUME NEW s \in Sites, NEW q \in Seq(Messages), q # <<>>, Home[Head(q).user] # s,
             NEW z, Chain(q, Head(q).user, vector[s][Head(q).user], z)
      PROVE  DecodesAt(s, Head(q))
  <2> DEFINE m == Head(q)
  <2>1. m \in Messages /\ m.user \in Users
    BY <1>2, Taken DEF Messages
  <2>2. PICK x \in Vectors : Link(m, m.user, vector[s][m.user], x)
    BY <1>2, <2>1, ChainTail
  <2>3. vector[s][m.user] \in Vectors
    BY <2>1 DEF RInv, RTypes
  <2> HIDE DEF m
  <2>4. FromDiff(m.diff, vector[s][m.user]) = m.vector /\ m.vector[m.user] = vector[s][m.user][m.user]
    BY <2>1, <2>2, <2>3, LinkDecodes
  <2> QED BY <2>4 DEF DecodesAt, m
<1>3. ASSUME NEW c \in Clients, up[c] # <<>> PROVE DecodesAt(Server, Head(up[c]))
  <2>1. Head(up[c]) = up[c][1] /\ 1 \in 1 .. Len(up[c]) /\ Head(up[c]) \in Messages
        /\ up[c] \in Seq(Messages)
    BY <1>1, <1>3, Taken
  <2>2. Home[Head(up[c]).user] = c /\ Head(up[c]).user \in Users /\ c # Server
    BY <2>1 DEF RInv, Origins, Messages, Clients
  <2>3. Chain(up[c], Head(up[c]).user, vector[Server][Head(up[c]).user], last_send[Head(up[c]).user])
    BY <2>2 DEF RInv, Paths
  <2> QED BY <1>1, <1>2, <1>3, <2>1, <2>2, <2>3
<1>4. ASSUME NEW c \in Clients, down[c] # <<>> PROVE DecodesAt(c, Head(down[c]))
  <2> DEFINE u == Head(down[c]).user
  <2>1. Head(down[c]) = down[c][1] /\ 1 \in 1 .. Len(down[c]) /\ Head(down[c]) \in Messages
        /\ down[c] \in Seq(Messages) /\ c \in Sites
    BY <1>1, <1>4, Taken DEF Clients
  <2>2. Home[u] # c /\ u \in Users
    BY <2>1 DEF RInv, Origins, Messages
  <2>3. \E z : Chain(down[c], u, vector[c][u], z)
    <3>1. CASE Home[u] = Server
      BY <2>2, <3>1 DEF RInv, Paths
    <3>2. CASE Home[u] # Server
      BY <2>2, <3>2 DEF RInv, Paths, PathFrom
    <3> QED BY <3>1, <3>2
  <2> QED BY <1>2, <1>4, <2>1, <2>2, <2>3
<1> QED BY <1>3, <1>4 DEF DiffsDecode

-----------------------------------------------------------------------------
(* What arrives is understood, and what waits has to wait: the differences   *)
(* process_xml_run receives are decoded to the vectors they were made from,  *)
(* and no request that is ready stays in the request buffer.                 *)
THEOREM ReceptionIsSound == Spec => []ReceptionSound
BY InitEstablishes, NextPreserves, ReceptionInit, ReceptionNext, ReceptionDecodes, PTL DEF Spec

(* Sessions execute each request once, in causal order: every step of a      *)
(* session is a step of CausalBroadcast, or none.                            *)
THEOREM BroadcastImplemented == Spec => ImplementsBroadcast
<1>1. Init => Broadcast!BroadcastInit
  BY ReceptionInit
<1>2. IInv /\ RInv /\ [Next]_vars => [Broadcast!BroadcastNext]_(Broadcast!bvars)
  BY ReceptionNext
<1> QED BY InitEstablishes, NextPreserves, ReceptionInit, ReceptionNext, <1>1, <1>2, PTL
        DEF Spec, ImplementsBroadcast, Broadcast!BroadcastSpec

=============================================================================
