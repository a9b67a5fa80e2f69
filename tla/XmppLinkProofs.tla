---------------------------- MODULE XmppLinkProofs ----------------------------
(***************************************************************************)
(* The two ends of an XMPP connection stay in step: ConnectionSound of     *)
(* XmppLink is an invariant for all setups and budgets.                    *)
(*                                                                         *)
(* Three invariants carry the proof for ends whose sends all succeed.      *)
(* EndOK says of one end what its own fields have to do with each other,   *)
(* QueueOK where its messages are in what TCP has not written.  JointOf    *)
(* says what is on its way in each direction: while both ends are open,    *)
(* they are in one of the phases of the protocol, which determine it; when *)
(* one end has begun to close, what it sent before is something that the   *)
(* other one, wherever it is, can take.  PolicyOf says which elements can  *)
(* be on their way, and which states an end can be in, under the security  *)
(* policies of both.                                                       *)
(*                                                                         *)
(* A handler that goes on after one of its sends has failed may leave any  *)
(* status but "ready".  IInv gives every end a ghost: the end itself, or   *)
(* an end that has just been closed in the place of one that has failed.   *)
(* The ghosts satisfy the three invariants: to its peer, the one end is    *)
(* what the other one is.                                                  *)
(***************************************************************************)
EXTENDS XmppLink, SequenceTheorems, FiniteSetTheorems, TLAPS

(***************************************************************************)
(* States and words                                                        *)
(***************************************************************************)
ClientStates == {"connecting", "connected", "initiated", "awaiting_features",
                 "encryption_requested", "handshaking", "authenticating", "auth_initiated",
                 "auth_awaiting_features", "ready"}
ServerStates == {"connected", "initiated", "handshaking", "authenticating", "auth_connected",
                 "ready"}
Over == Closing \cup {"closed"}
IsOpen(X) == X.st \notin Over

Kinds == {"stream", "features", "features_tls", "features_required", "starttls", "proceed",
          "hello", "server_hello", "finished", "done", "auth", "challenge", "response",
          "success", "failure", "abort", "error", "end", "bye", "fin", "half", "msg"}
Units == [k : Kinds, id : Nat]
Messages == [pos : Int, id : Nat]
Ends == [site : Sites, policy : Policies, suits : BOOLEAN, verifies : BOOLEAN,
         st : ClientStates \cup ServerStates \cup Over, tls : BOOLEAN,
         sasl : {"none", "idle", "busy"}, wait : BOOLEAN, nested : BOOLEAN,
         tcp : {"connecting", "connected", "closed"}, out : Seq(Units), pos : Int,
         msgs : Seq(Messages), told : SUBSET Nat, got : Seq(Nat), bad : BOOLEAN,
         fault : {0}, parsing : {FALSE}]

Empty(w) == Len(w) = 0
Has(w, k) == \E i \in 1..Len(w) : w[i].k = k
Starts(w, ks) == Len(w) > 0 => w[1].k \in ks
Only(w, ks) == Len(w) = 1 /\ w[1].k \in ks
All(w, ks) == \A i \in 1..Len(w) : w[i].k \in ks
AllFrom(w, n, ks) == \A i \in n..Len(w) : w[i].k \in ks
NoneFrom(w, n, ks) == \A i \in n..Len(w) : w[i].k \notin ks
Followed(w, n, ks, by) == \A i \in n..Len(w) - 1 : w[i].k \in ks => w[i + 1].k \in by

FeatureKinds == {"features", "features_tls", "features_required"}

(***************************************************************************)
(* What an open end can take of one that is closing                        *)
(***************************************************************************)
ClientTakes(st, w) ==
  /\ st \in {"connecting", "connected"} => Starts(w, {"bye", "fin"})
  /\ st = "handshaking" => /\ NoneFrom(w, 1, {"stream", "msg"})
                           /\ Followed(w, 1, {"done"}, {"bye", "fin"})
  /\ st \in {"awaiting_features", "encryption_requested", "authenticating"} =>
       NoneFrom(w, 1, {"stream", "half", "msg", "done"})
  /\ st \in {"initiated", "auth_initiated"} => Len(w) = 0 \/ w[1].k # "half"
  /\ st = "initiated" /\ Starts(w, {"stream"}) => NoneFrom(w, 2, {"stream", "half", "msg", "done"})
  /\ st = "auth_initiated" /\ Starts(w, {"stream"}) =>
       /\ NoneFrom(w, 2, {"stream"})
       /\ Has(w, "msg") => Len(w) > 1 /\ w[2].k \in FeatureKinds
  /\ st = "auth_awaiting_features" =>
       /\ NoneFrom(w, 1, {"stream"})
       /\ Has(w, "msg") => Starts(w, FeatureKinds)
  /\ st = "ready" => NoneFrom(w, 1, {"stream"})

Answered == {"auth", "response", "finished"}
ServerTakes(st, busy, w) ==
  /\ st \in {"initiated", "handshaking", "authenticating"} =>
       NoneFrom(w, 1, {"stream", "msg"}) /\ Followed(w, 1, Answered, {"abort", "bye", "fin"})
  /\ st = "authenticating" /\ busy => Starts(w, {"abort", "bye", "fin"})
  /\ st \in {"connected", "auth_connected"} => Starts(w, {"stream", "abort", "bye", "fin"})
  /\ st = "connected" /\ Starts(w, {"stream"}) =>
       NoneFrom(w, 2, {"stream", "msg"}) /\ Followed(w, 2, Answered, {"abort", "bye", "fin"})
  /\ st = "auth_connected" /\ Starts(w, {"stream"}) => NoneFrom(w, 2, {"stream"})
  /\ st = "ready" => NoneFrom(w, 1, {"stream"})

(***************************************************************************)
(* The phases of two open ends: w is on its way to the client C, v to the  *)
(* server S.                                                               *)
(***************************************************************************)
SameTls(C, S) == C.tls = S.tls
MessageKinds == {"half", "msg"}

Opening1(C, S, w, v) ==
  \/ C.st = "connecting" /\ S.st = "connected" /\ Empty(w) /\ Empty(v) /\ ~C.tls /\ ~S.tls
  \/ C.st = "initiated" /\ S.st = "connected" /\ Empty(w) /\ Only(v, {"stream"}) /\ SameTls(C, S)
  \/ /\ C.st = "initiated" /\ S.st = "initiated" /\ Empty(v) /\ SameTls(C, S)
     /\ Len(w) = 2 /\ w[1].k = "stream" /\ w[2].k \in FeatureKinds
  \/ C.st = "awaiting_features" /\ S.st = "initiated" /\ Empty(v) /\ Only(w, FeatureKinds)
     /\ SameTls(C, S)

Encrypting(C, S, w, v) ==
  \/ C.st = "encryption_requested" /\ S.st = "initiated" /\ Empty(w) /\ Only(v, {"starttls"})
     /\ ~C.tls /\ ~S.tls
  \/ C.st = "encryption_requested" /\ S.st = "handshaking" /\ Only(w, {"proceed"}) /\ Empty(v)
     /\ ~C.tls /\ S.tls
  \/ C.st = "handshaking" /\ S.st = "handshaking" /\ C.tls /\ S.tls
     /\ \/ Empty(w) /\ Only(v, {"hello", "finished"})
        \/ Empty(v) /\ Only(w, {"server_hello"})
  \/ C.st = "handshaking" /\ S.st = "connected" /\ C.tls /\ S.tls /\ Only(w, {"done"}) /\ Empty(v)
  \/ C.st = "connected" /\ S.st = "connected" /\ C.tls /\ S.tls /\ Empty(w) /\ Empty(v)

\* The server's SASL context works, the server waits for a response, the exchange has failed, a
\* new one begins, or it has succeeded.
ServerBusy(C, S, w, v) ==
  /\ S.st = "authenticating" /\ S.sasl = "busy" /\ Empty(w) /\ All(v, {"abort"})
  /\ C.sasl = "idle" => Empty(v)
ServerWaits(C, S, w, v) ==
  /\ S.st = "authenticating" /\ S.sasl # "busy"
  /\ C.sasl = "idle" => \/ Only(w, {"challenge"}) /\ Empty(v)
                        \/ Empty(w) /\ Only(v, {"response"})
  /\ C.sasl = "none" => /\ \/ Empty(w)
                           \/ Only(w, {"challenge"}) /\ All(v, {"abort"})
                        /\ Starts(v, {"abort", "response"}) /\ AllFrom(v, 2, {"abort"})
Failed(C, S, w, v) ==
  /\ S.st = "initiated" /\ All(v, {"abort"})
  /\ \/ Only(w, {"failure"})
     \/ /\ C.sasl = "none" /\ Len(w) = 2 /\ w[1].k = "challenge" /\ w[2].k = "failure"
AsksAgain(C, S, w, v) ==
  /\ S.st = "initiated" /\ Empty(w)
  /\ \E p \in 1..Len(v) : /\ v[p].k = "auth" /\ (C.sasl = "idle" => p = Len(v))
                          /\ \A i \in 1..Len(v) : i # p => v[i].k = "abort"
Succeeds(C, S, w, v) == S.st = "auth_connected" /\ Only(w, {"success"}) /\ All(v, {"abort"})

\* The client waits for the server, for its own SASL context, or has reset its session.
Authenticating(C, S, w, v) ==
  /\ C.st = "authenticating" /\ SameTls(C, S)
  /\ C.sasl = "busy" => S.st = "authenticating" /\ S.sasl # "busy" /\ Empty(w) /\ Empty(v)
  /\ \/ ServerBusy(C, S, w, v)
     \/ ServerWaits(C, S, w, v)
     \/ Failed(C, S, w, v)
     \/ AsksAgain(C, S, w, v)
     \/ Succeeds(C, S, w, v)

Authenticated(C, S, w, v) ==
  /\ SameTls(C, S)
  /\ \/ /\ C.st = "auth_initiated" /\ S.st = "auth_connected" /\ Empty(w)
        /\ Len(v) > 0 /\ v[Len(v)].k = "stream"
        /\ \A i \in 1..Len(v) - 1 : v[i].k = "abort"
     \/ /\ C.st = "auth_initiated" /\ S.st = "ready" /\ Empty(v)
        /\ Len(w) > 1 /\ w[1].k = "stream" /\ w[2].k \in FeatureKinds
        /\ AllFrom(w, 3, MessageKinds)
     \/ /\ C.st = "auth_awaiting_features" /\ S.st = "ready" /\ Empty(v)
        /\ Len(w) > 0 /\ w[1].k \in FeatureKinds /\ AllFrom(w, 2, MessageKinds)
     \/ C.st = "ready" /\ S.st = "ready" /\ AllFrom(w, 1, MessageKinds) /\ AllFrom(v, 1, MessageKinds)

InPhase(C, S, w, v) ==
  \/ Opening1(C, S, w, v)
  \/ Encrypting(C, S, w, v)
  \/ Authenticating(C, S, w, v)
  \/ Authenticated(C, S, w, v)

JointOf(C, S, w, v) ==
  /\ IsOpen(C) /\ IsOpen(S) => InPhase(C, S, w, v)
  /\ IsOpen(C) /\ ~IsOpen(S) => ClientTakes(C.st, w)
  /\ ~IsOpen(C) /\ IsOpen(S) => ServerTakes(S.st, S.sasl = "busy", v)

(***************************************************************************)
(* One end                                                                 *)
(***************************************************************************)
EndOK(X) ==
  /\ ~X.bad
  /\ X.st \in Over \cup (IF X.site = "client" THEN ClientStates ELSE ServerStates)
  /\ X.sasl # "none" => X.st = "authenticating"
  /\ X.wait => X.st = "connected" /\ X.tls /\ X.site = "client"
  /\ X.site = "server" => ~X.verifies
  /\ X.nested => ~IsOpen(X)
  /\ X.st = "encryption_requested" => ~X.tls
  /\ X.st = "handshaking" => X.tls
  /\ X.tcp = "connecting" <=> X.st = "connecting"
  /\ X.tcp = "closed" <=> X.st = "closed"

\* send is what is left of the budget for messages: the next one's id.
QueueOK(X, send) ==
  /\ X.pos = Len(X.out)
  /\ \A i \in 1..Len(X.msgs) : X.msgs[i].pos <= X.pos
  /\ \A i, j \in 1..Len(X.msgs) : i < j => X.msgs[i].pos <= X.msgs[j].pos
  /\ \A i \in 1..Len(X.msgs) : X.msgs[i].id # 0 =>
       /\ X.msgs[i].pos > 0
       /\ X.out[X.msgs[i].pos] = Payload(X.msgs[i].id)[2]
       /\ \A j \in 1..Len(X.out) : X.out[j].id = X.msgs[i].id => j <= X.msgs[i].pos
  /\ \A j \in 1..Len(X.out) : X.out[j].id > send \/ X.out[j].id = 0
  /\ \A j \in 1..Len(X.out) : X.out[j].id \notin X.told
  /\ \A id \in X.told : id > send
  /\ 0 \notin X.told
  /\ \A i \in 1..Len(X.msgs) : X.msgs[i].id > send \/ X.msgs[i].id = 0

(***************************************************************************)
(* The policies                                                            *)
(***************************************************************************)
ClientPast == {"authenticating", "auth_initiated", "auth_awaiting_features", "ready"}
ServerPast == {"authenticating", "auth_connected", "ready"}
PolicyOf(C, S, w, v) ==
  /\ C.tls \/ C.st = "encryption_requested" => C.policy # "only_unsecured"
  /\ C.tls \/ Has(w, "proceed") => S.policy # "only_unsecured"
  /\ C.st \in ClientPast /\ ~C.tls => C.policy # "only_tls" /\ S.policy # "only_tls"
  /\ C.st \in {"connecting", "initiated", "awaiting_features"} /\ ~C.tls /\ S.policy = "only_tls" =>
       NoneFrom(w, 1, {"features", "features_tls"})
  /\ S.tls => S.policy # "only_unsecured"
  /\ S.tls \/ Has(v, "starttls") => C.policy # "only_unsecured"
  /\ S.st \in ServerPast /\ ~S.tls => C.policy # "only_tls" /\ S.policy # "only_tls"
  /\ IsOpen(S) /\ ~S.tls /\ Has(v, "auth") => C.policy # "only_tls"
(***************************************************************************)
(* What is pushed                                                          *)
(***************************************************************************)
Control(ks) == [i \in 1..Len(ks) |-> Unit(ks[i])]

LEMMA Associate == \A s, t, u \in Seq(Units) : (s \o t) \o u = s \o (t \o u)
BY ConcatAssociative

LEMMA Concatenated ==
  \A s, t \in Seq(Units) : /\ s \o t \in Seq(Units) /\ Len(s \o t) = Len(s) + Len(t)
                           /\ \A i \in 1..Len(s) : (s \o t)[i] = s[i]
                           /\ \A i \in 1..Len(t) : (s \o t)[i + Len(s)] = t[i]
BY ConcatProperties

LEMMA Lengths == \A s \in Seq(Units) : Len(s) \in Nat
BY LenProperties

LEMMA ControlFacts ==
  ASSUME NEW ks \in Seq(Kinds)
  PROVE  /\ Control(ks) \in Seq(Units) /\ Len(Control(ks)) = Len(ks)
         /\ \A i \in 1..Len(ks) : Control(ks)[i] = Unit(ks[i])
<1>1. \A i \in 1..Len(ks) : Unit(ks[i]) \in Units
  BY DEF Unit, Units
<1>. QED BY <1>1 DEF Control

LEMMA ControlOne ==
  ASSUME NEW k \in Kinds
  PROVE  Control(<<k>>) = <<Unit(k)>> /\ <<Unit(k)>> \in Seq(Units)
<1>1. Unit(k) \in Units
  BY DEF Unit, Units
<1>. DEFINE u == Unit(k)
<1>2. Control(<<k>>) = [i \in 1..1 |-> u]
  <2>1. Len(<<k>>) = 1 /\ \A i \in 1..1 : <<k>>[i] = k
    OBVIOUS
  <2>. QED BY <2>1 DEF Control
<1>. HIDE DEF u
<1>3. u \in Units
  BY <1>1 DEF u
<1>4. <<u>> \in Seq(Units)
  BY <1>3
<1>5. <<u>> = [i \in 1..1 |-> u]
  BY <1>3
<1>. QED BY <1>2, <1>4, <1>5 DEF u

LEMMA ControlConcat ==
  ASSUME NEW a \in Seq(Kinds), NEW b \in Seq(Kinds)
  PROVE  Control(a \o b) = Control(a) \o Control(b)
<1>. DEFINE A == Control(a)
            B == Control(b)
            C == Control(a \o b)
<1>1. /\ A \in Seq(Units) /\ Len(A) = Len(a) /\ \A i \in 1..Len(a) : A[i] = Unit(a[i])
      /\ B \in Seq(Units) /\ Len(B) = Len(b) /\ \A i \in 1..Len(b) : B[i] = Unit(b[i])
  BY ControlFacts
<1>2. /\ a \o b \in Seq(Kinds) /\ Len(a \o b) = Len(a) + Len(b)
      /\ \A i \in 1..Len(a) + Len(b) : (a \o b)[i] = IF i <= Len(a) THEN a[i] ELSE b[i - Len(a)]
  OBVIOUS
<1>3. /\ C \in Seq(Units) /\ Len(C) = Len(a \o b)
      /\ \A i \in 1..Len(a \o b) : C[i] = Unit((a \o b)[i])
  BY <1>2, ControlFacts
<1>. HIDE DEF A, B, C
<1>4. /\ A \o B \in Seq(Units) /\ Len(A \o B) = Len(A) + Len(B)
      /\ \A i \in 1..Len(A) : (A \o B)[i] = A[i]
      /\ \A i \in 1..Len(B) : (A \o B)[i + Len(A)] = B[i]
  BY <1>1, Concatenated
<1>5. ASSUME NEW i \in 1..Len(C)
      PROVE  C[i] = (A \o B)[i]
  <2>1. Len(a) \in Nat /\ Len(b) \in Nat /\ i \in 1..Len(a) + Len(b)
    BY <1>2, <1>3
  <2>2. CASE i <= Len(a)
    <3>1. i \in 1..Len(a) /\ (a \o b)[i] = a[i] /\ (A \o B)[i] = A[i]
      BY <1>1, <1>2, <1>4, <2>1, <2>2
    <3>. QED BY <1>1, <1>2, <1>3, <2>1, <3>1
  <2>3. CASE ~(i <= Len(a))
    <3>1. i - Len(a) \in 1..Len(b) /\ (a \o b)[i] = b[i - Len(a)]
      BY <1>2, <2>1, <2>3
    <3>2. (A \o B)[(i - Len(a)) + Len(A)] = B[i - Len(a)]
      BY <1>1, <1>4, <3>1
    <3>3. (i - Len(a)) + Len(A) = i
      BY <1>1, <2>1
    <3>. QED BY <1>1, <1>2, <1>3, <2>1, <3>1, <3>2, <3>3
  <2>. QED BY <2>2, <2>3
<1>6. C = A \o B
  BY <1>1, <1>2, <1>3, <1>4, <1>5, SeqEqual
<1>. QED BY <1>6 DEF A, B, C

LEMMA EndFields ==
  ASSUME NEW X \in Ends
  PROVE  /\ X.out \in Seq(Units) /\ X.pos \in Int /\ X.msgs \in Seq(Messages)
         /\ X.told \in SUBSET Nat /\ X.got \in Seq(Nat)
         /\ X.tls \in BOOLEAN /\ X.wait \in BOOLEAN /\ X.nested \in BOOLEAN /\ X.bad \in BOOLEAN
         /\ X.suits \in BOOLEAN /\ X.verifies \in BOOLEAN
         /\ X.site \in Sites /\ X.policy \in Policies /\ X.sasl \in {"none", "idle", "busy"}
         /\ X.st \in ClientStates \cup ServerStates \cup Over
         /\ X.tcp \in {"connecting", "connected", "closed"}
         /\ X.fault = 0
BY DEF Ends

\* Everything but what TCP has to write.
SameSetup(X, Y) == Y.site = X.site /\ Y.policy = X.policy /\ Y.verifies = X.verifies
SameState(X, Y) ==
  /\ SameSetup(X, Y) /\ Y.suits = X.suits /\ Y.st = X.st /\ Y.tls = X.tls /\ Y.sasl = X.sasl
  /\ Y.wait = X.wait /\ Y.nested = X.nested /\ Y.tcp = X.tcp /\ Y.msgs = X.msgs
  /\ Y.told = X.told /\ Y.got = X.got /\ Y.bad = X.bad

LEMMA PushIs ==
  ASSUME NEW X \in Ends, NEW u
  PROVE  Push(X, u) = [X EXCEPT !.out = X.out \o u, !.pos = X.pos + Len(u)]
BY EndFields DEF Push

LEMMA PushFacts ==
  ASSUME NEW X \in Ends, NEW u \in Seq(Units)
  PROVE  /\ Push(X, u) \in Ends /\ SameState(X, Push(X, u))
         /\ Push(X, u).out = X.out \o u /\ Push(X, u).pos = X.pos + Len(u)
<1>1. X.out \o u \in Seq(Units) /\ X.pos + Len(u) \in Int
  BY EndFields
<1>2. Push(X, u) = [X EXCEPT !.out = X.out \o u, !.pos = X.pos + Len(u)]
  BY PushIs
<1>3. Push(X, u) \in Ends
  BY <1>1, <1>2 DEF Ends
<1>. QED BY <1>1, <1>2, <1>3 DEF Ends, SameState, SameSetup

LEMMA PushNothing ==
  ASSUME NEW X \in Ends
  PROVE  Push(X, Control(<<>>)) = X
<1>1. Control(<<>>) = <<>>
  BY DEF Control
<1>2. X.out \o <<>> = X.out /\ X.pos + Len(<<>>) = X.pos
  BY EndFields, ConcatEmptySeq
<1>3. Push(X, Control(<<>>)) = [X EXCEPT !.out = X.out \o <<>>, !.pos = X.pos + Len(<<>>)]
  BY <1>1, PushIs
<1>. DEFINE out == X.out \o <<>>
            pos == X.pos + Len(<<>>)
<1>4. Push(X, Control(<<>>)) = [X EXCEPT !.out = out, !.pos = pos] /\ out = X.out /\ pos = X.pos
  BY <1>2, <1>3
<1>. HIDE DEF out, pos
<1>. QED BY <1>4 DEF Ends

LEMMA PushTwice ==
  ASSUME NEW X \in Ends, NEW a \in Seq(Kinds), NEW b \in Seq(Kinds)
  PROVE  Push(Push(X, Control(a)), Control(b)) = Push(X, Control(a \o b))
<1>. DEFINE A == Control(a)
            B == Control(b)
<1>1. A \in Seq(Units) /\ B \in Seq(Units) /\ Control(a \o b) = A \o B
  BY ControlFacts, ControlConcat
<1>. HIDE DEF A, B
<1>2. (X.out \o A) \o B = X.out \o (A \o B)
  <2>1. X.out \in Seq(Units)
    BY EndFields
  <2>. QED BY <1>1, <2>1, Associate
<1>3. (X.pos + Len(A)) + Len(B) = X.pos + Len(A \o B)
  BY <1>1, EndFields
<1>4. Push(Push(X, A), B) = Push(X, A \o B)
  <2>. DEFINE P == Push(X, A)
  <2>1. P \in Ends /\ P = [X EXCEPT !.out = X.out \o A, !.pos = X.pos + Len(A)]
    BY <1>1, PushFacts, PushIs
  <2>2. P.out = X.out \o A /\ P.pos = X.pos + Len(A)
    BY <1>1, PushFacts
  <2>3. Push(X, A \o B) = [X EXCEPT !.out = X.out \o (A \o B), !.pos = X.pos + Len(A \o B)]
    BY PushIs
  <2>. HIDE DEF P
  <2>4. Push(P, B) = [P EXCEPT !.out = P.out \o B, !.pos = P.pos + Len(B)]
    BY <2>1, PushIs
  <2>5. Push(P, B) = [P EXCEPT !.out = X.out \o (A \o B), !.pos = X.pos + Len(A \o B)]
    BY <1>2, <1>3, <2>2, <2>4
  <2>. DEFINE out == X.out \o (A \o B)
              pos == X.pos + Len(A \o B)
              out1 == X.out \o A
              pos1 == X.pos + Len(A)
  <2>6. P = [X EXCEPT !.out = out1, !.pos = pos1] /\ Push(P, B) = [P EXCEPT !.out = out, !.pos = pos]
        /\ Push(X, A \o B) = [X EXCEPT !.out = out, !.pos = pos]
    BY <2>1, <2>3, <2>5
  <2>. HIDE DEF out, pos, out1, pos1
  <2>7. Push(P, B) = Push(X, A \o B)
    BY <2>6 DEF Ends
  <2>. QED BY <2>7 DEF P
<1>. QED BY <1>1, <1>4 DEF A, B

LEMMA SendCharsPushes ==
  ASSUME NEW X \in Ends, NEW k \in Kinds, X.st \notin {"handshaking", "closed"}
  PROVE  SendChars(X, k) = Push(X, Control(<<k>>))
BY ControlOne DEF SendChars, Require

LEMMA SendCharsKeeps ==
  ASSUME NEW X \in Ends, NEW k \in Kinds
  PROVE  SendChars(X, k) \in Ends /\ SendChars(X, k).st = X.st
<1>. DEFINE P == Push(X, <<Unit(k)>>)
<1>1. P \in Ends /\ P.st = X.st
  BY ControlOne, PushFacts DEF SameState
<1>2. [X EXCEPT !.bad = TRUE] \in Ends /\ [X EXCEPT !.bad = TRUE].st = X.st
  BY DEF Ends
<1>. HIDE DEF P
<1>. QED BY <1>1, <1>2 DEF SendChars, Require, P

(***************************************************************************)
(* What the operations do to an end                                        *)
(***************************************************************************)
\* The end goes on: its messages are as they were, and ks is sent.
Goes(X, Y, ks) ==
  /\ Y \in Ends /\ SameSetup(X, Y) /\ Y.msgs = X.msgs /\ Y.told = X.told /\ Y.bad = X.bad
  /\ Y.tcp = X.tcp /\ (Y.nested => X.nested)
  /\ Y.out = X.out \o Control(ks) /\ Y.pos = X.pos + Len(ks)

\* The end closes, or goes on closing: it sends ks, or TCP is closed.
Closes(X, Y, ks) ==
  /\ Y \in Ends /\ SameSetup(X, Y) /\ Y.told = X.told /\ Y.bad = X.bad
  /\ Y.sasl = "none" /\ ~Y.wait /\ (Y.tls => X.tls)
  /\ \/ /\ Y.st = "closed" /\ Y.tcp = "closed" /\ Y.out = <<>> /\ Y.pos = 0 /\ Y.msgs = <<>>
     \/ /\ Y.st \in Closing /\ Y.tcp = X.tcp
        /\ Y.out = X.out \o Control(ks) /\ Y.pos = X.pos + Len(ks)
        /\ Y.msgs \in {X.msgs, <<>>, <<[pos |-> Y.pos, id |-> 0]>>}

EndKinds == {"abort", "error", "end", "bye"}

\* What inf_xmpp_connection_terminate sends.
TerminateWord(st, tls) ==
  IF st \in {"handshaking", "encryption_requested"} THEN <<>>
  ELSE IF st \in {"connected", "auth_connected", "closing_stream"}
       THEN IF tls THEN <<"bye">> ELSE <<>>
       ELSE IF st = "authenticating"
            THEN IF tls THEN (<<"abort">> \o <<"end">>) \o <<"bye">> ELSE <<"abort">> \o <<"end">>
            ELSE IF tls THEN <<"end">> \o <<"bye">> ELSE <<"end">>

LEMMA Pushed ==
  ASSUME NEW X \in Ends, NEW ks \in Seq(Kinds)
  PROVE  LET Y == Push(X, Control(ks))
         IN  /\ Y \in Ends /\ SameState(X, Y)
             /\ Y.out = X.out \o Control(ks) /\ Y.pos = X.pos + Len(ks)
BY ControlFacts, PushFacts

LEMMA ClearFacts ==
  ASSUME NEW X \in Ends
  PROVE  LET Y == Clear(X)
         IN  /\ Y \in Ends /\ SameSetup(X, Y) /\ Y.st = X.st /\ Y.tcp = X.tcp /\ Y.out = X.out
             /\ Y.pos = X.pos /\ Y.told = X.told /\ Y.bad = X.bad /\ Y.nested = X.nested
             /\ Y.got = X.got /\ Y.suits = X.suits
             /\ Y.sasl = "none" /\ Y.tls = FALSE /\ Y.msgs = <<>> /\ Y.wait = FALSE
<1>1. <<>> \in Seq(Messages)
  OBVIOUS
<1>2. Clear(X) \in Ends
  BY <1>1 DEF Clear, Ends
<1>. QED BY <1>2 DEF Clear, Ends, SameSetup

LEMMA TcpCloseCloses ==
  ASSUME NEW X \in Ends, NEW ks
  PROVE  LET Y == TcpClose(X)
         IN  Closes(X, Y, ks) /\ Y.nested = X.nested /\ Y.st = "closed" /\ Y.tcp = "closed"
<1>. DEFINE Z == Clear(X)
<1>1. /\ Z \in Ends /\ SameSetup(X, Z) /\ Z.told = X.told /\ Z.bad = X.bad
      /\ Z.nested = X.nested /\ Z.sasl = "none" /\ Z.tls = FALSE /\ Z.msgs = <<>> /\ Z.wait = FALSE
  BY ClearFacts
<1>2. TcpClose(X) = [Z EXCEPT !.tcp = "closed", !.st = "closed", !.out = <<>>, !.pos = 0]
  BY EndFields DEF TcpClose
<1>3. <<>> \in Seq(Units) /\ 0 \in Int /\ "closed" \in Over
  BY DEF Over
<1>. HIDE DEF Z
<1>4. TcpClose(X) \in Ends
  <2>. DEFINE out == <<>>
              pos == 0
              st == "closed"
  <2>1. out \in Seq(Units) /\ pos \in Int /\ st \in Over
    BY <1>3
  <2>2. TcpClose(X) = [Z EXCEPT !.tcp = "closed", !.st = st, !.out = out, !.pos = pos]
    BY <1>2
  <2>. HIDE DEF out, pos, st
  <2>. QED BY <1>1, <2>1, <2>2 DEF Ends
<1>. DEFINE Y == TcpClose(X)
<1>5. /\ SameSetup(Z, Y) /\ Y.told = Z.told /\ Y.bad = Z.bad /\ Y.nested = Z.nested
      /\ Y.sasl = Z.sasl /\ Y.tls = Z.tls /\ Y.msgs = Z.msgs /\ Y.wait = Z.wait
      /\ Y.st = "closed" /\ Y.tcp = "closed" /\ Y.out = <<>> /\ Y.pos = 0
  BY <1>1, <1>2 DEF SameSetup, Ends
<1>. HIDE DEF Y
<1>6. Closes(X, Y, ks) /\ Y.nested = X.nested
  BY <1>1, <1>4, <1>5 DEF Closes, SameSetup, Y
<1>. QED BY <1>5, <1>6 DEF Y

LEMMA TcpCloseClears ==
  ASSUME NEW X \in Ends
  PROVE  /\ TcpClose(X).sasl = "none" /\ TcpClose(X).tls = FALSE
         /\ TcpClose(X).msgs = <<>> /\ TcpClose(X).wait = FALSE
<1>. DEFINE Z == Clear(X)
<1>1. Z \in Ends /\ Z.sasl = "none" /\ Z.tls = FALSE /\ Z.msgs = <<>> /\ Z.wait = FALSE
  BY ClearFacts
<1>2. TcpClose(X) = [Z EXCEPT !.tcp = "closed", !.st = "closed", !.out = <<>>, !.pos = 0]
  BY EndFields DEF TcpClose
<1>. HIDE DEF Z
<1>. QED BY <1>1, <1>2 DEF Ends

LEMMA ClearClosed ==
  ASSUME NEW X \in Ends
  PROVE  Clear(TcpClose(X)) = TcpClose(X)
<1>. DEFINE Y == TcpClose(X)
<1>1. Y \in Ends /\ Y.sasl = "none" /\ Y.tls = FALSE /\ Y.msgs = <<>> /\ Y.wait = FALSE
  BY TcpCloseCloses, TcpCloseClears DEF Closes
<1>. HIDE DEF Y
<1>2. Clear(Y) = Y
  BY <1>1 DEF Clear, Ends
<1>. QED BY <1>2 DEF Y

LEMMA Tuples ==
  /\ <<>> \in Seq(Kinds) /\ Len(<<>>) = 0
  /\ \A a \in Kinds : /\ <<a>> \in Seq(Kinds) /\ Control(<<a>>) = <<Unit(a)>>
                     /\ Len(<<a>>) = 1 /\ <<a>>[1] = a
BY ControlOne

LEMMA ConcatKinds ==
  ASSUME NEW a \in Seq(Kinds), NEW b \in Seq(Kinds)
  PROVE  /\ a \o b \in Seq(Kinds) /\ Len(a \o b) = Len(a) + Len(b)
         /\ Len(a) \in Nat /\ Len(b) \in Nat
         /\ \A i \in 1..Len(a) : (a \o b)[i] = a[i]
         /\ \A i \in 1..Len(b) : (a \o b)[i + Len(a)] = b[i]
BY ConcatProperties, LenProperties

LEMMA ConcatAll ==
  ASSUME NEW K, NEW a \in Seq(Kinds), NEW b \in Seq(Kinds),
         \A i \in 1..Len(a) : a[i] \in K, \A i \in 1..Len(b) : b[i] \in K
  PROVE  \A i \in 1..Len(a \o b) : (a \o b)[i] \in K
<1>. SUFFICES ASSUME NEW i \in 1..Len(a \o b)
              PROVE  (a \o b)[i] \in K
  OBVIOUS
<1>1. Len(a) \in Nat /\ Len(b) \in Nat /\ i \in 1..Len(a) + Len(b)
  BY ConcatKinds
<1>2. CASE i <= Len(a)
  BY <1>1, <1>2, ConcatKinds
<1>3. CASE ~(i <= Len(a))
  <2>1. i - Len(a) \in 1..Len(b) /\ (i - Len(a)) + Len(a) = i
    BY <1>1, <1>3
  <2>2. (a \o b)[(i - Len(a)) + Len(a)] = b[i - Len(a)]
    BY <2>1, ConcatKinds
  <2>. QED BY <2>1, <2>2
<1>. QED BY <1>2, <1>3

LEMMA TerminateWords ==
  ASSUME NEW st, NEW tls \in BOOLEAN
  PROVE  LET ks == TerminateWord(st, tls)
         IN  /\ ks \in Seq(Kinds)
             /\ \A i \in 1..Len(ks) : ks[i] \in EndKinds
             /\ st = "authenticating" => Len(ks) > 0 /\ ks[1] = "abort"
             /\ st \in {"connected", "auth_connected", "closing_stream", "handshaking",
                        "encryption_requested"} => ks \in {<<>>, <<"bye">>}
<1>. DEFINE a == <<"abort">>
            e == <<"end">>
            b == <<"bye">>
            None == <<>>
<1>1. /\ None \in Seq(Kinds) /\ Len(None) = 0
      /\ a \in Seq(Kinds) /\ Len(a) = 1 /\ a[1] = "abort"
      /\ e \in Seq(Kinds) /\ Len(e) = 1 /\ e[1] = "end"
      /\ b \in Seq(Kinds) /\ Len(b) = 1 /\ b[1] = "bye"
  <2>1. "abort" \in Kinds /\ "end" \in Kinds /\ "bye" \in Kinds
    BY DEF Kinds
  <2>. QED BY <2>1, Tuples
<1>2. TerminateWord(st, tls) =
        IF st \in {"handshaking", "encryption_requested"} THEN None
        ELSE IF st \in {"connected", "auth_connected", "closing_stream"}
             THEN IF tls THEN b ELSE None
             ELSE IF st = "authenticating"
                  THEN IF tls THEN (a \o e) \o b ELSE a \o e
                  ELSE IF tls THEN e \o b ELSE e
  BY DEF TerminateWord
<1>. HIDE DEF a, e, b, None
<1>3. /\ \A i \in 1..Len(None) : None[i] \in EndKinds
      /\ \A i \in 1..Len(a) : a[i] \in EndKinds
      /\ \A i \in 1..Len(e) : e[i] \in EndKinds
      /\ \A i \in 1..Len(b) : b[i] \in EndKinds
  BY <1>1 DEF EndKinds
<1>4. a \o e \in Seq(Kinds) /\ Len(a \o e) = 2 /\ (a \o e)[1] = "abort"
  BY <1>1, ConcatKinds
<1>5. \A i \in 1..Len(a \o e) : (a \o e)[i] \in EndKinds
  BY <1>1, <1>3, ConcatAll
<1>6. /\ (a \o e) \o b \in Seq(Kinds) /\ Len((a \o e) \o b) = 3 /\ ((a \o e) \o b)[1] = "abort"
      /\ e \o b \in Seq(Kinds)
  BY <1>1, <1>4, ConcatKinds
<1>7. /\ \A i \in 1..Len((a \o e) \o b) : ((a \o e) \o b)[i] \in EndKinds
      /\ \A i \in 1..Len(e \o b) : (e \o b)[i] \in EndKinds
  BY <1>1, <1>3, <1>4, <1>5, ConcatAll
<1>8. st \in {"connected", "auth_connected", "closing_stream", "handshaking",
             "encryption_requested"} => TerminateWord(st, tls) \in {None, b}
  BY <1>2
<1>9. TerminateWord(st, tls) \in Seq(Kinds)
  BY <1>1, <1>2, <1>4, <1>6
<1>10. \A i \in 1..Len(TerminateWord(st, tls)) : TerminateWord(st, tls)[i] \in EndKinds
  BY <1>2, <1>3, <1>5, <1>7
<1>11. st = "authenticating" => Len(TerminateWord(st, tls)) > 0 /\ TerminateWord(st, tls)[1] = "abort"
  BY <1>2, <1>4, <1>6
<1>. QED BY <1>8, <1>9, <1>10, <1>11 DEF None, b

\* An end whose TLS layer is to be closed once its word is written.
Ending(X, Y, ks) ==
  /\ Y \in Ends /\ SameSetup(X, Y) /\ Y.told = X.told /\ Y.bad = X.bad /\ Y.tcp = X.tcp
  /\ Y.st = "closing_gnutls" /\ (Y.tls => X.tls) /\ Y.nested = X.nested
  /\ Y.out = X.out \o Control(ks) /\ Y.pos = X.pos + Len(ks)
  /\ Y.msgs \in {X.msgs, <<>>}

\* What inf_xmpp_connection_terminate has sent, before it changes the status.
TerminateSent(X) ==
  LET aborted == IF X.st = "authenticating" THEN SendChars(X, "abort") ELSE X
      ended   == IF X.st \in {"connected", "auth_connected", "closing_stream"} THEN X
                 ELSE SendChars(aborted, "end")
  IN  IF X.st \in {"handshaking", "encryption_requested"} THEN X
      ELSE IF X.tls THEN Push(ended, <<Unit("bye")>>) ELSE ended

LEMMA TerminateSends ==
  ASSUME NEW X \in Ends, X.st # "closed"
  PROVE  TerminateSent(X) = Push(X, Control(TerminateWord(X.st, X.tls)))
<1>1. "abort" \in Kinds /\ "end" \in Kinds /\ "bye" \in Kinds
  BY DEF Kinds
<1>2. <<Unit("bye")>> = Control(<<"bye">>)
  BY <1>1, ControlOne
<1>3. X = Push(X, Control(<<>>))
  BY PushNothing
<1>4. CASE X.st \in {"handshaking", "encryption_requested"}
  BY <1>3, <1>4 DEF TerminateSent, TerminateWord
<1>5. CASE X.st \in {"connected", "auth_connected", "closing_stream"}
  BY <1>2, <1>3, <1>5 DEF TerminateSent, TerminateWord
<1>6. CASE X.st = "authenticating"
  <2>. DEFINE A == Push(X, Control(<<"abort">>))
  <2>1. A = SendChars(X, "abort") /\ A \in Ends /\ A.st = X.st
    BY <1>1, <1>6, Tuples, Pushed, SendCharsPushes DEF SameState
  <2>2. SendChars(A, "end") = Push(X, Control(<<"abort">> \o <<"end">>))
    <3>1. SendChars(A, "end") = Push(A, Control(<<"end">>))
      BY <1>1, <1>6, <2>1, SendCharsPushes
    <3>2. <<"abort">> \in Seq(Kinds) /\ <<"end">> \in Seq(Kinds)
      BY <1>1, Tuples
    <3>. QED BY <3>1, <3>2, PushTwice
  <2>3. <<"abort">> \o <<"end">> \in Seq(Kinds) /\ <<"bye">> \in Seq(Kinds)
    BY <1>1, Tuples, ConcatKinds
  <2>4. Push(Push(X, Control(<<"abort">> \o <<"end">>)), Control(<<"bye">>))
          = Push(X, Control((<<"abort">> \o <<"end">>) \o <<"bye">>))
    BY <2>3, PushTwice
  <2>. HIDE DEF A
  <2>. QED BY <1>2, <1>6, <2>1, <2>2, <2>4 DEF TerminateSent, TerminateWord
<1>7. CASE X.st \notin {"handshaking", "encryption_requested", "connected", "auth_connected",
                        "closing_stream", "authenticating"}
  <2>1. SendChars(X, "end") = Push(X, Control(<<"end">>))
    BY <1>1, <1>7, SendCharsPushes
  <2>2. <<"end">> \in Seq(Kinds) /\ <<"bye">> \in Seq(Kinds)
    BY <1>1, Tuples
  <2>3. Push(Push(X, Control(<<"end">>)), Control(<<"bye">>)) = Push(X, Control(<<"end">> \o <<"bye">>))
    BY <2>2, PushTwice
  <2>. QED BY <1>2, <1>7, <2>1, <2>3 DEF TerminateSent, TerminateWord
<1>. QED BY <1>4, <1>5, <1>6, <1>7

LEMMA TerminateEnds ==
  ASSUME NEW X \in Ends, X.st \notin {"closed", "closing_gnutls", "connecting"},
         NEW parsing \in BOOLEAN
  PROVE  LET Y == Terminate(X, parsing)
         IN  /\ Ending(X, Y, TerminateWord(X.st, X.tls))
             /\ ~parsing => Y.sasl = "none" /\ ~Y.wait
<1>. DEFINE ks == TerminateWord(X.st, X.tls)
            Z == Push(X, Control(ks))
            W == IF parsing THEN Z ELSE Clear(Z)
            Y == [W EXCEPT !.st = "closing_gnutls"]
<1>1. ks \in Seq(Kinds) /\ X.tls \in BOOLEAN
  BY TerminateWords, EndFields
<1>2. TerminateSent(X) = Z
  BY TerminateSends
<1>3. Z \in Ends /\ SameState(X, Z) /\ Z.out = X.out \o Control(ks) /\ Z.pos = X.pos + Len(ks)
  BY <1>1, Pushed
<1>4. Terminate(X, parsing) = Y
  <2>. DEFINE A == IF X.st = "authenticating" THEN SendChars(X, "abort") ELSE X
              B == IF X.st \in {"connected", "auth_connected", "closing_stream"} THEN X
                   ELSE SendChars(A, "end")
  <2>1. "abort" \in Kinds /\ "end" \in Kinds
    BY DEF Kinds
  <2>2. A \in Ends /\ A.st = X.st
    BY <2>1, SendCharsKeeps
  <2>3. B.st = X.st
    <3>. HIDE DEF A
    <3>. QED BY <2>1, <2>2, SendCharsKeeps
  <2>4. CASE X.st \in {"handshaking", "encryption_requested"}
    <3>1. Z = X
      BY <1>2, <2>4 DEF TerminateSent
    <3>. HIDE DEF Z, ks
    <3>. QED BY <2>4, <3>1 DEF Terminate, Require
  <2>5. CASE X.st \notin {"handshaking", "encryption_requested"}
    <3>1. Z = IF X.tls THEN Push(B, <<Unit("bye")>>) ELSE B
      BY <1>2, <2>5 DEF TerminateSent
    <3>2. Z.st # "closed"
      BY <1>3 DEF SameState
    <3>. HIDE DEF Z, ks
    <3>3. (CASE X.st \in {"connected", "auth_connected", "closing_stream"} -> X
             [] A.st = "closed" -> A
             [] OTHER -> SendChars(A, "end")) = B
      BY <2>2
    <3>. HIDE DEF A
    <3>4. (IF B.st # "closed" /\ X.tls THEN Push(B, <<Unit("bye")>>) ELSE B) = Z
      BY <2>3, <3>1
    <3>. HIDE DEF B
    <3>. QED BY <2>5, <3>2, <3>3, <3>4 DEF Terminate, Require, A
  <2>. QED BY <2>4, <2>5
<1>. HIDE DEF ks, Z
<1>5. /\ W \in Ends /\ SameSetup(X, W) /\ W.told = X.told /\ W.bad = X.bad /\ W.tcp = X.tcp
      /\ W.nested = X.nested /\ (W.tls => X.tls) /\ W.out = X.out \o Control(ks)
      /\ W.pos = X.pos + Len(ks) /\ W.msgs \in {X.msgs, <<>>}
      /\ ~parsing => W.sasl = "none" /\ ~W.wait
  <2>1. CASE parsing
    <3>1. W = Z
      BY <2>1
    <3>. QED BY <1>3, <2>1, <3>1 DEF SameState, SameSetup
  <2>2. CASE ~parsing
    <3>1. W = Clear(Z)
      BY <2>2
    <3>. HIDE DEF W
    <3>. QED BY <1>3, <2>2, <3>1, ClearFacts DEF SameState, SameSetup
  <2>. QED BY <2>1, <2>2
<1>. HIDE DEF W
<1>6. Y \in Ends
  BY <1>5 DEF Ends, Over, Closing
<1>7. /\ Y.st = "closing_gnutls" /\ SameSetup(W, Y) /\ Y.told = W.told /\ Y.bad = W.bad
      /\ Y.tcp = W.tcp /\ Y.nested = W.nested /\ Y.tls = W.tls /\ Y.out = W.out /\ Y.pos = W.pos
      /\ Y.msgs = W.msgs /\ Y.sasl = W.sasl /\ Y.wait = W.wait
  BY <1>5 DEF Ends, SameSetup
<1>. HIDE DEF Y
<1>8. Ending(X, Y, ks)
  BY <1>5, <1>6, <1>7 DEF Ending, SameSetup
<1>. QED BY <1>4, <1>5, <1>7, <1>8 DEF Y, ks

\* Going on without a word.
Turns(X, Y) ==
  /\ Y \in Ends /\ SameSetup(X, Y) /\ Y.msgs = X.msgs /\ Y.told = X.told /\ Y.bad = X.bad
  /\ Y.tcp = X.tcp /\ (Y.nested => X.nested) /\ Y.out = X.out /\ Y.pos = X.pos

LEMMA OutTwice ==
  ASSUME NEW out \in Seq(Units), NEW a \in Seq(Kinds), NEW b \in Seq(Kinds)
  PROVE  (out \o Control(a)) \o Control(b) = out \o Control(a \o b)
<1>1. Control(a) \in Seq(Units) /\ Control(b) \in Seq(Units)
  BY ControlFacts
<1>2. (out \o Control(a)) \o Control(b) = out \o (Control(a) \o Control(b))
  BY <1>1, Associate
<1>. QED BY <1>2, ControlConcat

LEMMA TurnsGoes ==
  ASSUME NEW X \in Ends, NEW Y
  PROVE  Turns(X, Y) <=> Goes(X, Y, <<>>)
<1>1. Control(<<>>) = <<>>
  BY DEF Control
<1>2. X.out \o Control(<<>>) = X.out /\ X.pos + Len(<<>>) = X.pos
  BY <1>1, EndFields, ConcatEmptySeq
<1>. QED BY <1>2 DEF Turns, Goes

LEMMA GoesTwice ==
  ASSUME NEW X \in Ends, NEW a \in Seq(Kinds), NEW b \in Seq(Kinds), NEW Z, NEW Y,
         Goes(X, Z, a), Goes(Z, Y, b)
  PROVE  Goes(X, Y, a \o b)
<1>1. Y.out = X.out \o Control(a \o b)
  <2>1. X.out \in Seq(Units)
    BY EndFields
  <2>2. Z.out = X.out \o Control(a) /\ Y.out = Z.out \o Control(b)
    BY DEF Goes
  <2>3. Y.out = (X.out \o Control(a)) \o Control(b)
    BY <2>2
  <2>4. (X.out \o Control(a)) \o Control(b) = X.out \o Control(a \o b)
    BY <2>1, OutTwice
  <2>. QED BY <2>3, <2>4
<1>2. Y.pos = X.pos + Len(a \o b)
  <2>1. Len(a) \in Nat /\ Len(b) \in Nat /\ Len(a \o b) = Len(a) + Len(b) /\ X.pos \in Int
    BY ConcatKinds, EndFields
  <2>2. Y.pos = (X.pos + Len(a)) + Len(b)
    BY DEF Goes
  <2>. QED BY <2>1, <2>2
<1>. QED BY <1>1, <1>2 DEF Goes, SameSetup

LEMMA EndingAfter ==
  ASSUME NEW X \in Ends, NEW a \in Seq(Kinds), NEW b \in Seq(Kinds), NEW Z, NEW Y,
         Goes(X, Z, a), Z.nested = X.nested, Ending(Z, Y, b), Y.tls => X.tls
  PROVE  Ending(X, Y, a \o b)
<1>1. Y.out = X.out \o Control(a \o b)
  <2>1. X.out \in Seq(Units)
    BY EndFields
  <2>2. Z.out = X.out \o Control(a) /\ Y.out = Z.out \o Control(b)
    BY DEF Goes, Ending
  <2>3. Y.out = (X.out \o Control(a)) \o Control(b)
    BY <2>2
  <2>4. (X.out \o Control(a)) \o Control(b) = X.out \o Control(a \o b)
    BY <2>1, OutTwice
  <2>. QED BY <2>3, <2>4
<1>2. Y.pos = X.pos + Len(a \o b)
  <2>1. Len(a) \in Nat /\ Len(b) \in Nat /\ Len(a \o b) = Len(a) + Len(b) /\ X.pos \in Int
    BY ConcatKinds, EndFields
  <2>2. Y.pos = (X.pos + Len(a)) + Len(b)
    BY DEF Goes, Ending
  <2>. QED BY <2>1, <2>2
<1>. QED BY <1>1, <1>2 DEF Goes, Ending, SameSetup

LEMMA EndingAfterTurn ==
  ASSUME NEW X \in Ends, NEW Z, NEW Y, NEW ks,
         Turns(X, Z), Z.nested = X.nested, Ending(Z, Y, ks), Y.tls => X.tls
  PROVE  Ending(X, Y, ks)
BY DEF Turns, Ending, SameSetup

LEMMA ClosesAfterTurn ==
  ASSUME NEW X \in Ends, NEW Z, NEW Y, NEW ks,
         Turns(X, Z), Closes(Z, Y, ks), Y.tls => X.tls
  PROVE  Closes(X, Y, ks)
BY DEF Turns, Closes, SameSetup

LEMMA EndingCloses ==
  ASSUME NEW X \in Ends, NEW Y, NEW ks, Ending(X, Y, ks), Y.sasl = "none", ~Y.wait
  PROVE  Closes(X, Y, ks)
BY DEF Ending, Closes, Closing

\* inf_xmpp_connection_received_cb closes TCP when all that is queued is written.
LEMMA LastMessage ==
  ASSUME NEW X \in Ends, NEW Y, NEW ks, Ending(X, Y, ks)
  PROVE  LET L == PushMessage(Clear(Y), 0)
         IN  Closes(X, L, ks) /\ L.nested = X.nested
<1>. DEFINE Z == Clear(Y)
            m == [pos |-> Z.pos, id |-> 0]
<1>0. Y \in Ends
  BY DEF Ending
<1>1. /\ Z \in Ends /\ SameSetup(Y, Z) /\ Z.st = Y.st /\ Z.tcp = Y.tcp /\ Z.out = Y.out
      /\ Z.pos = Y.pos /\ Z.told = Y.told /\ Z.bad = Y.bad /\ Z.nested = Y.nested
      /\ Z.sasl = "none" /\ Z.tls = FALSE /\ Z.msgs = <<>> /\ Z.wait = FALSE
  BY <1>0, ClearFacts
<1>2. m \in Messages
  BY <1>1, EndFields DEF Messages
<1>. HIDE DEF Z
<1>3. CASE Z.pos = 0
  <2>1. PushMessage(Z, 0) = TcpClose(Z)
    BY <1>3 DEF PushMessage
  <2>2. Closes(Z, TcpClose(Z), ks) /\ TcpClose(Z).nested = Z.nested /\ TcpClose(Z).st = "closed"
    BY <1>1, TcpCloseCloses
  <2>3. Closes(X, TcpClose(Z), ks)
    BY <1>1, <2>2 DEF Closes, Ending, SameSetup, Closing
  <2>. QED BY <1>1, <2>1, <2>2, <2>3 DEF Ending, Z
<1>4. CASE Z.pos # 0
  <2>. DEFINE q == <<m>>
              W == [Z EXCEPT !.msgs = q]
  <2>1. PushMessage(Z, 0) = W
    BY <1>1, <1>4 DEF PushMessage
  <2>2. q \in Seq(Messages)
    BY <1>2
  <2>3. q = <<[pos |-> Y.pos, id |-> 0]>>
    BY <1>1
  <2>. HIDE DEF q
  <2>4. W \in Ends
    BY <1>1, <2>2 DEF Ends
  <2>5. /\ W.msgs = q /\ SameSetup(Z, W) /\ W.st = Z.st /\ W.tcp = Z.tcp /\ W.out = Z.out
        /\ W.pos = Z.pos /\ W.told = Z.told /\ W.bad = Z.bad /\ W.nested = Z.nested
        /\ W.sasl = Z.sasl /\ W.tls = Z.tls /\ W.wait = Z.wait
    BY <1>1 DEF Ends, SameSetup
  <2>. HIDE DEF W
  <2>6. Closes(X, W, ks) /\ W.nested = X.nested
    BY <1>1, <2>3, <2>4, <2>5 DEF Closes, Ending, SameSetup, Closing
  <2>. QED BY <2>1, <2>6 DEF Z
<1>. QED BY <1>3, <1>4

LEMMA TerminateCloses ==
  ASSUME NEW X \in Ends, X.st \notin {"closed", "closing_gnutls", "connecting"}
  PROVE  Closes(X, Terminate(X, FALSE), TerminateWord(X.st, X.tls))
BY TerminateEnds, EndingCloses

LEMMA SendCharsGoes ==
  ASSUME NEW X \in Ends, NEW k \in Kinds, X.st \notin {"handshaking", "closed"}
  PROVE  LET Y == SendChars(X, k)
         IN  /\ Goes(X, Y, <<k>>) /\ Y.st = X.st /\ Y.tls = X.tls /\ Y.sasl = X.sasl
             /\ Y.wait = X.wait /\ Y.nested = X.nested
<1>. DEFINE ks == <<k>>
<1>1. ks \in Seq(Kinds)
  BY Tuples
<1>2. SendChars(X, k) = Push(X, Control(ks))
  BY SendCharsPushes
<1>. HIDE DEF ks
<1>3. Goes(X, Push(X, Control(ks)), ks) /\ SameState(X, Push(X, Control(ks)))
  BY <1>1, Pushed DEF Goes, SameState
<1>. QED BY <1>2, <1>3 DEF SameState, ks

LEMMA TerminateErrorEnds ==
  ASSUME NEW X \in Ends,
         X.st \notin {"closed", "closing_gnutls", "connecting", "handshaking", "encryption_requested"}
  PROVE  Ending(X, TerminateError(X), <<"error">> \o TerminateWord(X.st, X.tls))
<1>. DEFINE Z == SendChars(X, "error")
<1>1. "error" \in Kinds /\ TerminateWord(X.st, X.tls) \in Seq(Kinds) /\ <<"error">> \in Seq(Kinds)
  <2>1. "error" \in Kinds
    BY DEF Kinds
  <2>2. <<"error">> \in Seq(Kinds)
    BY <2>1, Tuples
  <2>3. TerminateWord(X.st, X.tls) \in Seq(Kinds)
    <3>1. X.tls \in BOOLEAN
      BY EndFields
    <3>. QED BY <3>1, TerminateWords
  <2>. QED BY <2>1, <2>2, <2>3
<1>2. Goes(X, Z, <<"error">>) /\ Z.st = X.st /\ Z.tls = X.tls /\ Z.nested = X.nested /\ Z \in Ends
  <2>. DEFINE k == "error"
  <2>1. k \in Kinds /\ X.st \notin {"handshaking", "closed"}
    BY <1>1
  <2>. HIDE DEF k
  <2>2. /\ Goes(X, SendChars(X, k), <<k>>) /\ SendChars(X, k).st = X.st
        /\ SendChars(X, k).tls = X.tls /\ SendChars(X, k).nested = X.nested
    BY <2>1, SendCharsGoes
  <2>3. SendChars(X, k) \in Ends
    BY <2>2 DEF Goes
  <2>. QED BY <2>2, <2>3 DEF k
<1>3. TerminateError(X) = Terminate(Z, TRUE)
  BY DEF TerminateError, Require
<1>. HIDE DEF Z
<1>4. Ending(Z, Terminate(Z, TRUE), TerminateWord(X.st, X.tls))
  BY <1>2, TerminateEnds
<1>5. Terminate(Z, TRUE).tls => X.tls
  BY <1>2, <1>4 DEF Ending
<1>. DEFINE ks == TerminateWord(X.st, X.tls)
            one == <<"error">>
<1>6. ks \in Seq(Kinds) /\ one \in Seq(Kinds)
  BY <1>1
<1>7. Goes(X, Z, one) /\ Ending(Z, Terminate(Z, TRUE), ks)
  BY <1>2, <1>4
<1>. HIDE DEF ks, one
<1>8. Ending(X, Terminate(Z, TRUE), one \o ks)
  BY <1>2, <1>5, <1>6, <1>7, EndingAfter
<1>. QED BY <1>3, <1>8 DEF ks, one

LEMMA DeinitiateCloses ==
  ASSUME NEW X \in Ends, X.sasl = "none", ~X.wait,
         X.st \notin Closing \cup {"connected", "auth_connected", "handshaking", "closed"}
  PROVE  LET Y == Deinitiate(X)
         IN  Closes(X, Y, <<"end">>) /\ Y.nested = X.nested /\ Y.st = "closing_stream"
<1>. DEFINE Z == SendChars(X, "end")
            Y == [Z EXCEPT !.st = "closing_stream"]
<1>1. "end" \in Kinds
  BY DEF Kinds
<1>2. /\ Goes(X, Z, <<"end">>) /\ Z.st = X.st /\ Z.tls = X.tls /\ Z.nested = X.nested /\ Z \in Ends
      /\ Z.sasl = "none" /\ ~Z.wait
  BY <1>1, SendCharsGoes DEF Goes
<1>3. Deinitiate(X) = Y
  BY DEF Deinitiate, Require
<1>. HIDE DEF Z
<1>4. Y \in Ends
  BY <1>2 DEF Ends, Over, Closing
<1>5. /\ Y.st = "closing_stream" /\ SameSetup(Z, Y) /\ Y.told = Z.told /\ Y.bad = Z.bad
      /\ Y.tcp = Z.tcp /\ Y.nested = Z.nested /\ Y.tls = Z.tls /\ Y.out = Z.out /\ Y.pos = Z.pos
      /\ Y.msgs = Z.msgs /\ Y.sasl = Z.sasl /\ Y.wait = Z.wait
  BY <1>2 DEF Ends, SameSetup
<1>. HIDE DEF Y
<1>6. Closes(X, Y, <<"end">>) /\ Y.nested = X.nested
  BY <1>2, <1>4, <1>5 DEF Goes, Closes, SameSetup, Closing
<1>. QED BY <1>3, <1>5, <1>6

States == ClientStates \cup ServerStates \cup Over

\* The end goes on in a state that is known.
Reaches(X, Y, ks, st, tls, sasl, wait) ==
  Goes(X, Y, ks) /\ Y.st = st /\ Y.tls = tls /\ Y.sasl = sasl /\ Y.wait = wait

Moves(X, Y, st, tls, sasl, wait, nested) ==
  Turns(X, Y) /\ Y.st = st /\ Y.tls = tls /\ Y.sasl = sasl /\ Y.wait = wait /\ Y.nested = nested

LEMMA MoveSt ==
  ASSUME NEW X \in Ends, NEW st \in States
  PROVE  Moves(X, [X EXCEPT !.st = st], st, X.tls, X.sasl, X.wait, X.nested)
BY DEF Ends, Turns, SameSetup, States, Moves

LEMMA MoveStSasl ==
  ASSUME NEW X \in Ends, NEW st \in States, NEW sasl \in {"none", "idle", "busy"}
  PROVE  Moves(X, [X EXCEPT !.st = st, !.sasl = sasl], st, X.tls, sasl, X.wait, X.nested)
BY DEF Ends, Turns, SameSetup, States, Moves

LEMMA MoveSaslSt ==
  ASSUME NEW X \in Ends, NEW st \in States, NEW sasl \in {"none", "idle", "busy"}
  PROVE  Moves(X, [X EXCEPT !.sasl = sasl, !.st = st], st, X.tls, sasl, X.wait, X.nested)
BY DEF Ends, Turns, SameSetup, States, Moves

LEMMA MoveSasl ==
  ASSUME NEW X \in Ends, NEW sasl \in {"none", "idle", "busy"}
  PROVE  Moves(X, [X EXCEPT !.sasl = sasl], X.st, X.tls, sasl, X.wait, X.nested)
BY DEF Ends, Turns, SameSetup, Moves

LEMMA MoveTlsSt ==
  ASSUME NEW X \in Ends, NEW st \in States, NEW tls \in BOOLEAN
  PROVE  Moves(X, [X EXCEPT !.tls = tls, !.st = st], st, tls, X.sasl, X.wait, X.nested)
BY DEF Ends, Turns, SameSetup, States, Moves

LEMMA MoveWait ==
  ASSUME NEW X \in Ends, NEW wait \in BOOLEAN
  PROVE  Moves(X, [X EXCEPT !.wait = wait], X.st, X.tls, X.sasl, wait, X.nested)
BY DEF Ends, Turns, SameSetup, Moves

LEMMA MoveNested ==
  ASSUME NEW X \in Ends
  PROVE  Moves(X, [X EXCEPT !.nested = FALSE], X.st, X.tls, X.sasl, X.wait, FALSE)
BY DEF Ends, Turns, SameSetup, Moves

LEMMA GoesThenTurns ==
  ASSUME NEW X \in Ends, NEW Z, NEW Y, NEW ks, Goes(X, Z, ks), Turns(Z, Y)
  PROVE  Goes(X, Y, ks)
BY DEF Goes, Turns, SameSetup

LEMMA TurnsThenGoes ==
  ASSUME NEW X \in Ends, NEW Z, NEW Y, NEW ks, Turns(X, Z), Goes(Z, Y, ks)
  PROVE  Goes(X, Y, ks)
BY DEF Goes, Turns, SameSetup

LEMMA InitiateReaches ==
  ASSUME NEW X \in Ends, X.st \in {"connected", "auth_connected"}
  PROVE  LET Y == Initiate(X)
         IN  /\ X.site = "client" =>
                  Reaches(X, Y, <<"stream">>,
                          IF X.st = "connected" THEN "initiated" ELSE "auth_initiated",
                          X.tls, X.sasl, X.wait)
             /\ X.site = "server" => Reaches(X, Y, <<>>, X.st, X.tls, X.sasl, X.wait)
             /\ Y.nested = FALSE
<1>. DEFINE A == [X EXCEPT !.nested = FALSE]
            st == IF X.st = "connected" THEN "initiated" ELSE "auth_initiated"
            B == SendChars(A, "stream")
            C == [B EXCEPT !.st = st]
<1>1. /\ Turns(X, A) /\ A.st = X.st /\ A.tls = X.tls /\ A.sasl = X.sasl /\ A.wait = X.wait
      /\ A.nested = FALSE /\ A \in Ends /\ A.site = X.site
  BY MoveNested DEF Moves, Turns, SameSetup
<1>2. Initiate(X) = IF X.site = "server" THEN A ELSE C
  <2>1. "stream" \in Kinds
    BY DEF Kinds
  <2>2. B.st # "closed"
    <3>. HIDE DEF A
    <3>. QED BY <1>1, <2>1, SendCharsKeeps
  <2>. QED BY <1>1, <2>2 DEF Initiate, Require
<1>3. "stream" \in Kinds /\ st \in States
  BY DEF Kinds, States, ClientStates
<1>4. CASE X.site = "server"
  <2>1. Goes(X, A, <<>>)
    BY <1>1, TurnsGoes
  <2>. QED BY <1>1, <1>2, <1>4, <2>1 DEF Reaches
<1>5. CASE X.site = "client"
  <2>. HIDE DEF A
  <2>1. /\ Goes(A, B, <<"stream">>) /\ B.tls = A.tls /\ B.sasl = A.sasl /\ B.wait = A.wait
        /\ B.nested = A.nested
    BY <1>1, <1>3, SendCharsGoes
  <2>2. B \in Ends
    BY <2>1 DEF Goes
  <2>. HIDE DEF B, st
  <2>3. /\ Turns(B, C) /\ C.st = st /\ C.tls = B.tls /\ C.sasl = B.sasl /\ C.wait = B.wait
        /\ C.nested = B.nested
    BY <1>3, <2>2, MoveSt DEF Moves
  <2>. HIDE DEF C
  <2>4. Goes(X, C, <<"stream">>)
    BY <1>1, <2>1, <2>3, GoesThenTurns, TurnsThenGoes
  <2>. QED BY <1>1, <1>2, <1>5, <2>1, <2>3, <2>4 DEF Reaches, st
<1>. QED BY <1>4, <1>5, EndFields DEF Sites

LEMMA ReachesByMove ==
  ASSUME NEW X \in Ends, NEW Z, NEW Y, NEW ks, NEW st, NEW tls, NEW sasl, NEW wait, NEW nested,
         Goes(X, Z, ks), Moves(Z, Y, st, tls, sasl, wait, nested)
  PROVE  Reaches(X, Y, ks, st, tls, sasl, wait)
BY GoesThenTurns DEF Moves, Reaches

LEMMA MovesReaches ==
  ASSUME NEW X \in Ends, NEW Y, NEW st, NEW tls, NEW sasl, NEW wait, NEW nested,
         Moves(X, Y, st, tls, sasl, wait, nested)
  PROVE  Reaches(X, Y, <<>>, st, tls, sasl, wait) /\ Y \in Ends
BY TurnsGoes DEF Moves, Reaches, Turns

LEMMA SendMoves ==
  ASSUME NEW X \in Ends, NEW k \in Kinds, X.st \notin {"handshaking", "closed"},
         NEW st \in States, NEW sasl \in {"none", "idle", "busy"}
  PROVE  /\ Reaches(X, [SendChars(X, k) EXCEPT !.st = st], <<k>>, st, X.tls, X.sasl, X.wait)
         /\ Reaches(X, [SendChars(X, k) EXCEPT !.st = st, !.sasl = sasl],
                    <<k>>, st, X.tls, sasl, X.wait)
         /\ Reaches(X, [SendChars(X, k) EXCEPT !.sasl = sasl, !.st = st],
                    <<k>>, st, X.tls, sasl, X.wait)
         /\ Reaches(X, [SendChars(X, k) EXCEPT !.sasl = sasl], <<k>>, X.st, X.tls, sasl, X.wait)
<1>. DEFINE Z == SendChars(X, k)
            ks == <<k>>
<1>1. /\ Goes(X, Z, ks) /\ Z.st = X.st /\ Z.tls = X.tls /\ Z.sasl = X.sasl /\ Z.wait = X.wait
      /\ Z \in Ends
  BY SendCharsGoes DEF Goes
<1>. HIDE DEF Z, ks
<1>2. Reaches(X, [Z EXCEPT !.st = st], ks, st, X.tls, X.sasl, X.wait)
  BY <1>1, MoveSt, ReachesByMove
<1>3. Reaches(X, [Z EXCEPT !.st = st, !.sasl = sasl], ks, st, X.tls, sasl, X.wait)
  BY <1>1, MoveStSasl, ReachesByMove
<1>4. Reaches(X, [Z EXCEPT !.sasl = sasl, !.st = st], ks, st, X.tls, sasl, X.wait)
  BY <1>1, MoveSaslSt, ReachesByMove
<1>5. Reaches(X, [Z EXCEPT !.sasl = sasl], ks, X.st, X.tls, sasl, X.wait)
  BY <1>1, MoveSasl, ReachesByMove
<1>. QED BY <1>2, <1>3, <1>4, <1>5 DEF Z, ks

\* An end closes; the other one, wherever it is, can take what it sends.  A client that is late
\* closes after its authentication has failed, or while its SASL context works.
ClosesLate(X, Y) ==
  \E ks \in Seq(Kinds) :
    /\ Closes(X, Y, ks)
    /\ \A i \in 1..Len(ks) : ks[i] \in EndKinds
    /\ \/ X.st \in {"connecting", "connected", "auth_connected", "encryption_requested"}
       \/ X.st = "handshaking" /\ X.site = "client"
       => ks \in {<<>>, <<"bye">>}
ClosesWell(X, Y) ==
  \E ks \in Seq(Kinds) :
    /\ Closes(X, Y, ks)
    /\ \A i \in 1..Len(ks) : ks[i] \in EndKinds
    /\ \/ X.st \in {"connecting", "connected", "auth_connected", "encryption_requested"}
       \/ X.st = "handshaking" /\ X.site = "client"
       => ks \in {<<>>, <<"bye">>}
    /\ X.st = "authenticating" => Len(ks) = 0 \/ ks[1] = "abort"

LEMMA WellLate ==
  ASSUME NEW X, NEW Y, ClosesWell(X, Y)
  PROVE  ClosesLate(X, Y)
BY DEF ClosesWell, ClosesLate

LEMMA SilentlyWell ==
  ASSUME NEW X \in Ends, NEW Y, Closes(X, Y, <<>>)
  PROVE  ClosesWell(X, Y)
<1>. DEFINE ks == <<>>
<1>1. ks \in Seq(Kinds) /\ Len(ks) = 0 /\ ks = <<>> /\ Closes(X, Y, ks)
  OBVIOUS
<1>. HIDE DEF ks
<1>2. \A i \in 1..Len(ks) : ks[i] \in EndKinds
  BY <1>1
<1>. QED BY <1>1, <1>2 DEF ClosesWell

LEMMA TcpCloseWell ==
  ASSUME NEW X \in Ends
  PROVE  ClosesWell(X, TcpClose(X))
BY TcpCloseCloses, SilentlyWell

LEMMA TerminateWell ==
  ASSUME NEW X \in Ends, X.st \notin {"closed", "closing_gnutls", "connecting"}
  PROVE  /\ ClosesWell(X, Terminate(X, FALSE))
         /\ ClosesWell(X, PushMessage(Clear(Terminate(X, TRUE)), 0))
         /\ Terminate(X, TRUE).st = "closing_gnutls"
<1>. DEFINE ks == TerminateWord(X.st, X.tls)
<1>1. /\ ks \in Seq(Kinds) /\ \A i \in 1..Len(ks) : ks[i] \in EndKinds
      /\ X.st = "authenticating" => Len(ks) > 0 /\ ks[1] = "abort"
      /\ X.st \in {"connected", "auth_connected", "closing_stream", "handshaking",
                   "encryption_requested"} => ks \in {<<>>, <<"bye">>}
  BY TerminateWords, EndFields
<1>2. Closes(X, Terminate(X, FALSE), ks)
  BY TerminateCloses
<1>3. Ending(X, Terminate(X, TRUE), ks)
  BY TerminateEnds
<1>4. Closes(X, PushMessage(Clear(Terminate(X, TRUE)), 0), ks)
  BY <1>3, LastMessage
<1>. HIDE DEF ks
<1>. QED BY <1>1, <1>2, <1>3, <1>4 DEF ClosesWell, Ending

LEMMA TerminateErrorWell ==
  ASSUME NEW X \in Ends,
         X.st \notin {"closed", "closing_gnutls", "connecting", "connected", "auth_connected",
                      "handshaking", "encryption_requested", "authenticating"}
  PROVE  /\ ClosesWell(X, PushMessage(Clear(TerminateError(X)), 0))
         /\ TerminateError(X).st = "closing_gnutls"
<1>. DEFINE tw == TerminateWord(X.st, X.tls)
            one == <<"error">>
            ks == one \o tw
<1>1. tw \in Seq(Kinds) /\ \A i \in 1..Len(tw) : tw[i] \in EndKinds
  BY TerminateWords, EndFields
<1>2. one \in Seq(Kinds) /\ \A i \in 1..Len(one) : one[i] \in EndKinds
  BY Tuples DEF Kinds, EndKinds
<1>3. Ending(X, TerminateError(X), ks)
  BY TerminateErrorEnds
<1>. HIDE DEF tw, one
<1>4. ks \in Seq(Kinds) /\ \A i \in 1..Len(ks) : ks[i] \in EndKinds
  BY <1>1, <1>2, ConcatAll, ConcatKinds
<1>. HIDE DEF ks
<1>5. Closes(X, PushMessage(Clear(TerminateError(X)), 0), ks)
  BY <1>3, LastMessage
<1>. QED BY <1>3, <1>4, <1>5 DEF ClosesWell, Ending

LEMMA DeinitiateWell ==
  ASSUME NEW X \in Ends, X.sasl = "none", ~X.wait,
         X.st \in {"initiated", "awaiting_features", "auth_initiated", "auth_awaiting_features",
                   "ready"}
  PROVE  ClosesWell(X, Deinitiate(X)) /\ Deinitiate(X).st = "closing_stream"
<1>. DEFINE ks == <<"end">>
<1>1. ks \in Seq(Kinds) /\ \A i \in 1..Len(ks) : ks[i] \in EndKinds
  BY Tuples DEF Kinds, EndKinds
<1>2. Closes(X, Deinitiate(X), ks) /\ Deinitiate(X).st = "closing_stream"
  BY DeinitiateCloses DEF Closing
<1>. HIDE DEF ks
<1>. QED BY <1>1, <1>2 DEF ClosesWell

LEMMA WellAfterTurn ==
  ASSUME NEW X \in Ends, NEW Z, NEW Y, Turns(X, Z), ClosesLate(Z, Y),
         Y.tls => X.tls, X.st = "authenticating"
  PROVE  ClosesLate(X, Y)
<1>1. PICK ks \in Seq(Kinds) : Closes(Z, Y, ks) /\ \A i \in 1..Len(ks) : ks[i] \in EndKinds
  BY DEF ClosesLate
<1>2. Closes(X, Y, ks)
  BY <1>1, ClosesAfterTurn
<1>. QED BY <1>1, <1>2 DEF ClosesLate

(***************************************************************************)
(* What an open end does with what it receives                             *)
(***************************************************************************)
LEMMA ReceiveCases ==
  ASSUME NEW X \in Ends, NEW e \in Units, NEW outcome, X.st # "closing_gnutls"
  PROVE  /\ e.k = "fin" => Receive(X, e, outcome) = TcpClose(X)
         /\ e.k = "bye" /\ X.st # "handshaking" => Receive(X, e, outcome) = TcpClose(X)
         /\ e.k \notin {"fin", "bye"} /\ X.st # "handshaking" =>
              Receive(X, e, outcome) = Finish(Element(X, e, outcome = "retry"))
         /\ e.k # "fin" /\ X.st = "handshaking" =>
              Receive(X, e, outcome) = Finish(TlsHandshake(X, e.k, outcome))
<1>1. TcpClose(X).st = "closed" /\ Clear(TcpClose(X)) = TcpClose(X)
  BY TcpCloseCloses, ClearClosed
<1>. QED BY <1>1 DEF Receive, Finish

LEMMA FinishCloses ==
  ASSUME NEW X \in Ends, X.st \notin {"closed", "closing_gnutls", "connecting"}
  PROVE  ClosesWell(X, Finish(Terminate(X, TRUE)))
BY TerminateWell DEF Finish

Same(X, Y) == Reaches(X, Y, <<>>, X.st, X.tls, X.sasl, X.wait)

LEMMA SameEnd ==
  ASSUME NEW X \in Ends
  PROVE  Same(X, X)
<1>1. Turns(X, X)
  BY DEF Turns, SameSetup
<1>. QED BY <1>1, TurnsGoes DEF Same, Reaches

\* An end that is neither nested nor closing nor bad.
Fresh(X) == X \in Ends /\ EndOK(X) /\ X.tcp = "connected" /\ IsOpen(X)

LEMMA FreshFacts ==
  ASSUME NEW X, Fresh(X)
  PROVE  /\ X \in Ends /\ ~X.nested /\ ~X.bad /\ X.st \notin Over /\ X.st # "connecting"
         /\ X.st # "authenticating" => X.sasl = "none"
         /\ X.st # "connected" => ~X.wait
BY DEF Fresh, EndOK, IsOpen

LEMMA ReadFin ==
  ASSUME NEW X, Fresh(X), NEW e \in Units, NEW outcome,
         e.k = "fin" \/ (e.k = "bye" /\ X.st # "handshaking")
  PROVE  ClosesWell(X, Receive(X, e, outcome))
<1>1. Receive(X, e, outcome) = TcpClose(X) /\ X \in Ends
  BY FreshFacts, ReceiveCases DEF Over, Closing
<1>. QED BY <1>1, TcpCloseWell

LEMMA ReadInitiated ==
  ASSUME NEW X, Fresh(X), X.site = "client", NEW e \in Units, NEW outcome,
         X.st \in {"initiated", "auth_initiated"}
  PROVE  LET R == Receive(X, e, outcome)
         IN  /\ e.k = "stream" /\ X.st = "initiated" =>
                  Reaches(X, R, <<>>, "awaiting_features", X.tls, X.sasl, X.wait)
             /\ e.k = "stream" /\ X.st = "auth_initiated" =>
                  Reaches(X, R, <<>>, "auth_awaiting_features", X.tls, X.sasl, X.wait)
             /\ e.k = "half" => Same(X, R)
             /\ e.k \notin {"stream", "half"} => ClosesWell(X, R)
<1>. DEFINE R == Receive(X, e, outcome)
            E == Element(X, e, outcome = "retry")
            st == IF X.st = "initiated" THEN "awaiting_features" ELSE "auth_awaiting_features"
<1>1. /\ X \in Ends /\ ~X.nested /\ X.st \notin {"closing_gnutls", "closed", "connecting", "handshaking"}
  BY FreshFacts
<1>2. e.k \notin {"fin", "bye"} => R = Finish(E)
  BY <1>1, ReceiveCases
<1>. HIDE DEF E
<1>3. CASE e.k = "stream"
  <2>. DEFINE Y == [X EXCEPT !.st = st]
  <2>1. E = Y
    BY <1>3 DEF E, Element
  <2>2. st \in States
    BY DEF States, ClientStates
  <2>3. Moves(X, Y, st, X.tls, X.sasl, X.wait, X.nested) /\ Y.st = st
    BY <1>1, <2>2, MoveSt DEF Moves
  <2>4. R = Y
    BY <1>2, <1>3, <2>1, <2>3 DEF Finish
  <2>. HIDE DEF Y, st, R
  <2>5. Reaches(X, R, <<>>, st, X.tls, X.sasl, X.wait)
    BY <1>1, <2>3, <2>4, MovesReaches
  <2>. QED BY <1>3, <2>5 DEF st, R
<1>4. CASE e.k = "half"
  <2>1. R = X
    BY <1>1, <1>2, <1>4 DEF E, Element, Finish
  <2>. QED BY <1>1, <1>4, <2>1, SameEnd
<1>5. CASE e.k \in {"fin", "bye"}
  BY <1>1, <1>5, ReadFin
<1>6. CASE e.k \notin {"stream", "half", "fin", "bye"}
  <2>1. E = Terminate(X, TRUE)
    BY <1>1, <1>6 DEF E, Element, Require
  <2>. QED BY <1>1, <1>2, <1>6, <2>1, FinishCloses
<1>. QED BY <1>3, <1>4, <1>5, <1>6

LEMMA ReadEnd ==
  ASSUME NEW X, Fresh(X), NEW e \in Units, NEW outcome, e.k = "end",
         X.st \notin {"connected", "auth_connected", "handshaking"}
  PROVE  ClosesWell(X, Receive(X, e, outcome))
<1>. DEFINE E == Element(X, e, outcome = "retry")
<1>1. /\ X \in Ends /\ ~X.nested /\ X.st \notin {"closing_gnutls", "closed", "connecting"}
  BY FreshFacts DEF Over, Closing
<1>2. Receive(X, e, outcome) = Finish(E)
  BY <1>1, ReceiveCases
<1>3. E = Terminate(X, TRUE)
  BY <1>1 DEF Element, Require
<1>. HIDE DEF E
<1>. QED BY <1>1, <1>2, <1>3, FinishCloses

LEMMA TlsInitReaches ==
  ASSUME NEW X \in Ends, ~X.tls, X.st \notin {"handshaking", "closed"}
  PROVE  LET Y == TlsInit(X)
         IN  /\ X.site = "client" =>
                  Reaches(X, Y, <<"hello">>, "handshaking", TRUE, X.sasl, X.wait)
             /\ X.site = "server" => Reaches(X, Y, <<>>, "handshaking", TRUE, X.sasl, X.wait)
             /\ Y.st = "handshaking"
<1>. DEFINE st == "handshaking"
            tls == TRUE
            A == [X EXCEPT !.tls = tls, !.st = st]
            ks == <<"hello">>
            B == Push(A, <<Unit("hello")>>)
<1>1. st \in States /\ "hello" \in Kinds /\ tls \in BOOLEAN
  BY DEF States, ClientStates, Kinds
<1>2. TlsInit(X) = IF X.site = "client" THEN B ELSE A
  BY DEF TlsInit, Require
<1>3. ks \in Seq(Kinds) /\ B = Push(A, Control(ks))
  BY <1>1, ControlOne, Tuples
<1>. HIDE DEF st, tls
<1>4. Moves(X, A, st, tls, X.sasl, X.wait, X.nested)
  BY <1>1, MoveTlsSt
<1>. HIDE DEF ks, A
<1>5. A \in Ends
  BY <1>4 DEF Moves, Turns
<1>6. /\ Goes(A, Push(A, Control(ks)), ks) /\ SameState(A, Push(A, Control(ks)))
  BY <1>3, <1>5, Pushed DEF Goes, SameState
<1>. HIDE DEF B
<1>7. Reaches(X, B, ks, st, tls, X.sasl, X.wait)
  BY <1>3, <1>4, <1>6, TurnsThenGoes DEF Moves, Reaches, SameState
<1>8. Reaches(X, A, <<>>, st, tls, X.sasl, X.wait)
  BY <1>4, MovesReaches
<1>. QED BY <1>2, <1>7, <1>8 DEF st, tls, ks, Reaches

LEMMA ReadAuthAwaiting ==
  ASSUME NEW X, Fresh(X), X.site = "client", NEW e \in Units, NEW outcome,
         X.st = "auth_awaiting_features"
  PROVE  LET R == Receive(X, e, outcome)
         IN  /\ e.k \in FeatureKinds => Reaches(X, R, <<>>, "ready", X.tls, X.sasl, X.wait)
             /\ e.k \notin FeatureKinds \cup {"stream", "msg"} => Same(X, R) \/ ClosesWell(X, R)
<1>. DEFINE R == Receive(X, e, outcome)
            E == Element(X, e, outcome = "retry")
            st == "ready"
            Y == [X EXCEPT !.st = st]
<1>1. /\ X \in Ends /\ ~X.nested /\ X.st \notin {"closing_gnutls", "closed", "connecting", "handshaking"}
  BY FreshFacts
<1>2. e.k \notin {"fin", "bye"} => R = Finish(E)
  BY <1>1, ReceiveCases
<1>3. CASE e.k \in FeatureKinds
  <2>1. E = Y
    BY <1>1, <1>3 DEF Element, ProcessElement, ProcessFeatures, FeatureKinds
  <2>2. st \in States
    BY DEF States, ClientStates
  <2>3. Moves(X, Y, st, X.tls, X.sasl, X.wait, X.nested) /\ Y.st = st
    BY <1>1, <2>2, MoveSt DEF Moves
  <2>. HIDE DEF Y, E
  <2>4. R = Y
    BY <1>2, <1>3, <2>1, <2>3 DEF Finish, FeatureKinds
  <2>. HIDE DEF st, R
  <2>. QED BY <1>1, <1>3, <2>3, <2>4, MovesReaches DEF st, R
<1>4. CASE e.k \in {"fin", "bye"}
  BY <1>1, <1>4, ReadFin DEF FeatureKinds
<1>5. CASE e.k = "end"
  BY <1>1, <1>5, ReadEnd DEF FeatureKinds
<1>6. CASE e.k \notin FeatureKinds \cup {"stream", "msg", "fin", "bye", "end"}
  <2>1. E = X
    BY <1>1, <1>6 DEF Element, ProcessElement, ProcessFeatures, FeatureKinds
  <2>. HIDE DEF E
  <2>2. R = X
    BY <1>1, <1>2, <1>6, <2>1 DEF Finish
  <2>. QED BY <1>1, <1>6, <2>2, SameEnd
<1>. QED BY <1>3, <1>4, <1>5, <1>6

LEMMA ReadRequested ==
  ASSUME NEW X, Fresh(X), X.site = "client", NEW e \in Units, NEW outcome,
         X.st = "encryption_requested"
  PROVE  LET R == Receive(X, e, outcome)
         IN  /\ e.k = "proceed" => Reaches(X, R, <<"hello">>, "handshaking", TRUE, X.sasl, X.wait)
             /\ e.k \notin {"proceed", "stream", "msg"} => Same(X, R) \/ ClosesWell(X, R)
<1>. DEFINE R == Receive(X, e, outcome)
            E == Element(X, e, outcome = "retry")
            st == "closing_stream"
            Y == [X EXCEPT !.st = st]
<1>1. /\ X \in Ends /\ ~X.nested /\ X.st \notin {"closing_gnutls", "closed", "connecting", "handshaking"}
      /\ X.sasl = "none" /\ ~X.wait /\ ~X.tls
  BY FreshFacts DEF Fresh, EndOK
<1>2. e.k \notin {"fin", "bye"} => R = Finish(E)
  BY <1>1, ReceiveCases
<1>3. CASE e.k = "proceed"
  <2>1. E = TlsInit(X)
    BY <1>1, <1>3 DEF Element, ProcessElement, ProcessEncryption
  <2>2. /\ Reaches(X, TlsInit(X), <<"hello">>, "handshaking", TRUE, X.sasl, X.wait)
        /\ TlsInit(X).st = "handshaking"
    BY <1>1, TlsInitReaches
  <2>. HIDE DEF E
  <2>3. R = TlsInit(X)
    BY <1>2, <1>3, <2>1, <2>2 DEF Finish
  <2>. QED BY <1>3, <2>2, <2>3
<1>4. CASE e.k \in {"fin", "bye"}
  BY <1>1, <1>4, ReadFin
<1>5. CASE e.k = "end"
  BY <1>1, <1>5, ReadEnd
<1>6. CASE e.k = "failure"
  <2>1. E = Y
    BY <1>1, <1>6 DEF Element, ProcessElement, ProcessEncryption
  <2>2. st \in States /\ st \in Closing
    BY DEF States, Over, Closing
  <2>3. Moves(X, Y, st, X.tls, X.sasl, X.wait, X.nested) /\ Y.st = st
    BY <1>1, <2>2, MoveSt DEF Moves
  <2>. HIDE DEF Y, E
  <2>4. R = Y
    BY <1>2, <1>6, <2>1, <2>3 DEF Finish
  <2>. HIDE DEF st, R
  <2>5. Goes(X, Y, <<>>)
    BY <1>1, <2>3, TurnsGoes DEF Moves
  <2>6. Closes(X, Y, <<>>)
    BY <1>1, <2>2, <2>3, <2>5 DEF Goes, Moves, Closes
  <2>. QED BY <1>1, <1>6, <2>4, <2>6, SilentlyWell DEF R
<1>7. CASE e.k \notin {"proceed", "failure", "stream", "msg", "fin", "bye", "end"}
  <2>1. E = X
    BY <1>1, <1>7 DEF Element, ProcessElement, ProcessEncryption
  <2>. HIDE DEF E
  <2>2. R = X
    BY <1>1, <1>2, <1>7, <2>1 DEF Finish
  <2>. QED BY <1>1, <1>7, <2>2, SameEnd
<1>. QED BY <1>3, <1>4, <1>5, <1>6, <1>7

LEMMA SaslInitReaches ==
  ASSUME NEW X \in Ends, X.sasl = "none"
  PROVE  LET Y == SaslInit(X)
         IN  /\ X.site = "client" /\ X.st = "awaiting_features" =>
                  Reaches(X, Y, <<"auth">>, "authenticating", X.tls, "idle", X.wait)
             /\ X.site = "server" /\ X.st = "initiated" =>
                  Reaches(X, Y, <<>>, "authenticating", X.tls, "busy", X.wait)
<1>. DEFINE st == "authenticating"
            idle == "idle"
            busy == "busy"
            A == [SendChars(X, "auth") EXCEPT !.st = st, !.sasl = idle]
            B == [X EXCEPT !.st = st, !.sasl = idle]
            C == [B EXCEPT !.sasl = busy]
<1>1. /\ st \in States /\ idle \in {"none", "idle", "busy"} /\ busy \in {"none", "idle", "busy"}
      /\ "auth" \in Kinds
  BY DEF States, ClientStates, Kinds
<1>2. X.site = "client" /\ X.st = "awaiting_features" => SaslInit(X) = A
  BY <1>1, SendCharsKeeps DEF SaslInit, Require
<1>3. Moves(X, B, st, X.tls, idle, X.wait, X.nested)
  BY <1>1, MoveStSasl
<1>4. X.site = "server" /\ X.st = "initiated" => SaslInit(X) = C
  <2>1. B.sasl = "idle"
    BY <1>3 DEF Moves
  <2>. QED BY <2>1 DEF SaslInit, SaslRequest, Require
<1>. HIDE DEF st, idle, busy, B
<1>5. X.st = "awaiting_features" => Reaches(X, A, <<"auth">>, st, X.tls, idle, X.wait)
  BY <1>1, SendMoves
<1>6. B \in Ends
  BY <1>3 DEF Moves, Turns
<1>7. Moves(B, C, B.st, B.tls, busy, B.wait, B.nested)
  BY <1>1, <1>6, MoveSasl
<1>. HIDE DEF A, C
<1>8. Goes(X, B, <<>>)
  BY <1>3, TurnsGoes DEF Moves
<1>9. Reaches(X, C, <<>>, st, X.tls, busy, X.wait)
  BY <1>3, <1>7, <1>8, ReachesByMove DEF Moves
<1>. QED BY <1>2, <1>4, <1>5, <1>9 DEF st, idle, busy

LEMMA ReadAwaiting ==
  ASSUME NEW X, Fresh(X), X.site = "client", NEW e \in Units, NEW outcome,
         X.st = "awaiting_features"
  PROVE  LET R == Receive(X, e, outcome)
         IN  /\ e.k \in FeatureKinds =>
                  \/ ClosesWell(X, R)
                  \/ /\ Reaches(X, R, <<"starttls">>, "encryption_requested", X.tls, X.sasl, X.wait)
                     /\ ~X.tls /\ X.policy # "only_unsecured"
                  \/ /\ Reaches(X, R, <<"auth">>, "authenticating", X.tls, "idle", X.wait)
                     /\ ~X.tls => /\ e.k \in {"features", "features_tls"}
                                  /\ X.policy # "only_tls"
             /\ e.k \notin FeatureKinds \cup {"stream", "msg"} => Same(X, R) \/ ClosesWell(X, R)
<1>. DEFINE R == Receive(X, e, outcome)
            E == Element(X, e, outcome = "retry")
            st == "encryption_requested"
            Y == [SendChars(X, "starttls") EXCEPT !.st = st]
<1>1. /\ X \in Ends /\ ~X.nested /\ X.st \notin {"closing_gnutls", "closed", "connecting", "handshaking"}
      /\ X.sasl = "none" /\ ~X.wait
  BY FreshFacts
<1>2. e.k \notin {"fin", "bye"} => R = Finish(E)
  BY <1>1, ReceiveCases
<1>3. CASE e.k \in FeatureKinds
  <2>1. E = ProcessFeatures(X, e.k) /\ R = Finish(E)
    BY <1>1, <1>2, <1>3 DEF Element, ProcessElement, FeatureKinds
  <2>2. \/ E = Deinitiate(X)
        \/ E = Y /\ ~X.tls /\ X.policy # "only_unsecured"
        \/ /\ E = SaslInit(X)
           /\ ~X.tls => e.k \in {"features", "features_tls"} /\ X.policy # "only_tls"
    <3>1. X.policy \in Policies
      BY <1>1, EndFields
    <3>. QED BY <1>3, <2>1, <3>1 DEF ProcessFeatures, FeatureKinds, Policies
  <2>. HIDE DEF E
  <2>3. CASE E = Deinitiate(X)
    <3>1. ClosesWell(X, Deinitiate(X)) /\ Deinitiate(X).st = "closing_stream"
      BY <1>1, DeinitiateWell
    <3>2. R = Deinitiate(X)
      BY <2>1, <2>3, <3>1 DEF Finish
    <3>. QED BY <1>3, <3>1, <3>2
  <2>4. CASE E = Y /\ ~X.tls /\ X.policy # "only_unsecured"
    <3>1. st \in States /\ "starttls" \in Kinds
      BY DEF States, ClientStates, Kinds
    <3>2. Reaches(X, Y, <<"starttls">>, st, X.tls, X.sasl, X.wait)
      BY <1>1, <3>1, SendMoves
    <3>. HIDE DEF Y
    <3>3. R = Y
      BY <2>1, <2>4, <3>2 DEF Finish, Reaches, st
    <3>. QED BY <1>3, <2>4, <3>2, <3>3 DEF st
  <2>5. CASE E = SaslInit(X) /\ (~X.tls => e.k \in {"features", "features_tls"} /\ X.policy # "only_tls")
    <3>1. Reaches(X, SaslInit(X), <<"auth">>, "authenticating", X.tls, "idle", X.wait)
      BY <1>1, SaslInitReaches
    <3>2. R = SaslInit(X)
      BY <2>1, <2>5, <3>1 DEF Finish, Reaches
    <3>. QED BY <1>3, <2>5, <3>1, <3>2
  <2>. QED BY <2>2, <2>3, <2>4, <2>5
<1>4. CASE e.k \in {"fin", "bye"}
  BY <1>1, <1>4, ReadFin DEF FeatureKinds
<1>5. CASE e.k = "end"
  BY <1>1, <1>5, ReadEnd DEF FeatureKinds
<1>6. CASE e.k \notin FeatureKinds \cup {"stream", "msg", "fin", "bye", "end"}
  <2>1. E = X
    BY <1>1, <1>6 DEF Element, ProcessElement, ProcessFeatures, FeatureKinds
  <2>. HIDE DEF E
  <2>2. R = X
    BY <1>1, <1>2, <1>6, <2>1 DEF Finish
  <2>. QED BY <1>1, <1>6, <2>2, SameEnd
<1>. QED BY <1>3, <1>4, <1>5, <1>6

LEMMA GotTurns ==
  ASSUME NEW X \in Ends, NEW e \in Units
  PROVE  LET Y == [X EXCEPT !.got = Append(@, e.id)]
         IN  Turns(X, Y) /\ Y.st = X.st /\ Y.tls = X.tls /\ Y.sasl = X.sasl /\ Y.wait = X.wait
<1>. DEFINE got == Append(X.got, e.id)
            Y == [X EXCEPT !.got = got]
<1>1. e.id \in Nat /\ X.got \in Seq(Nat)
  BY EndFields DEF Units
<1>2. got \in Seq(Nat)
  BY <1>1, AppendProperties
<1>3. [X EXCEPT !.got = Append(@, e.id)] = Y
  OBVIOUS
<1>. HIDE DEF got
<1>4. Turns(X, Y) /\ Y.st = X.st /\ Y.tls = X.tls /\ Y.sasl = X.sasl /\ Y.wait = X.wait
  BY <1>2 DEF Ends, Turns, SameSetup
<1>. QED BY <1>3, <1>4

LEMMA ReadReady ==
  ASSUME NEW X, Fresh(X), NEW e \in Units, NEW outcome, X.st = "ready", e.k # "stream"
  PROVE  LET R == Receive(X, e, outcome)
         IN  Same(X, R) \/ (ClosesWell(X, R) /\ e.k \in {"fin", "bye", "end"})
<1>. DEFINE R == Receive(X, e, outcome)
            E == Element(X, e, outcome = "retry")
            Y == [X EXCEPT !.got = Append(@, e.id)]
<1>1. /\ X \in Ends /\ ~X.nested /\ X.st \notin {"closing_gnutls", "closed", "connecting", "handshaking"}
      /\ X.sasl = "none" /\ ~X.wait
  BY FreshFacts
<1>2. e.k \notin {"fin", "bye"} => R = Finish(E)
  BY <1>1, ReceiveCases
<1>3. CASE e.k \in {"fin", "bye"}
  BY <1>1, <1>3, ReadFin
<1>4. CASE e.k = "end"
  BY <1>1, <1>4, ReadEnd
<1>5. CASE e.k \notin {"stream", "fin", "bye", "end"}
  <2>1. E = X \/ E = Y
    BY <1>1, <1>5 DEF Element, ProcessElement
  <2>. HIDE DEF E
  <2>2. Turns(X, Y) /\ Y.st = X.st /\ Y.tls = X.tls /\ Y.sasl = X.sasl /\ Y.wait = X.wait
    BY <1>1, GotTurns
  <2>3. Same(X, X)
    BY <1>1, SameEnd
  <2>. HIDE DEF Y
  <2>4. Same(X, Y)
    BY <1>1, <2>2, TurnsGoes DEF Same, Reaches
  <2>5. R = X \/ R = Y
    BY <1>1, <1>2, <1>5, <2>1, <2>2 DEF Finish
  <2>. QED BY <2>3, <2>4, <2>5
<1>. QED BY <1>3, <1>4, <1>5

LEMMA PushKind ==
  ASSUME NEW X \in Ends, NEW k \in Kinds
  PROVE  LET Y == Push(X, <<Unit(k)>>)
         IN  /\ Goes(X, Y, <<k>>) /\ Y.st = X.st /\ Y.tls = X.tls /\ Y.sasl = X.sasl
             /\ Y.wait = X.wait /\ Y.nested = X.nested
<1>. DEFINE ks == <<k>>
<1>1. ks \in Seq(Kinds) /\ Push(X, <<Unit(k)>>) = Push(X, Control(ks))
  BY Tuples
<1>. HIDE DEF ks
<1>2. Goes(X, Push(X, Control(ks)), ks) /\ SameState(X, Push(X, Control(ks)))
  BY <1>1, Pushed DEF Goes, SameState
<1>. QED BY <1>1, <1>2 DEF SameState, ks

\* A handshake that fails ends the connection.
LEMMA HandshakeFails ==
  ASSUME NEW X, Fresh(X), X.st = "handshaking"
  PROVE  LET failed == [X EXCEPT !.tls = FALSE, !.st = IF X.site = "server" THEN "initiated" ELSE @]
         IN  ClosesWell(X, Finish(Terminate(failed, TRUE)))
<1>. DEFINE st == IF X.site = "server" THEN "initiated" ELSE X.st
            tls == FALSE
            F == [X EXCEPT !.tls = tls, !.st = st]
            T == Terminate(F, TRUE)
            ks == TerminateWord(st, tls)
            L == PushMessage(Clear(T), 0)
<1>0. [X EXCEPT !.tls = FALSE, !.st = IF X.site = "server" THEN "initiated" ELSE @] = F
  BY FreshFacts
<1>1. st \in States /\ tls \in BOOLEAN /\ st \in {"handshaking", "initiated"} /\ X \in Ends
      /\ (X.site = "client" => st = "handshaking") /\ ~X.nested
  BY FreshFacts DEF States, ClientStates
<1>. HIDE DEF st
<1>2. Moves(X, F, st, tls, X.sasl, X.wait, X.nested) /\ F.tls = FALSE /\ F.st = st
  BY <1>1, MoveTlsSt DEF Moves
<1>. HIDE DEF F
<1>3. F \in Ends /\ F.nested = X.nested
  BY <1>2 DEF Moves, Turns
<1>4. Ending(F, T, TerminateWord(F.st, F.tls))
  BY <1>1, <1>2, <1>3, TerminateEnds
<1>5. /\ ks \in Seq(Kinds) /\ \A i \in 1..Len(ks) : ks[i] \in EndKinds
      /\ X.site = "client" => ks \in {<<>>, <<"bye">>}
  BY <1>1, TerminateWords
<1>6. TerminateWord(F.st, F.tls) = ks
  BY <1>2
<1>. HIDE DEF T, ks
<1>7. Ending(X, T, ks)
  <2>1. Turns(X, F) /\ Ending(F, T, ks)
    BY <1>2, <1>4, <1>6 DEF Moves
  <2>2. T.tls => X.tls
    BY <1>2, <2>1 DEF Ending
  <2>. QED BY <1>1, <1>3, <2>1, <2>2, EndingAfterTurn
<1>8. Closes(X, L, ks) /\ T.st = "closing_gnutls"
  BY <1>1, <1>7, LastMessage DEF Ending
<1>9. ClosesWell(X, L)
  BY <1>5, <1>8 DEF ClosesWell
<1>10. Finish(T) = L
  BY <1>8 DEF Finish
<1>. QED BY <1>0, <1>9, <1>10 DEF T

LEMMA ReadHandshakingClient ==
  ASSUME NEW X, Fresh(X), X.site = "client", NEW e \in Units, NEW outcome, X.st = "handshaking"
  PROVE  LET R == Receive(X, e, outcome)
         IN  \/ ClosesWell(X, R)
             \/ /\ e.k = "server_hello"
                /\ Reaches(X, R, <<"finished">>, "handshaking", X.tls, X.sasl, X.wait)
             \/ /\ e.k = "done"
                /\ \/ Reaches(X, R, <<>>, "connected", X.tls, X.sasl, TRUE)
                   \/ Reaches(X, R, <<"stream">>, "initiated", X.tls, X.sasl, X.wait)
<1>. DEFINE R == Receive(X, e, outcome)
            E == TlsHandshake(X, e.k, outcome)
            failed == [X EXCEPT !.tls = FALSE, !.st = IF X.site = "server" THEN "initiated" ELSE @]
            st == "connected"
            D == [X EXCEPT !.st = st]
            W == [D EXCEPT !.wait = TRUE]
            P == Push(X, <<Unit("finished")>>)
<1>1. /\ X \in Ends /\ ~X.nested /\ X.st \notin {"closing_gnutls", "closed", "connecting"}
      /\ X.sasl = "none" /\ ~X.wait
  BY FreshFacts
<1>2. e.k # "fin" => R = Finish(E)
  BY <1>1, ReceiveCases
<1>3. st \in States /\ "finished" \in Kinds
  BY DEF States, ClientStates, Kinds
<1>4. Moves(X, D, st, X.tls, X.sasl, X.wait, X.nested)
  BY <1>1, <1>3, MoveSt
<1>5. \/ E = Terminate(failed, TRUE)
      \/ E = P /\ e.k = "server_hello"
      \/ e.k = "done" /\ (E = Terminate(D, TRUE) \/ E = W \/ E = Initiate(D))
  BY <1>1 DEF TlsHandshake
<1>. HIDE DEF D, E, st
<1>6. D \in Ends /\ D.st = "connected" /\ D.site = "client" /\ D.nested = X.nested /\ Turns(X, D)
      /\ D.tls = X.tls
  BY <1>4 DEF Moves, Turns, SameSetup, st
<1>7. CASE e.k = "fin"
  BY <1>1, <1>7, ReadFin
<1>8. CASE e.k # "fin" /\ E = Terminate(failed, TRUE)
  <2>1. ClosesWell(X, Finish(Terminate(failed, TRUE)))
    BY HandshakeFails
  <2>. QED BY <1>2, <1>8, <2>1
<1>9. CASE E = P /\ e.k = "server_hello"
  <2>1. Goes(X, P, <<"finished">>) /\ P.st = X.st /\ P.tls = X.tls /\ P.sasl = X.sasl /\ P.wait = X.wait
    BY <1>1, <1>3, PushKind
  <2>. HIDE DEF P
  <2>2. R = P
    BY <1>2, <1>9, <2>1 DEF Finish
  <2>. QED BY <1>9, <2>1, <2>2 DEF Reaches
<1>10. CASE e.k = "done" /\ E = Terminate(D, TRUE)
  <2>. DEFINE ks == TerminateWord(D.st, D.tls)
              T == Terminate(D, TRUE)
  <2>1. Ending(D, T, ks)
    BY <1>6, TerminateEnds
  <2>2. D.st = "connected" /\ D.tls \in BOOLEAN
    BY <1>6, EndFields
  <2>3. ks \in Seq(Kinds) /\ (\A i \in 1..Len(ks) : ks[i] \in EndKinds) /\ ks \in {<<>>, <<"bye">>}
    BY <2>2, TerminateWords
  <2>. HIDE DEF ks, T
  <2>4. Ending(X, T, ks)
    <3>1. T.tls => X.tls
      BY <1>6, <2>1 DEF Ending
    <3>. QED BY <1>1, <1>6, <2>1, <3>1, EndingAfterTurn
  <2>5. Closes(X, PushMessage(Clear(T), 0), ks) /\ T.st = "closing_gnutls"
    BY <1>1, <2>4, LastMessage DEF Ending
  <2>6. ClosesWell(X, PushMessage(Clear(T), 0))
    BY <2>3, <2>5 DEF ClosesWell
  <2>7. R = PushMessage(Clear(T), 0)
    BY <1>2, <1>10, <2>5 DEF Finish, T
  <2>. QED BY <2>6, <2>7
<1>11. CASE e.k = "done" /\ E = W
  <2>1. Moves(D, W, D.st, D.tls, D.sasl, TRUE, D.nested)
    BY <1>6, MoveWait
  <2>. HIDE DEF W
  <2>2. W.st = "connected"
    BY <1>6, <2>1 DEF Moves
  <2>3. R = W
    BY <1>2, <1>11, <2>2 DEF Finish
  <2>4. Goes(X, D, <<>>)
    BY <1>1, <1>6, TurnsGoes
  <2>5. Reaches(X, W, <<>>, D.st, D.tls, D.sasl, TRUE)
    BY <1>1, <2>1, <2>4, ReachesByMove
  <2>. QED BY <1>4, <1>6, <1>11, <2>3, <2>5 DEF Moves
<1>12. CASE e.k = "done" /\ E = Initiate(D)
  <2>1. Reaches(D, Initiate(D), <<"stream">>, "initiated", D.tls, D.sasl, D.wait)
    BY <1>6, InitiateReaches
  <2>2. R = Initiate(D)
    BY <1>2, <1>12, <2>1 DEF Finish, Reaches
  <2>3. Goes(X, Initiate(D), <<"stream">>)
    BY <1>1, <1>6, <2>1, TurnsThenGoes DEF Reaches
  <2>. QED BY <1>4, <1>6, <1>12, <2>1, <2>2, <2>3 DEF Moves, Reaches
<1>. QED BY <1>5, <1>7, <1>8, <1>9, <1>10, <1>11, <1>12

LEMMA AgainMoves ==
  ASSUME NEW X \in Ends
  PROVE  LET Y == SaslAgain(X)
             st == IF X.site = "client" THEN "awaiting_features" ELSE "initiated"
         IN  Moves(X, Y, st, X.tls, "none", X.wait, X.nested) /\ Y.site = X.site /\ Y \in Ends
<1>. DEFINE st == IF X.site = "client" THEN "awaiting_features" ELSE "initiated"
            none == "none"
            Y == [X EXCEPT !.sasl = none, !.st = st]
<1>1. st \in States /\ none \in {"none", "idle", "busy"}
  BY DEF States, ClientStates
<1>2. SaslAgain(X) = Y
  BY DEF SaslAgain
<1>. HIDE DEF st, none
<1>3. Moves(X, Y, st, X.tls, none, X.wait, X.nested)
  BY <1>1, MoveSaslSt
<1>. HIDE DEF Y
<1>4. Y \in Ends /\ Y.site = X.site
  BY <1>3 DEF Moves, Turns, SameSetup
<1>. QED BY <1>2, <1>3, <1>4 DEF st, none

LEMMA BusyMoves ==
  ASSUME NEW X \in Ends, X.sasl # "busy"
  PROVE  Moves(X, SaslRequest(X), X.st, X.tls, "busy", X.wait, X.nested)
<1>. DEFINE busy == "busy"
            Y == [X EXCEPT !.sasl = busy]
<1>1. SaslRequest(X) = Y /\ busy \in {"none", "idle", "busy"}
  BY DEF SaslRequest
<1>. HIDE DEF busy
<1>2. Moves(X, Y, X.st, X.tls, busy, X.wait, X.nested)
  BY <1>1, MoveSasl
<1>. QED BY <1>1, <1>2 DEF busy

LEMMA ReadAuthenticatingClient ==
  ASSUME NEW X, Fresh(X), X.site = "client", NEW e \in Units, NEW outcome,
         X.st = "authenticating"
  PROVE  LET R == Receive(X, e, outcome)
         IN  /\ e.k = "challenge" =>
                  \/ X.sasl = "idle" /\ Reaches(X, R, <<>>, "authenticating", X.tls, "busy", X.wait)
                  \/ X.sasl = "none" /\ Same(X, R)
                  \/ X.sasl = "busy" /\ ClosesLate(X, R)
             /\ e.k = "failure" =>
                  \/ ClosesLate(X, R)
                  \/ Reaches(X, R, <<"auth">>, "authenticating", X.tls, "idle", X.wait)
             /\ e.k = "success" =>
                  Reaches(X, R, <<"stream">>, "auth_initiated", X.tls, "none", X.wait)
             /\ e.k \notin {"challenge", "failure", "success", "stream", "msg"} =>
                  Same(X, R) \/ ClosesWell(X, R)
<1>. DEFINE R == Receive(X, e, outcome)
            E == Element(X, e, outcome = "retry")
            A == SaslAgain(X)
<1>1. /\ X \in Ends /\ ~X.nested /\ X.st \notin {"closing_gnutls", "closed", "connecting", "handshaking"}
      /\ ~X.wait /\ X.sasl \in {"none", "idle", "busy"}
  BY FreshFacts, EndFields
<1>2. e.k \notin {"fin", "bye"} => R = Finish(E)
  BY <1>1, ReceiveCases
<1>3. /\ Turns(X, A) /\ A \in Ends /\ A.site = "client" /\ A.st = "awaiting_features"
      /\ A.tls = X.tls /\ A.sasl = "none" /\ A.wait = X.wait /\ A.nested = X.nested
  BY <1>1, AgainMoves DEF Moves
<1>4. CASE e.k = "challenge" /\ X.sasl = "idle"
  <2>. DEFINE B == SaslRequest(X)
  <2>1. E = B
    BY <1>1, <1>4 DEF Element, ProcessElement, ProcessAuthentication
  <2>2. Moves(X, B, X.st, X.tls, "busy", X.wait, X.nested)
    BY <1>1, <1>4, BusyMoves
  <2>. HIDE DEF B, E
  <2>3. R = B
    BY <1>2, <1>4, <2>1, <2>2 DEF Finish, Moves
  <2>4. Reaches(X, B, <<>>, X.st, X.tls, "busy", X.wait)
    BY <1>1, <2>2, MovesReaches
  <2>. QED BY <1>4, <2>3, <2>4
<1>5. CASE e.k = "challenge" /\ X.sasl = "none"
  <2>1. E = X
    BY <1>1, <1>5 DEF Element, ProcessElement, ProcessAuthentication
  <2>. HIDE DEF E
  <2>2. R = X
    BY <1>1, <1>2, <1>5, <2>1 DEF Finish
  <2>. QED BY <1>1, <1>5, <2>2, SameEnd
<1>6. CASE e.k = "challenge" /\ X.sasl = "busy"
  <2>1. E = Terminate(A, TRUE)
    BY <1>1, <1>6 DEF Element, ProcessElement, ProcessAuthentication, SaslRequest, SaslError
  <2>. HIDE DEF A, E
  <2>2. Finish(E) = PushMessage(Clear(Terminate(A, TRUE)), 0) /\ ClosesLate(A, Finish(E))
    BY <1>3, <2>1, TerminateWell, WellLate DEF Finish
  <2>3. R = Finish(E)
    BY <1>2, <1>6
  <2>. HIDE DEF R
  <2>4. R.tls => X.tls
    BY <1>3, <2>2, <2>3 DEF ClosesLate, Closes
  <2>5. ClosesLate(X, R)
    BY <1>1, <1>3, <2>2, <2>3, <2>4, WellAfterTurn
  <2>. QED BY <1>6, <2>5 DEF R
<1>7. CASE e.k = "failure"
  <2>1. E = SaslInit(A) \/ E = Deinitiate(A)
    BY <1>1, <1>7 DEF Element, ProcessElement, ProcessAuthentication
  <2>2. R = Finish(E)
    BY <1>2, <1>7
  <2>. HIDE DEF A, E
  <2>3. CASE E = SaslInit(A)
    <3>1. Reaches(A, SaslInit(A), <<"auth">>, "authenticating", A.tls, "idle", A.wait)
      BY <1>3, SaslInitReaches
    <3>2. R = SaslInit(A)
      BY <2>2, <2>3, <3>1 DEF Finish, Reaches
    <3>3. Goes(X, SaslInit(A), <<"auth">>)
      BY <1>1, <1>3, <3>1, TurnsThenGoes DEF Reaches
    <3>. QED BY <1>3, <1>7, <3>1, <3>2, <3>3 DEF Reaches
  <2>4. CASE E = Deinitiate(A)
    <3>1. ClosesWell(A, Deinitiate(A)) /\ Deinitiate(A).st = "closing_stream"
      BY <1>1, <1>3, DeinitiateWell
    <3>2. R = Deinitiate(A)
      BY <2>2, <2>4, <3>1 DEF Finish
    <3>. HIDE DEF R
    <3>3. R.tls => X.tls
      BY <1>3, <3>1, <3>2 DEF ClosesWell, Closes
    <3>4. ClosesLate(X, R)
      BY <1>1, <1>3, <3>1, <3>2, <3>3, WellLate, WellAfterTurn
    <3>. QED BY <1>7, <3>4 DEF R
  <2>. QED BY <2>1, <2>3, <2>4
<1>8. CASE e.k = "success"
  <2>. DEFINE st == "auth_connected"
              none == "none"
              S == [X EXCEPT !.sasl = none, !.st = st]
  <2>1. E = S
    BY <1>1, <1>8 DEF Element, ProcessElement, ProcessAuthentication, SaslFinish
  <2>2. st \in States /\ none \in {"none", "idle", "busy"}
    BY DEF States, ServerStates
  <2>. HIDE DEF st, none
  <2>3. Moves(X, S, st, X.tls, none, X.wait, X.nested)
    BY <1>1, <2>2, MoveSaslSt
  <2>. HIDE DEF S, E
  <2>4. S \in Ends /\ S.site = "client" /\ S.st = "auth_connected" /\ Turns(X, S) /\ S.sasl = "none"
        /\ S.tls = X.tls /\ S.wait = X.wait
    BY <2>3 DEF Moves, Turns, SameSetup, st, none
  <2>5. Reaches(S, Initiate(S), <<"stream">>, "auth_initiated", S.tls, S.sasl, S.wait)
    BY <2>4, InitiateReaches
  <2>6. R = Initiate(S)
    BY <1>2, <1>8, <2>1, <2>4 DEF Finish
  <2>7. Goes(X, Initiate(S), <<"stream">>)
    BY <1>1, <2>4, <2>5, TurnsThenGoes DEF Reaches
  <2>. QED BY <1>8, <2>4, <2>5, <2>6, <2>7 DEF Reaches
<1>9. CASE e.k \in {"fin", "bye"}
  BY <1>1, <1>9, ReadFin
<1>10. CASE e.k = "end"
  BY <1>1, <1>10, ReadEnd
<1>11. CASE e.k \notin {"challenge", "failure", "success", "stream", "msg", "fin", "bye", "end"}
  <2>1. E = X
    BY <1>1, <1>11 DEF Element, ProcessElement, ProcessAuthentication
  <2>. HIDE DEF E
  <2>2. R = X
    BY <1>1, <1>2, <1>11, <2>1 DEF Finish
  <2>. QED BY <1>1, <1>11, <2>2, SameEnd
<1>. QED BY <1>1, <1>4, <1>5, <1>6, <1>7, <1>8, <1>9, <1>10, <1>11

LEMMA SendTwice ==
  ASSUME NEW X \in Ends, NEW j \in Kinds, NEW k \in Kinds, X.st \notin {"handshaking", "closed"},
         NEW st \in States, NEW ready \in States, st \notin {"handshaking", "closed"}
  PROVE  LET Y == [SendChars(X, j) EXCEPT !.st = st]
         IN  Reaches(X, [SendChars(Y, k) EXCEPT !.st = ready], <<j>> \o <<k>>, ready, X.tls, X.sasl, X.wait)
<1>. DEFINE Y == [SendChars(X, j) EXCEPT !.st = st]
            Z == [SendChars(Y, k) EXCEPT !.st = ready]
            a == <<j>>
            b == <<k>>
<1>1. Reaches(X, Y, a, st, X.tls, X.sasl, X.wait)
  BY SendMoves
<1>2. a \in Seq(Kinds) /\ b \in Seq(Kinds)
  BY Tuples
<1>. HIDE DEF Y
<1>3. Y \in Ends /\ Y.st = st
  BY <1>1 DEF Reaches, Goes
<1>4. Reaches(Y, Z, b, ready, Y.tls, Y.sasl, Y.wait)
  BY <1>3, SendMoves
<1>. HIDE DEF Z, a, b
<1>5. Goes(X, Z, a \o b)
  BY <1>1, <1>2, <1>4, GoesTwice DEF Reaches
<1>6. Reaches(X, Z, a \o b, ready, X.tls, X.sasl, X.wait)
  BY <1>1, <1>4, <1>5 DEF Reaches
<1>. QED BY <1>6 DEF Z, Y, a, b

\* The server answers the client's stream with its own, and an offer.
Offers(X, Y, st) ==
  \E offer \in FeatureKinds :
    /\ Reaches(X, Y, <<"stream">> \o <<offer>>, st, X.tls, X.sasl, X.wait)
    /\ X.st = "connected" /\ ~X.tls /\ X.policy = "only_tls" => offer = "features_required"

LEMMA ReadConnected ==
  ASSUME NEW X, Fresh(X), X.site = "server", NEW e \in Units, NEW outcome,
         X.st \in {"connected", "auth_connected"}
  PROVE  LET R == Receive(X, e, outcome)
         IN  /\ e.k = "stream" /\ X.st = "connected" => Offers(X, R, "initiated")
             /\ e.k = "stream" /\ X.st = "auth_connected" => Offers(X, R, "ready")
             /\ e.k = "half" => Same(X, R)
             /\ e.k \notin {"stream", "half", "end"} => ClosesWell(X, R)
<1>. DEFINE R == Receive(X, e, outcome)
            E == Element(X, e, outcome = "retry")
            again == X.st = "auth_connected"
            st == IF again THEN "ready" ELSE "initiated"
            init == "initiated"
            stream == "stream"
            offer == IF X.tls \/ again \/ X.policy = "only_unsecured" THEN "features"
                     ELSE IF X.policy = "only_tls" THEN "features_required" ELSE "features_tls"
            Y == [SendChars(X, stream) EXCEPT !.st = init]
            Z == [SendChars(Y, offer) EXCEPT !.st = st]
<1>1. /\ X \in Ends /\ ~X.nested /\ X.st \notin {"closing_gnutls", "closed", "connecting", "handshaking"}
      /\ X.sasl = "none"
  BY FreshFacts
<1>2. e.k \notin {"fin", "bye"} => R = Finish(E)
  BY <1>1, ReceiveCases
<1>3. CASE e.k = "stream"
  <2>1. E = Z
    <3>1. /\ offer \in Kinds /\ stream \in Kinds /\ init \in States /\ init # "closed"
      BY DEF Kinds, States, ClientStates
    <3>2. SendChars(X, stream) \in Ends /\ SendChars(X, stream).st # "closed"
      BY <1>1, <3>1, SendCharsKeeps
    <3>3. Y \in Ends /\ Y.st = init
      <4>. DEFINE P == SendChars(X, stream)
      <4>. HIDE DEF P, init
      <4>. QED BY <3>1, <3>2, MoveSt DEF Moves, Turns, P
    <3>4. SendChars(Y, offer).st # "closed"
      <4>. HIDE DEF Y, offer, init
      <4>. QED BY <3>1, <3>3, SendCharsKeeps
    <3>5. E = ProcessConnected(X)
      BY <1>1, <1>3 DEF Element
    <3>. HIDE DEF E
    <3>. QED BY <1>1, <3>2, <3>4, <3>5 DEF ProcessConnected, Require
  <2>2. /\ offer \in FeatureKinds /\ offer \in Kinds /\ stream \in Kinds /\ init \in States /\ st \in States
        /\ init \notin {"handshaking", "closed"} /\ st \notin {"closing_gnutls", "auth_connected"}
        /\ (X.st = "connected" /\ ~X.tls /\ X.policy = "only_tls" => offer = "features_required")
    BY DEF FeatureKinds, Kinds, States, ClientStates
  <2>. HIDE DEF offer, init, stream, st
  <2>3. Reaches(X, Z, <<stream>> \o <<offer>>, st, X.tls, X.sasl, X.wait)
    BY <1>1, <2>2, SendTwice
  <2>. HIDE DEF Z, E
  <2>4. R = Z
    <3>1. st # "closed"
      BY DEF st
    <3>. QED BY <1>2, <1>3, <2>1, <2>2, <2>3, <3>1 DEF Finish, Reaches
  <2>5. Reaches(X, R, <<"stream">> \o <<offer>>, st, X.tls, X.sasl, X.wait)
    BY <2>3, <2>4 DEF stream
  <2>6. Offers(X, R, st)
    BY <2>2, <2>5 DEF Offers
  <2>. QED BY <1>3, <2>6 DEF st
<1>4. CASE e.k = "half"
  <2>1. E = X
    BY <1>4 DEF Element
  <2>. HIDE DEF E
  <2>2. X.st = "connected" => R = X
    BY <1>2, <1>4, <2>1 DEF Finish
  <2>3. X.st = "auth_connected" => R = Initiate(X)
    BY <1>2, <1>4, <2>1 DEF Finish
  <2>4. Reaches(X, Initiate(X), <<>>, X.st, X.tls, X.sasl, X.wait)
    BY <1>1, InitiateReaches
  <2>5. Same(X, R)
    BY <1>1, <2>2, <2>3, <2>4, SameEnd DEF Same
  <2>. QED BY <1>4, <2>5
<1>5. CASE e.k \in {"fin", "bye"}
  BY <1>1, <1>5, ReadFin
<1>6. CASE e.k \notin {"stream", "half", "end", "fin", "bye"}
  <2>1. E = Terminate(X, TRUE)
    BY <1>1, <1>6 DEF Element, Require
  <2>. HIDE DEF E
  <2>2. ClosesWell(X, R)
    BY <1>1, <1>2, <1>6, <2>1, FinishCloses
  <2>. QED BY <1>6, <2>2
<1>. QED BY <1>3, <1>4, <1>5, <1>6

LEMMA ReadServerInitiated ==
  ASSUME NEW X, Fresh(X), X.site = "server", NEW e \in Units, NEW outcome,
         X.st = "initiated", e.k \notin {"stream", "msg"}
  PROVE  LET R == Receive(X, e, outcome)
         IN  \/ Same(X, R) /\ e.k \notin {"starttls", "auth"}
             \/ ClosesWell(X, R)
             \/ /\ e.k = "starttls" /\ ~X.tls /\ X.policy # "only_unsecured"
                /\ Reaches(X, R, <<"proceed">>, "handshaking", TRUE, X.sasl, X.wait)
             \/ /\ e.k = "auth" /\ (~X.tls => X.policy # "only_tls")
                /\ Reaches(X, R, <<>>, "authenticating", X.tls, "busy", X.wait)
<1>. DEFINE R == Receive(X, e, outcome)
            E == Element(X, e, outcome = "retry")
            P == SendChars(X, "proceed")
<1>1. /\ X \in Ends /\ ~X.nested /\ X.st \notin {"closing_gnutls", "closed", "connecting", "handshaking"}
      /\ X.sasl = "none" /\ ~X.wait
  BY FreshFacts
<1>2. e.k \notin {"fin", "bye"} => R = Finish(E)
  BY <1>1, ReceiveCases
<1>3. CASE e.k \in {"fin", "bye"}
  BY <1>1, <1>3, ReadFin
<1>4. CASE e.k = "end"
  BY <1>1, <1>4, ReadEnd
<1>5. CASE e.k \in {"half", "error"}
  <2>1. E = X
    BY <1>1, <1>5 DEF Element, ProcessElement
  <2>. HIDE DEF E
  <2>2. R = X
    BY <1>1, <1>2, <1>5, <2>1 DEF Finish
  <2>. QED BY <1>1, <1>5, <2>2, SameEnd
<1>6. CASE e.k \notin {"stream", "msg", "fin", "bye", "end", "half", "error"}
  <2>1. /\ R = Finish(E)
        /\ \/ E = TlsInit(P) /\ e.k = "starttls" /\ ~X.tls /\ X.policy # "only_unsecured"
           \/ E = TerminateError(X)
           \/ E = SaslInit(X) /\ e.k = "auth" /\ (~X.tls => X.policy # "only_tls")
    BY <1>1, <1>2, <1>6 DEF Element, ProcessElement, ProcessInitiated
  <2>. HIDE DEF E
  <2>2. CASE E = TlsInit(P) /\ e.k = "starttls" /\ ~X.tls /\ X.policy # "only_unsecured"
    <3>. DEFINE ks == <<"proceed">>
    <3>1. /\ Goes(X, P, ks) /\ P.st = X.st /\ P.tls = X.tls /\ P.sasl = X.sasl
          /\ P.wait = X.wait
      <4>1. "proceed" \in Kinds
        BY DEF Kinds
      <4>. QED BY <1>1, <4>1, SendCharsGoes
    <3>. HIDE DEF P, ks
    <3>2. P \in Ends /\ P.site = "server"
      BY <3>1 DEF Goes, SameSetup
    <3>3. Reaches(P, TlsInit(P), <<>>, "handshaking", TRUE, P.sasl, P.wait)
      BY <2>2, <3>1, <3>2, TlsInitReaches
    <3>4. R = TlsInit(P)
      BY <2>1, <2>2, <3>3 DEF Finish, Reaches
    <3>5. Turns(P, TlsInit(P))
      BY <3>2, <3>3, TurnsGoes DEF Reaches
    <3>6. Goes(X, TlsInit(P), ks)
      BY <1>1, <3>1, <3>5, GoesThenTurns
    <3>7. Reaches(X, R, ks, "handshaking", TRUE, X.sasl, X.wait)
      BY <3>1, <3>3, <3>4, <3>6 DEF Reaches
    <3>. QED BY <2>2, <3>7 DEF ks
  <2>3. CASE E = TerminateError(X)
    <3>1. ClosesWell(X, PushMessage(Clear(TerminateError(X)), 0))
          /\ TerminateError(X).st = "closing_gnutls"
      BY <1>1, TerminateErrorWell
    <3>2. R = PushMessage(Clear(TerminateError(X)), 0)
      BY <2>1, <2>3, <3>1 DEF Finish
    <3>. QED BY <3>1, <3>2
  <2>4. CASE E = SaslInit(X) /\ e.k = "auth" /\ (~X.tls => X.policy # "only_tls")
    <3>1. Reaches(X, SaslInit(X), <<>>, "authenticating", X.tls, "busy", X.wait)
      BY <1>1, SaslInitReaches
    <3>2. R = SaslInit(X)
      BY <2>1, <2>4, <3>1 DEF Finish, Reaches
    <3>. QED BY <2>4, <3>1, <3>2
  <2>. QED BY <2>1, <2>2, <2>3, <2>4
<1>. QED BY <1>3, <1>4, <1>5, <1>6

LEMMA ReadHandshakingServer ==
  ASSUME NEW X, Fresh(X), X.site = "server", NEW e \in Units, NEW outcome, X.st = "handshaking"
  PROVE  LET R == Receive(X, e, outcome)
         IN  \/ ClosesWell(X, R)
             \/ /\ e.k = "finished"
                /\ \E ks \in {<<>>, <<"bye">>} : Closes(X, R, <<"done">> \o ks)
             \/ /\ e.k = "hello"
                /\ Reaches(X, R, <<"server_hello">>, "handshaking", X.tls, X.sasl, X.wait)
             \/ /\ e.k = "finished"
                /\ Reaches(X, R, <<"done">>, "connected", X.tls, X.sasl, X.wait)
<1>. DEFINE R == Receive(X, e, outcome)
            E == TlsHandshake(X, e.k, outcome)
            failed == [X EXCEPT !.tls = FALSE, !.st = IF X.site = "server" THEN "initiated" ELSE @]
            st == "connected"
            P == Push(X, <<Unit("server_hello")>>)
            Q == Push(X, <<Unit("done")>>)
            D == [Q EXCEPT !.st = st]
            one == <<"done">>
<1>1. /\ X \in Ends /\ ~X.nested /\ X.st \notin {"closing_gnutls", "closed", "connecting"}
      /\ X.sasl = "none" /\ ~X.wait /\ ~X.verifies
  BY FreshFacts DEF Fresh, EndOK
<1>2. e.k # "fin" => R = Finish(E)
  BY <1>1, ReceiveCases
<1>3. st \in States /\ "done" \in Kinds /\ "server_hello" \in Kinds
  BY DEF States, ClientStates, Kinds
<1>4. one \in Seq(Kinds)
  BY <1>3, Tuples
<1>5. Goes(X, Q, one) /\ Q.st = X.st /\ Q.tls = X.tls /\ Q.sasl = X.sasl /\ Q.wait = X.wait
  BY <1>1, <1>3, PushKind
<1>6. \/ E = Terminate(failed, TRUE)
      \/ E = P /\ e.k = "hello"
      \/ e.k = "finished" /\ (E = Terminate(D, TRUE) \/ E = Initiate(D))
  BY <1>1 DEF TlsHandshake
<1>. HIDE DEF E, Q, one
<1>7. Q \in Ends
  BY <1>5 DEF Goes
<1>. HIDE DEF st
<1>8. Moves(Q, D, st, Q.tls, Q.sasl, Q.wait, Q.nested) /\ Reaches(X, D, one, st, X.tls, X.sasl, X.wait)
  <2>1. Moves(Q, D, st, Q.tls, Q.sasl, Q.wait, Q.nested)
    BY <1>3, <1>7, MoveSt
  <2>2. Reaches(X, D, one, st, Q.tls, Q.sasl, Q.wait)
    BY <1>1, <1>5, <2>1, ReachesByMove
  <2>. QED BY <1>5, <2>1, <2>2
<1>. HIDE DEF D
<1>9. D \in Ends /\ D.st = "connected" /\ D.site = "server" /\ ~D.nested /\ D.tls = X.tls
  BY <1>1, <1>8 DEF Reaches, Goes, SameSetup, st
<1>10. CASE e.k = "fin"
  BY <1>1, <1>10, ReadFin
<1>11. CASE e.k # "fin" /\ E = Terminate(failed, TRUE)
  <2>1. ClosesWell(X, Finish(Terminate(failed, TRUE)))
    BY HandshakeFails
  <2>. QED BY <1>2, <1>11, <2>1
<1>12. CASE E = P /\ e.k = "hello"
  <2>1. Goes(X, P, <<"server_hello">>) /\ P.st = X.st /\ P.tls = X.tls /\ P.sasl = X.sasl /\ P.wait = X.wait
    BY <1>1, <1>3, PushKind
  <2>. HIDE DEF P
  <2>2. R = P
    BY <1>2, <1>12, <2>1 DEF Finish
  <2>. QED BY <1>12, <2>1, <2>2 DEF Reaches
<1>13. CASE e.k = "finished" /\ E = Terminate(D, TRUE)
  <2>. DEFINE ks == TerminateWord(D.st, D.tls)
              T == Terminate(D, TRUE)
  <2>1. Ending(D, T, ks)
    BY <1>9, TerminateEnds
  <2>2. ks \in Seq(Kinds) /\ ks \in {<<>>, <<"bye">>}
    BY <1>9, EndFields, TerminateWords
  <2>. HIDE DEF ks, T
  <2>3. T.tls => X.tls
    BY <1>9, <2>1 DEF Ending
  <2>4. Goes(X, D, one) /\ D.nested = X.nested
    BY <1>1, <1>8, <1>9, EndFields DEF Reaches
  <2>5. Ending(X, T, one \o ks)
    BY <1>1, <1>4, <2>1, <2>2, <2>3, <2>4, EndingAfter
  <2>6. Closes(X, PushMessage(Clear(T), 0), one \o ks) /\ T.st = "closing_gnutls"
    BY <1>1, <2>5, LastMessage DEF Ending
  <2>7. R = PushMessage(Clear(T), 0)
    BY <1>2, <1>13, <2>6 DEF Finish, T
  <2>8. Closes(X, R, <<"done">> \o ks)
    BY <2>6, <2>7 DEF one
  <2>. QED BY <1>13, <2>2, <2>8
<1>14. CASE e.k = "finished" /\ E = Initiate(D)
  <2>1. Reaches(D, Initiate(D), <<>>, D.st, D.tls, D.sasl, D.wait)
    BY <1>9, InitiateReaches
  <2>2. R = Initiate(D)
    BY <1>2, <1>9, <1>14, <2>1 DEF Finish, Reaches
  <2>3. Turns(D, Initiate(D))
    BY <1>9, <2>1, TurnsGoes DEF Reaches
  <2>4. Goes(X, Initiate(D), one)
    BY <1>1, <1>8, <2>3, GoesThenTurns DEF Reaches
  <2>5. Reaches(X, R, one, "connected", X.tls, X.sasl, X.wait)
    BY <1>8, <1>9, <2>1, <2>2, <2>4 DEF Reaches
  <2>. QED BY <1>14, <2>5 DEF one
<1>. QED BY <1>6, <1>10, <1>11, <1>12, <1>13, <1>14

LEMMA FailureAgain ==
  ASSUME NEW X \in Ends, X.site = "server", X.st = "authenticating"
  PROVE  /\ Reaches(X, SaslAgain(SendChars(X, "failure")), <<"failure">>, "initiated", X.tls, "none", X.wait)
         /\ Reaches(X, SendChars(SaslAgain(X), "failure"), <<"failure">>, "initiated", X.tls, "none", X.wait)
<1>. DEFINE F == SendChars(X, "failure")
            A == SaslAgain(X)
            ks == <<"failure">>
<1>1. "failure" \in Kinds /\ ks \in Seq(Kinds)
  <2>1. "failure" \in Kinds
    BY DEF Kinds
  <2>. QED BY <2>1, Tuples
<1>2. Goes(X, F, ks) /\ F.tls = X.tls /\ F.wait = X.wait
  BY <1>1, SendCharsGoes
<1>3. Moves(X, A, "initiated", X.tls, "none", X.wait, X.nested) /\ A \in Ends
  BY AgainMoves
<1>. HIDE DEF F, A, ks
<1>4. F \in Ends /\ F.site = "server"
  BY <1>2 DEF Goes, SameSetup
<1>5. Moves(F, SaslAgain(F), "initiated", F.tls, "none", F.wait, F.nested)
  BY <1>4, AgainMoves
<1>6. Reaches(X, SaslAgain(F), ks, "initiated", X.tls, "none", X.wait)
  BY <1>2, <1>5, ReachesByMove
<1>7. /\ Goes(A, SendChars(A, "failure"), ks) /\ SendChars(A, "failure").st = A.st
      /\ SendChars(A, "failure").tls = A.tls /\ SendChars(A, "failure").sasl = A.sasl
      /\ SendChars(A, "failure").wait = A.wait
  BY <1>1, <1>3, SendCharsGoes DEF Moves, ks
<1>8. Goes(X, SendChars(A, "failure"), ks)
  BY <1>3, <1>7, TurnsThenGoes DEF Moves
<1>9. Reaches(X, SendChars(A, "failure"), ks, "initiated", X.tls, "none", X.wait)
  BY <1>3, <1>7, <1>8 DEF Moves, Reaches
<1>. QED BY <1>6, <1>9 DEF F, A, ks

LEMMA ReadAuthenticatingServer ==
  ASSUME NEW X, Fresh(X), X.site = "server", NEW e \in Units, NEW outcome,
         X.st = "authenticating", e.k \notin {"stream", "msg"}
  PROVE  LET R == Receive(X, e, outcome)
         IN  \/ Same(X, R) /\ e.k \notin {"response", "abort"}
             \/ ClosesWell(X, R) /\ e.k \notin {"response", "abort"}
             \/ /\ e.k \in {"response", "abort"}
                /\ Reaches(X, R, <<"failure">>, "initiated", X.tls, "none", X.wait)
             \/ /\ e.k = "response" /\ X.sasl = "idle"
                /\ Reaches(X, R, <<>>, "authenticating", X.tls, "busy", X.wait)
<1>. DEFINE R == Receive(X, e, outcome)
            E == Element(X, e, outcome = "retry")
            F == SaslAgain(SendChars(X, "failure"))
            G == SendChars(SaslAgain(X), "failure")
            B == SaslRequest(X)
<1>1. /\ X \in Ends /\ ~X.nested /\ X.st \notin {"closing_gnutls", "closed", "connecting", "handshaking"}
      /\ X.sasl \in {"none", "idle", "busy"}
  BY FreshFacts, EndFields
<1>2. e.k \notin {"fin", "bye"} => R = Finish(E)
  BY <1>1, ReceiveCases
<1>3. CASE e.k \in {"fin", "bye"}
  BY <1>1, <1>3, ReadFin
<1>4. CASE e.k = "end"
  BY <1>1, <1>4, ReadEnd
<1>5. CASE e.k = "abort" \/ (e.k = "response" /\ X.sasl # "idle")
  <2>1. E = F \/ E = G
    BY <1>1, <1>5 DEF Element, ProcessElement, ProcessAuthentication, SaslRequest, SaslError
  <2>2. /\ Reaches(X, F, <<"failure">>, "initiated", X.tls, "none", X.wait)
        /\ Reaches(X, G, <<"failure">>, "initiated", X.tls, "none", X.wait)
    BY <1>1, FailureAgain
  <2>. HIDE DEF E, F, G
  <2>3. R = E
    BY <1>2, <1>5, <2>1, <2>2 DEF Finish, Reaches
  <2>. QED BY <1>5, <2>1, <2>2, <2>3
<1>6. CASE e.k = "response" /\ X.sasl = "idle"
  <2>1. E = B
    BY <1>1, <1>6 DEF Element, ProcessElement, ProcessAuthentication
  <2>2. Moves(X, B, X.st, X.tls, "busy", X.wait, X.nested)
    BY <1>1, <1>6, BusyMoves
  <2>. HIDE DEF B, E
  <2>3. R = B
    BY <1>2, <1>6, <2>1, <2>2 DEF Finish, Moves
  <2>4. Reaches(X, B, <<>>, X.st, X.tls, "busy", X.wait)
    BY <1>1, <2>2, MovesReaches
  <2>. QED BY <1>6, <2>3, <2>4
<1>7. CASE e.k \notin {"stream", "msg", "fin", "bye", "end", "abort", "response"}
  <2>1. E = X
    BY <1>1, <1>7 DEF Element, ProcessElement, ProcessAuthentication
  <2>. HIDE DEF E
  <2>2. R = X
    BY <1>1, <1>2, <1>7, <2>1 DEF Finish
  <2>. QED BY <1>1, <1>7, <2>2, SameEnd
<1>. QED BY <1>1, <1>3, <1>4, <1>5, <1>6, <1>7

(***************************************************************************)
(* What an end does by itself                                              *)
(***************************************************************************)
LEMMA AnswerReaches ==
  ASSUME NEW X, Fresh(X), X.sasl = "busy", NEW outcome \in {"more", "done", "error"}
  PROVE  LET R == SaslResult(X, outcome)
         IN  /\ X.site = "client" =>
                  \/ Reaches(X, R, <<"response">>, "authenticating", X.tls, "idle", X.wait)
                  \/ ClosesLate(X, R)
             /\ X.site = "server" =>
                  \/ Reaches(X, R, <<"challenge">>, "authenticating", X.tls, "idle", X.wait)
                  \/ Reaches(X, R, <<"success">>, "auth_connected", X.tls, "none", X.wait)
                  \/ Reaches(X, R, <<"failure">>, "initiated", X.tls, "none", X.wait)
<1>. DEFINE R == SaslResult(X, outcome)
            idle == "idle"
            A == SaslAgain(X)
            S == SendChars(X, "success")
            one == <<"success">>
            F == SaslFinish(S)
<1>1. X \in Ends /\ X.st = "authenticating" /\ ~X.wait /\ X.site \in Sites
  BY FreshFacts, EndFields
<1>2. idle \in {"none", "idle", "busy"} /\ {"response", "challenge", "success", "failure"} \subseteq Kinds
  BY DEF Kinds
<1>. HIDE DEF idle
<1>3. /\ Reaches(X, SendChars([X EXCEPT !.sasl = idle], "response"), <<"response">>, X.st, X.tls, idle, X.wait)
      /\ Reaches(X, SendChars([X EXCEPT !.sasl = idle], "challenge"), <<"challenge">>, X.st, X.tls, idle, X.wait)
  <2>. DEFINE I == [X EXCEPT !.sasl = idle]
  <2>1. /\ Turns(X, I) /\ I \in Ends /\ I.st = X.st /\ I.tls = X.tls /\ I.sasl = idle
        /\ I.wait = X.wait /\ I.nested = X.nested
    <3>1. Moves(X, I, X.st, X.tls, idle, X.wait, X.nested)
      BY <1>1, <1>2, MoveSasl
    <3>. HIDE DEF I
    <3>. QED BY <3>1 DEF Moves, Turns
  <2>. HIDE DEF I
  <2>2. \A k \in {"response", "challenge"} :
           /\ Goes(I, SendChars(I, k), <<k>>) /\ SendChars(I, k).tls = I.tls
           /\ SendChars(I, k).sasl = I.sasl /\ SendChars(I, k).wait = I.wait
           /\ SendChars(I, k).st = I.st
    <3>1. I.st \notin {"handshaking", "closed"} /\ {"response", "challenge"} \subseteq Kinds
      BY <1>1, <1>2, <2>1
    <3>. QED BY <2>1, <3>1, SendCharsGoes
  <2>3. \A k \in {"response", "challenge"} : Goes(X, SendChars(I, k), <<k>>)
    BY <1>1, <2>1, <2>2, TurnsThenGoes
  <2>. QED BY <2>1, <2>2, <2>3 DEF Reaches, I
<1>4. CASE outcome = "more" \/ (outcome = "done" /\ X.site = "client")
  <2>1. R = IF X.site = "server" THEN SendChars([X EXCEPT !.sasl = idle], "challenge")
                                 ELSE SendChars([X EXCEPT !.sasl = idle], "response")
    BY <1>4 DEF SaslResult, idle
  <2>. QED BY <1>1, <1>3, <2>1 DEF idle
<1>5. CASE outcome = "error" /\ X.site = "client"
  <2>1. R = Terminate(A, FALSE)
    BY <1>5 DEF SaslResult, SaslError
  <2>2. Turns(X, A) /\ A \in Ends /\ A.st = "awaiting_features" /\ A.tls = X.tls
    BY <1>1, <1>5, AgainMoves DEF Moves
  <2>. HIDE DEF A, R
  <2>3. ClosesLate(A, R)
    BY <2>1, <2>2, TerminateWell, WellLate
  <2>4. R.tls => X.tls
    BY <2>2, <2>3 DEF ClosesLate, Closes
  <2>. QED BY <1>1, <1>5, <2>2, <2>3, <2>4, WellAfterTurn DEF R
<1>6. CASE outcome = "error" /\ X.site = "server"
  <2>1. R = SaslAgain(SendChars(X, "failure"))
    BY <1>6 DEF SaslResult, SaslError
  <2>. QED BY <1>1, <1>6, <2>1, FailureAgain
<1>7. CASE outcome = "done" /\ X.site = "server"
  <2>1. R = Initiate(F)
    BY <1>7 DEF SaslResult
  <2>2. Goes(X, S, one) /\ S.tls = X.tls /\ S.wait = X.wait
    BY <1>1, <1>2, SendCharsGoes
  <2>. HIDE DEF S, one, R
  <2>3. S \in Ends /\ S.site = "server"
    BY <1>7, <2>2 DEF Goes, SameSetup
  <2>4. Moves(S, F, "auth_connected", S.tls, "none", S.wait, S.nested)
    <3>. DEFINE none == "none"
                st == "auth_connected"
    <3>1. none \in {"none", "idle", "busy"} /\ st \in States
      BY DEF States, ServerStates
    <3>2. F = [S EXCEPT !.sasl = none, !.st = st]
      BY DEF SaslFinish
    <3>. HIDE DEF none, st, F
    <3>3. Moves(S, F, st, S.tls, none, S.wait, S.nested)
      BY <2>3, <3>1, <3>2, MoveSaslSt
    <3>. QED BY <3>3 DEF none, st
  <2>. HIDE DEF F
  <2>5. F \in Ends /\ F.site = "server" /\ F.st = "auth_connected" /\ F.sasl = "none"
    BY <2>3, <2>4 DEF Moves, Turns, SameSetup
  <2>6. Reaches(F, R, <<>>, F.st, F.tls, F.sasl, F.wait)
    BY <2>1, <2>5, InitiateReaches
  <2>7. Turns(F, R)
    BY <2>5, <2>6, TurnsGoes DEF Reaches
  <2>8. Goes(X, R, one)
    BY <1>1, <2>2, <2>4, <2>7, GoesThenTurns DEF Moves
  <2>9. Reaches(X, R, one, "auth_connected", X.tls, "none", X.wait)
    BY <2>2, <2>4, <2>6, <2>8 DEF Moves, Reaches
  <2>. QED BY <1>7, <2>9 DEF one, R
<1>. QED BY <1>1, <1>4, <1>5, <1>6, <1>7 DEF Sites

LEMMA VerifyReaches ==
  ASSUME NEW X, Fresh(X), X.wait
  PROVE  /\ Reaches(X, VerifyContinue(X), <<"stream">>, "initiated", X.tls, X.sasl, FALSE)
         /\ ClosesWell(X, VerifyCancel(X))
<1>. DEFINE W == [X EXCEPT !.wait = FALSE]
<1>1. X \in Ends /\ X.st = "connected" /\ X.site = "client"
  BY FreshFacts DEF Fresh, EndOK
<1>2. Moves(X, W, X.st, X.tls, X.sasl, FALSE, X.nested)
  BY <1>1, MoveWait
<1>3. VerifyContinue(X) = Initiate(W) /\ VerifyCancel(X) = Terminate(W, FALSE)
  BY DEF VerifyContinue, VerifyCancel
<1>. HIDE DEF W
<1>4. W \in Ends /\ W.site = "client" /\ W.st = "connected" /\ Turns(X, W) /\ W.tls = X.tls
      /\ W.sasl = X.sasl /\ W.wait = FALSE
  BY <1>1, <1>2 DEF Moves, Turns, SameSetup
<1>5. Reaches(W, Initiate(W), <<"stream">>, "initiated", W.tls, W.sasl, W.wait)
  BY <1>4, InitiateReaches
<1>6. Goes(X, Initiate(W), <<"stream">>)
  BY <1>1, <1>4, <1>5, TurnsThenGoes DEF Reaches
<1>7. ClosesWell(W, Terminate(W, FALSE))
  BY <1>4, TerminateWell
<1>8. ClosesWell(X, Terminate(W, FALSE))
  <2>1. PICK ks \in Seq(Kinds) : /\ Closes(W, Terminate(W, FALSE), ks)
                                 /\ \A i \in 1..Len(ks) : ks[i] \in EndKinds
                                 /\ ks \in {<<>>, <<"bye">>}
    BY <1>4, <1>7 DEF ClosesWell
  <2>2. Terminate(W, FALSE).tls => X.tls
    BY <1>4, <2>1 DEF Closes
  <2>3. Closes(X, Terminate(W, FALSE), ks)
    BY <1>1, <1>4, <2>1, <2>2, ClosesAfterTurn
  <2>. QED BY <1>1, <2>1, <2>3 DEF ClosesWell
<1>. QED BY <1>3, <1>4, <1>5, <1>6, <1>8 DEF Reaches

LEMMA ResetReaches ==
  ASSUME NEW X, Fresh(X), X.st = "authenticating", X.sasl # "none"
  PROVE  LET R == ResetSasl(X)
         IN  /\ X.site = "client" => Reaches(X, R, <<"abort">>, "authenticating", X.tls, "none", X.wait)
             /\ X.site = "server" => Reaches(X, R, <<>>, "authenticating", X.tls, "none", X.wait)
<1>. DEFINE none == "none"
<1>1. X \in Ends /\ none \in {"none", "idle", "busy"} /\ "abort" \in Kinds /\ "initiated" \in States
  BY FreshFacts DEF Kinds, States, ClientStates
<1>2. ResetSasl(X) = IF X.site = "client" THEN [SendChars(X, "abort") EXCEPT !.sasl = none]
                                          ELSE [X EXCEPT !.sasl = none]
  BY DEF ResetSasl
<1>. HIDE DEF none
<1>3. Reaches(X, [SendChars(X, "abort") EXCEPT !.sasl = none], <<"abort">>, X.st, X.tls, none, X.wait)
  BY <1>1, SendMoves
<1>4. Reaches(X, [X EXCEPT !.sasl = none], <<>>, X.st, X.tls, none, X.wait)
  BY <1>1, MoveSasl, MovesReaches
<1>. QED BY <1>2, <1>3, <1>4 DEF none

LEMMA CloseWell ==
  ASSUME NEW X \in Ends, EndOK(X), IsOpen(X), X.st # "encryption_requested"
  PROVE  /\ ClosesWell(X, Close(X))
         /\ X.tcp # "connecting" \/ Close(X).st = "closed"
<1>1. /\ X.st \notin Over
      /\ X.st \in ClientStates \cup ServerStates
      /\ X.st # "authenticating" => X.sasl = "none"
      /\ X.st # "connected" => ~X.wait
      /\ X.tcp = "connecting" => X.st = "connecting"
  BY DEF EndOK, IsOpen
<1>2. CASE X.st \in {"connecting", "handshaking"}
  <2>1. Close(X) = TcpClose(X)
    <3>1. TcpClose(X) \in Ends /\ TcpClose(X).tls = FALSE
      BY TcpCloseCloses, TcpCloseClears DEF Closes
    <3>2. Close(X) = [TcpClose(X) EXCEPT !.tls = FALSE]
      BY <1>2 DEF Close
    <3>. QED BY <3>1, <3>2 DEF Ends
  <2>. QED BY <2>1, TcpCloseWell, TcpCloseCloses
<1>3. CASE X.st \in {"connected", "auth_connected", "authenticating"}
  <2>1. Close(X) = Terminate(X, FALSE)
    BY <1>3 DEF Close
  <2>. QED BY <1>1, <1>3, <2>1, TerminateWell
<1>4. CASE X.st \notin {"connecting", "handshaking", "connected", "auth_connected", "authenticating"}
  <2>1. Close(X) = Deinitiate(X)
    BY <1>4 DEF Close
  <2>2. X.st \in {"initiated", "awaiting_features", "auth_initiated", "auth_awaiting_features", "ready"}
    BY <1>1, <1>4 DEF ClientStates, ServerStates
  <2>. QED BY <1>1, <2>1, <2>2, DeinitiateWell
<1>. QED BY <1>2, <1>3, <1>4

LEMMA ConnectedReaches ==
  ASSUME NEW X \in Ends, X.site = "client"
  PROVE  LET Z == [X EXCEPT !.tcp = "connected", !.st = "connected"]
         IN  /\ Z \in Ends /\ SameSetup(X, Z) /\ Z.out = X.out /\ Z.pos = X.pos /\ Z.msgs = X.msgs
             /\ Z.told = X.told /\ Z.bad = X.bad /\ Z.nested = X.nested /\ Z.tcp = "connected"
             /\ Reaches(Z, Connected(X), <<"stream">>, "initiated", X.tls, X.sasl, X.wait)
<1>. DEFINE st == "connected"
            Z == [X EXCEPT !.tcp = "connected", !.st = st]
<1>1. st \in ClientStates
  BY DEF ClientStates
<1>2. Connected(X) = Initiate(Z)
  BY DEF Connected
<1>. HIDE DEF st
<1>3. Z \in Ends
  BY <1>1 DEF Ends
<1>4. /\ SameSetup(X, Z) /\ Z.out = X.out /\ Z.pos = X.pos /\ Z.msgs = X.msgs
      /\ Z.told = X.told /\ Z.bad = X.bad /\ Z.nested = X.nested /\ Z.tcp = "connected"
      /\ Z.st = st /\ Z.tls = X.tls /\ Z.sasl = X.sasl /\ Z.wait = X.wait /\ Z.site = "client"
  BY DEF Ends, SameSetup
<1>5. Z = [X EXCEPT !.tcp = "connected", !.st = "connected"]
  BY DEF st
<1>. HIDE DEF Z
<1>6. Reaches(Z, Initiate(Z), <<"stream">>, "initiated", Z.tls, Z.sasl, Z.wait)
  BY <1>3, <1>4, InitiateReaches DEF st
<1>. QED BY <1>2, <1>3, <1>4, <1>5, <1>6

\* A message is queued in TCP and in the list.
Sends(X, Y, id) ==
  /\ Y \in Ends /\ SameSetup(X, Y) /\ Y.told = X.told /\ Y.bad = X.bad /\ Y.tcp = X.tcp
  /\ Y.nested = X.nested /\ Y.st = X.st /\ Y.tls = X.tls /\ Y.sasl = X.sasl /\ Y.wait = X.wait
  /\ Y.out = X.out \o Payload(id) /\ Y.pos = X.pos + 2
  /\ Y.msgs = Append(X.msgs, [pos |-> X.pos + 2, id |-> id])

LEMMA PayloadFacts ==
  ASSUME NEW id \in Nat
  PROVE  /\ Payload(id) \in Seq(Units) /\ Len(Payload(id)) = 2
         /\ Payload(id)[1] = [k |-> "half", id |-> id] /\ Payload(id)[2] = [k |-> "msg", id |-> id]
<1>. DEFINE a == [k |-> "half", id |-> id]
            b == [k |-> "msg", id |-> id]
<1>1. a \in Units /\ b \in Units
  BY DEF Units, Kinds
<1>2. Payload(id) = <<a, b>>
  BY DEF Payload
<1>. HIDE DEF a, b
<1>3. <<a, b>> \in Seq(Units) /\ Len(<<a, b>>) = 2 /\ <<a, b>>[1] = a /\ <<a, b>>[2] = b
  BY <1>1
<1>. QED BY <1>2, <1>3 DEF a, b

LEMMA SendSends ==
  ASSUME NEW X \in Ends, NEW id \in Nat, X.pos \in Nat, X.st = "ready"
  PROVE  Sends(X, Send(X, id), id)
<1>. DEFINE u == Payload(id)
            P == Push(X, u)
            m == [pos |-> P.pos, id |-> id]
            msgs == Append(P.msgs, m)
            Y == [P EXCEPT !.msgs = msgs]
<1>1. u \in Seq(Units) /\ Len(u) = 2
  BY PayloadFacts
<1>. HIDE DEF u
<1>2. P \in Ends /\ SameState(X, P) /\ P.out = X.out \o u /\ P.pos = X.pos + 2
  BY <1>1, PushFacts
<1>. HIDE DEF P
<1>3. m \in Messages /\ P.msgs \in Seq(Messages) /\ P.pos # 0 /\ P.msgs = X.msgs
  BY <1>2, EndFields DEF Messages, SameState
<1>4. msgs \in Seq(Messages)
  BY <1>3, AppendProperties
<1>5. Send(X, id) = Y
  BY <1>2, <1>3 DEF Send, PushMessage, P, u, SameState
<1>6. msgs = Append(X.msgs, [pos |-> X.pos + 2, id |-> id])
  BY <1>2, <1>3
<1>. HIDE DEF msgs
<1>7. Y \in Ends
  BY <1>2, <1>4 DEF Ends
<1>8. /\ SameSetup(P, Y) /\ Y.told = P.told /\ Y.bad = P.bad /\ Y.tcp = P.tcp
      /\ Y.nested = P.nested /\ Y.st = P.st /\ Y.tls = P.tls /\ Y.sasl = P.sasl /\ Y.wait = P.wait
      /\ Y.out = P.out /\ Y.pos = P.pos /\ Y.msgs = msgs
  BY <1>2 DEF Ends, SameSetup
<1>. HIDE DEF Y
<1>9. Sends(X, Y, id)
  BY <1>2, <1>6, <1>7, <1>8 DEF Sends, SameState, SameSetup, u
<1>. QED BY <1>5, <1>9

LEMMA ReadClosing ==
  ASSUME NEW X \in Ends, EndOK(X), X.st \in Closing, NEW e \in Units, NEW outcome
  PROVE  \E ks \in {<<>>, <<"bye">>} : Closes(X, Receive(X, e, outcome), ks)
<1>. DEFINE R == Receive(X, e, outcome)
            E == Element(X, e, outcome = "retry")
            P == [X EXCEPT !.nested = TRUE]
            Q == [X EXCEPT !.nested = FALSE]
            T == Terminate(X, TRUE)
            tw == TerminateWord(X.st, X.tls)
<1>0. ~X.bad /\ X.sasl = "none" /\ ~X.wait /\ X.st \notin {"closed", "handshaking", "auth_connected"}
  BY DEF EndOK, Closing
<1>1. Closes(X, TcpClose(X), <<>>)
  BY TcpCloseCloses
<1>2. Turns(X, X)
  BY DEF Turns, SameSetup
<1>3. Closes(X, X, <<>>)
  BY <1>0, <1>2, TurnsGoes DEF Goes, Closes
<1>4. CASE X.st = "closing_gnutls"
  BY <1>1, <1>3, <1>4 DEF Receive
<1>5. CASE X.st = "closing_stream" /\ e.k \in {"fin", "bye"}
  BY <1>1, <1>5, ReceiveCases
<1>6. CASE X.st = "closing_stream" /\ e.k \notin {"fin", "bye"}
  <2>1. R = Finish(E)
    BY <1>6, ReceiveCases
  <2>2. E = X \/ E = P \/ E = Q \/ E = T
    BY <1>0, <1>6 DEF Element, ProcessElement, Require
  <2>3. Ending(X, T, tw) /\ tw \in {<<>>, <<"bye">>}
    BY <1>6, TerminateEnds, TerminateWords, EndFields
  <2>. HIDE DEF E, T, tw
  <2>4. CASE E = X
    BY <1>3, <1>6, <2>1, <2>4 DEF Finish
  <2>5. CASE E = P \/ E = Q
    <3>1. /\ P \in Ends /\ SameSetup(X, P) /\ P.told = X.told /\ P.bad = X.bad /\ P.sasl = X.sasl
          /\ P.wait = X.wait /\ P.tls = X.tls /\ P.st = X.st /\ P.tcp = X.tcp /\ P.out = X.out
          /\ P.pos = X.pos /\ P.msgs = X.msgs
      BY DEF Ends, SameSetup
    <3>2. /\ Q \in Ends /\ SameSetup(X, Q) /\ Q.told = X.told /\ Q.bad = X.bad /\ Q.sasl = X.sasl
          /\ Q.wait = X.wait /\ Q.tls = X.tls /\ Q.st = X.st /\ Q.tcp = X.tcp /\ Q.out = X.out
          /\ Q.pos = X.pos /\ Q.msgs = X.msgs
      BY DEF Ends, SameSetup
    <3>3. E \in Ends /\ E.st = "closing_stream" /\ Closes(X, E, <<>>)
      <4>. HIDE DEF P, Q
      <4>1. /\ E \in Ends /\ SameSetup(X, E) /\ E.told = X.told /\ E.bad = X.bad /\ E.sasl = X.sasl
            /\ E.wait = X.wait /\ E.tls = X.tls /\ E.st = X.st /\ E.tcp = X.tcp /\ E.out = X.out
            /\ E.pos = X.pos /\ E.msgs = X.msgs
        BY <2>5, <3>1, <3>2
      <4>. QED BY <1>0, <1>3, <1>6, <4>1 DEF Closes, SameSetup
    <3>. QED BY <2>1, <3>3 DEF Finish
  <2>6. CASE E = T
    <3>1. T.st = "closing_gnutls" /\ Closes(X, PushMessage(Clear(T), 0), tw)
      BY <2>3, LastMessage DEF Ending
    <3>2. R = PushMessage(Clear(T), 0)
      BY <2>1, <2>6, <3>1 DEF Finish
    <3>. QED BY <2>3, <3>1, <3>2
  <2>. QED BY <2>2, <2>4, <2>5, <2>6
<1>. QED BY <1>4, <1>5, <1>6 DEF Closing

(***************************************************************************)
(* The list of messages                                                    *)
(***************************************************************************)
LEMMA SentFacts ==
  ASSUME NEW X \in Ends, NEW len \in Int,
         \A i, j \in 1..Len(X.msgs) : i < j => X.msgs[i].pos <= X.msgs[j].pos
  PROVE  LET n == SentMessages(X, len)
         IN  /\ n \in Nat /\ n <= Len(X.msgs)
             /\ \A i \in 1..Len(X.msgs) : X.msgs[i].pos <= len <=> i <= n
<1>. DEFINE N == Len(X.msgs)
            I == {i \in 1..N : X.msgs[i].pos <= len}
            n == Cardinality(I)
<1>1. N \in Nat /\ \A i \in 1..N : X.msgs[i].pos \in Int
  <2>1. X.msgs \in Seq(Messages)
    BY EndFields
  <2>2. Len(X.msgs) \in Nat /\ \A i \in 1..Len(X.msgs) : X.msgs[i] \in Messages
    BY <2>1, LenProperties, ElementOfSeq
  <2>. QED BY <2>2 DEF Messages
<1>. HIDE DEF N
<1>2. \A a, b \in Int : IsFiniteSet(a..b) /\ Cardinality(a..b) = IF a > b THEN 0 ELSE b - a + 1
  BY FS_Interval
<1>3. IsFiniteSet(I) /\ n \in Nat /\ n <= N
  <2>1. I \subseteq 1..N
    OBVIOUS
  <2>2. IsFiniteSet(1..N) /\ Cardinality(1..N) = N
    BY <1>1, <1>2
  <2>. HIDE DEF I
  <2>. QED BY <2>1, <2>2, FS_Subset, FS_CardinalityType
<1>4. ASSUME NEW i \in 1..N
      PROVE  X.msgs[i].pos <= len <=> i <= n
  <2>1. CASE X.msgs[i].pos <= len
    <3>1. 1..i \subseteq I
      BY <1>1, <2>1 DEF N
    <3>2. Cardinality(1..i) = i
      BY <1>2
    <3>. HIDE DEF I
    <3>3. Cardinality(1..i) <= Cardinality(I)
      BY <1>3, <3>1, FS_Subset
    <3>. QED BY <2>1, <3>2, <3>3
  <2>2. CASE ~(X.msgs[i].pos <= len)
    <3>1. I \subseteq 1..i - 1
      <4>1. SUFFICES ASSUME NEW j \in 1..N, X.msgs[j].pos <= len
                     PROVE  j \in 1..i - 1
        OBVIOUS
      <4>2. ~(i < j) /\ i # j
        BY <1>1, <2>2, <4>1 DEF N
      <4>. QED BY <1>1, <4>2
    <3>2. IsFiniteSet(1..i - 1) /\ Cardinality(1..i - 1) = i - 1
      BY <1>2
    <3>. HIDE DEF I
    <3>3. Cardinality(I) <= Cardinality(1..i - 1)
      BY <3>1, <3>2, FS_Subset
    <3>. QED BY <1>3, <2>2, <3>2, <3>3
  <2>. QED BY <2>1, <2>2
<1>5. n = SentMessages(X, len)
  BY DEF SentMessages, N
<1>. QED BY <1>3, <1>4, <1>5 DEF N

\* What is written is no longer in TCP's queue, and the messages that end there are reported.
Writes(X, Y, n, m) ==
  /\ Y \in Ends /\ SameSetup(X, Y) /\ Y.bad = X.bad /\ Y.nested = X.nested
  /\ \/ /\ Y.st = "closed" /\ Y.tcp = "closed" /\ Y.out = <<>> /\ Y.pos = 0 /\ Y.msgs = <<>>
        /\ Y.sasl = "none" /\ ~Y.wait /\ ~Y.tls
        /\ \E i \in 1..m : X.msgs[i].id = 0
     \/ /\ Y.st = X.st /\ Y.tcp = X.tcp /\ Y.tls = X.tls /\ Y.sasl = X.sasl /\ Y.wait = X.wait
        /\ Y.out = SubSeq(X.out, n + 1, Len(X.out)) /\ Y.pos = X.pos - n
        /\ Len(Y.msgs) = Len(X.msgs) - m
        /\ \A i \in 1..Len(X.msgs) - m : /\ Y.msgs[i].id = X.msgs[i + m].id
                                         /\ Y.msgs[i].pos = X.msgs[i + m].pos - n
  /\ Y.told = X.told \cup ({X.msgs[i].id : i \in 1..m} \ {0})

LEMMA WrittenWrites ==
  ASSUME NEW X \in Ends, NEW n \in Nat, n <= Len(X.out),
         \A i, j \in 1..Len(X.msgs) : i < j => X.msgs[i].pos <= X.msgs[j].pos
  PROVE  LET m == SentMessages(X, n)
         IN  /\ Writes(X, Written(X, n), n, m)
             /\ m \in Nat /\ m <= Len(X.msgs)
             /\ \A i \in 1..Len(X.msgs) : X.msgs[i].pos <= n <=> i <= m
<1>. DEFINE out == SubSeq(X.out, n + 1, Len(X.out))
            Z == [X EXCEPT !.out = out]
            m == SentMessages(X, n)
            ids == {Z.msgs[i].id : i \in 1..m}
            told == Z.told \cup (ids \ {0})
            pos == Z.pos - n
            msgs == [i \in 1..Len(Z.msgs) - m |->
                       [pos |-> Z.msgs[i + m].pos - n, id |-> Z.msgs[i + m].id]]
            Y == [Z EXCEPT !.pos = pos, !.msgs = msgs, !.told = told]
<1>1. m \in Nat /\ m <= Len(X.msgs) /\ \A i \in 1..Len(X.msgs) : X.msgs[i].pos <= n <=> i <= m
  BY SentFacts, n \in Int
<1>2. X.msgs \in Seq(Messages) /\ Len(X.msgs) \in Nat /\ X.pos \in Int /\ X.told \in SUBSET Nat
      /\ \A i \in 1..Len(X.msgs) : X.msgs[i] \in Messages
  BY EndFields, LenProperties, ElementOfSeq
<1>3. X.out \in Seq(Units) /\ out \in Seq(Units)
  <2>1. X.out \in Seq(Units) /\ Len(X.out) \in Nat
    BY EndFields, LenProperties
  <2>2. \A i \in n + 1..Len(X.out) : X.out[i] \in Units
    BY <2>1, ElementOfSeq
  <2>. QED BY <2>1, <2>2, SubSeqProperties
<1>. HIDE DEF out
<1>4. /\ Z \in Ends /\ Z.msgs = X.msgs /\ Z.pos = X.pos /\ Z.told = X.told /\ Z.out = out
      /\ SameSetup(X, Z) /\ Z.st = X.st /\ Z.tcp = X.tcp /\ Z.tls = X.tls /\ Z.sasl = X.sasl
      /\ Z.wait = X.wait /\ Z.bad = X.bad /\ Z.nested = X.nested
  BY <1>3 DEF Ends, SameSetup
<1>5. SentMessages(Z, n) = m
  BY <1>4 DEF SentMessages
<1>9. Written(X, n) = IF 0 \in ids THEN TcpClose(Y) ELSE Y
  <2>1. Written(X, n) = PopMessages(Z, n, m)
    BY <1>5 DEF Written, SentCb, out
  <2>. HIDE DEF Z, m
  <2>. QED BY <2>1 DEF PopMessages
<1>. HIDE DEF Z, m
<1>6. \A i \in 1..Len(X.msgs) - m : i + m \in 1..Len(X.msgs)
  BY <1>1, <1>2
<1>7. /\ msgs \in Seq(Messages) /\ Len(msgs) = Len(X.msgs) - m
      /\ \A i \in 1..Len(X.msgs) - m : msgs[i].id = X.msgs[i + m].id /\ msgs[i].pos = X.msgs[i + m].pos - n
  <2>. DEFINE moved(i) == [pos |-> Z.msgs[i + m].pos - n, id |-> Z.msgs[i + m].id]
  <2>1. ASSUME NEW i \in 1..Len(X.msgs) - m
        PROVE  /\ moved(i) \in Messages /\ moved(i).id = X.msgs[i + m].id
               /\ moved(i).pos = X.msgs[i + m].pos - n
    <3>1. X.msgs[i + m] \in Messages /\ Z.msgs = X.msgs
      BY <1>2, <1>4, <1>6
    <3>2. X.msgs[i + m].pos \in Int /\ X.msgs[i + m].id \in Nat
      BY <3>1 DEF Messages
    <3>3. X.msgs[i + m].pos - n \in Int
      BY <3>2
    <3>. QED BY <3>1, <3>2, <3>3 DEF Messages
  <2>2. Len(X.msgs) - m \in Nat /\ msgs = [i \in 1..Len(X.msgs) - m |-> moved(i)]
    BY <1>1, <1>2, <1>4
  <2>. HIDE DEF moved, msgs
  <2>. QED BY <2>1, <2>2
<1>8. pos \in Int /\ told \in SUBSET Nat
  <2>1. \A i \in 1..m : i \in 1..Len(X.msgs)
    BY <1>1, <1>2
  <2>2. \A i \in 1..m : X.msgs[i].id \in Nat
    BY <1>2, <2>1 DEF Messages
  <2>3. ids \subseteq Nat
    BY <1>4, <2>2
  <2>4. pos \in Int
    BY <1>2, <1>4
  <2>5. told = X.told \cup (ids \ {0})
    BY <1>4
  <2>. HIDE DEF told, ids, pos
  <2>. QED BY <1>2, <2>3, <2>4, <2>5
<1>10. (0 \in ids => \E i \in 1..m : X.msgs[i].id = 0) /\ ids = {X.msgs[i].id : i \in 1..m}
  BY <1>4
<1>14. told = X.told \cup (ids \ {0}) /\ pos = X.pos - n
  BY <1>4
<1>. HIDE DEF pos, told, msgs, ids
<1>11. /\ Y \in Ends /\ Y.msgs = msgs /\ Y.pos = pos /\ Y.told = told /\ Y.out = out
       /\ SameSetup(X, Y) /\ Y.st = X.st /\ Y.tcp = X.tcp /\ Y.tls = X.tls /\ Y.sasl = X.sasl
       /\ Y.wait = X.wait /\ Y.bad = X.bad /\ Y.nested = X.nested
  BY <1>4, <1>7, <1>8 DEF Ends, SameSetup
<1>. HIDE DEF Y
<1>12. CASE 0 \in ids
  <2>1. Closes(Y, TcpClose(Y), <<>>) /\ TcpClose(Y).nested = Y.nested /\ TcpClose(Y).st = "closed"
    BY <1>11, TcpCloseCloses
  <2>2. TcpClose(Y).tls = FALSE
    BY <1>11, TcpCloseClears
  <2>3. Writes(X, TcpClose(Y), n, m)
    BY <1>10, <1>11, <1>12, <1>14, <2>1, <2>2 DEF Closes, Writes, SameSetup, Closing
  <2>. QED BY <1>1, <1>9, <1>12, <2>3 DEF m
<1>13. CASE ~(0 \in ids)
  <2>1. Writes(X, Y, n, m)
    BY <1>7, <1>10, <1>11, <1>14 DEF Writes, out
  <2>. QED BY <1>1, <1>9, <1>13, <2>1 DEF m
<1>. QED BY <1>12, <1>13

LEMMA OutFacts ==
  ASSUME NEW out \in Seq(Units), NEW ks \in Seq(Kinds)
  PROVE  LET new == out \o Control(ks)
         IN  /\ new \in Seq(Units) /\ Len(out) \in Nat /\ Len(ks) \in Nat
             /\ Len(new) = Len(out) + Len(ks)
             /\ \A j \in 1..Len(out) : new[j] = out[j]
             /\ \A j \in 1..Len(new) : j > Len(out) => new[j].id = 0
             /\ \A i \in 1..Len(ks) : new[i + Len(out)].k = ks[i]
             /\ \A j \in 1..Len(new) : j > Len(out) => new[j].k = ks[j - Len(out)]
<1>. DEFINE u == Control(ks)
<1>1. /\ u \in Seq(Units) /\ Len(u) = Len(ks) /\ \A i \in 1..Len(ks) : u[i].id = 0 /\ u[i].k = ks[i]
  <2>1. /\ u \in Seq(Units) /\ Len(u) = Len(ks) /\ \A i \in 1..Len(ks) : u[i] = Unit(ks[i])
    BY ControlFacts
  <2>2. \A i \in 1..Len(ks) : Unit(ks[i]).id = 0 /\ Unit(ks[i]).k = ks[i]
    BY DEF Unit
  <2>. HIDE DEF u
  <2>. QED BY <2>1, <2>2
<1>. HIDE DEF u
<1>2. Len(out) \in Nat /\ Len(ks) \in Nat
  BY LenProperties
<1>3. /\ out \o u \in Seq(Units) /\ Len(out \o u) = Len(out) + Len(u)
      /\ \A i \in 1..Len(out) : (out \o u)[i] = out[i]
      /\ \A i \in 1..Len(u) : (out \o u)[i + Len(out)] = u[i]
  BY <1>1, Concatenated
<1>4. ASSUME NEW j \in 1..Len(out \o u), j > Len(out)
      PROVE  (out \o u)[j].id = 0 /\ (out \o u)[j].k = ks[j - Len(out)]
  <2>1. j - Len(out) \in 1..Len(u) /\ (j - Len(out)) + Len(out) = j
    BY <1>1, <1>2, <1>3, <1>4
  <2>2. (out \o u)[(j - Len(out)) + Len(out)] = u[j - Len(out)]
    BY <1>3, <2>1
  <2>. QED BY <1>1, <2>1, <2>2
<1>5. \A i \in 1..Len(ks) : (out \o u)[i + Len(out)].k = ks[i]
  BY <1>1, <1>3
<1>6. /\ out \o u \in Seq(Units) /\ Len(out) \in Nat /\ Len(ks) \in Nat
      /\ Len(out \o u) = Len(out) + Len(ks)
      /\ \A j \in 1..Len(out) : (out \o u)[j] = out[j]
      /\ \A j \in 1..Len(out \o u) : j > Len(out) => (out \o u)[j].id = 0
      /\ \A i \in 1..Len(ks) : (out \o u)[i + Len(out)].k = ks[i]
      /\ \A j \in 1..Len(out \o u) : j > Len(out) => (out \o u)[j].k = ks[j - Len(out)]
  BY <1>1, <1>2, <1>3, <1>4, <1>5
<1>. QED BY <1>6 DEF u

\* The queue of an end that sends elements.
LEMMA QueueGrows ==
  ASSUME NEW X \in Ends, NEW Y \in Ends, NEW send \in Nat, QueueOK(X, send), NEW ks \in Seq(Kinds),
         Y.out = X.out \o Control(ks), Y.pos = X.pos + Len(ks), Y.told = X.told,
         Y.msgs \in {X.msgs, <<>>, <<[pos |-> Y.pos, id |-> 0]>>}
  PROVE  QueueOK(Y, send)
<1>1. /\ Len(X.out) \in Nat /\ Len(ks) \in Nat /\ Len(Y.out) = Len(X.out) + Len(ks)
      /\ \A j \in 1..Len(X.out) : Y.out[j] = X.out[j]
      /\ \A j \in 1..Len(Y.out) : j > Len(X.out) => Y.out[j].id = 0
  <2>1. X.out \in Seq(Units)
    BY EndFields
  <2>. DEFINE new == X.out \o Control(ks)
  <2>2. /\ Len(X.out) \in Nat /\ Len(ks) \in Nat /\ Len(new) = Len(X.out) + Len(ks)
        /\ \A j \in 1..Len(X.out) : new[j] = X.out[j]
        /\ \A j \in 1..Len(new) : j > Len(X.out) => new[j].id = 0
    BY <2>1, OutFacts
  <2>3. Y.out = new
    OBVIOUS
  <2>. HIDE DEF new
  <2>. QED BY <2>2, <2>3
<1>2. X.pos \in Int /\ Y.pos \in Int /\ X.pos = Len(X.out)
  BY EndFields DEF QueueOK
<1>3. Y.pos = Len(Y.out)
  BY <1>1, <1>2
<1>4. /\ \A j \in 1..Len(Y.out) : j <= Len(X.out) => j \in 1..Len(X.out)
      /\ \A j \in 1..Len(X.out) : X.out[j].id > send \/ X.out[j].id = 0
      /\ \A j \in 1..Len(X.out) : X.out[j].id \notin X.told
      /\ 0 \notin X.told
  BY <1>1 DEF QueueOK
<1>56. ASSUME NEW j \in 1..Len(Y.out)
       PROVE  (Y.out[j].id > send \/ Y.out[j].id = 0) /\ Y.out[j].id \notin Y.told
  <2>1. CASE j <= Len(X.out)
    BY <1>1, <1>4, <2>1
  <2>2. CASE ~(j <= Len(X.out))
    <3>1. j > Len(X.out)
      BY <1>1, <2>2
    <3>. QED BY <1>1, <1>4, <3>1
  <2>. QED BY <2>1, <2>2
<1>5. \A j \in 1..Len(Y.out) : Y.out[j].id > send \/ Y.out[j].id = 0
  BY <1>56
<1>6. \A j \in 1..Len(Y.out) : Y.out[j].id \notin Y.told
  BY <1>56
<1>7. (\A id \in Y.told : id > send) /\ 0 \notin Y.told
  BY DEF QueueOK
<1>8. CASE Y.msgs = X.msgs
  <2>1. X.msgs \in Seq(Messages) /\ Len(X.msgs) \in Nat
    BY EndFields, LenProperties
  <2>2. \A i \in 1..Len(X.msgs) : /\ X.msgs[i] \in Messages /\ X.msgs[i].pos <= X.pos
                                  /\ X.msgs[i].pos \in Int /\ X.msgs[i].id \in Nat
    <3>1. \A i \in 1..Len(X.msgs) : X.msgs[i] \in Messages
      BY <2>1, ElementOfSeq
    <3>. QED BY <3>1 DEF QueueOK, Messages
  <2>3. \A i \in 1..Len(Y.msgs) : Y.msgs[i].pos <= Y.pos
    <3>1. ASSUME NEW i \in 1..Len(X.msgs) PROVE X.msgs[i].pos <= Y.pos
      <4>1. X.msgs[i].pos <= X.pos /\ X.msgs[i].pos \in Int
        BY <2>2
      <4>2. X.pos <= Y.pos
        BY <1>1, <1>2
      <4>. QED BY <1>2, <4>1, <4>2
    <3>. QED BY <1>8, <3>1
  <2>4. \A i, j \in 1..Len(Y.msgs) : i < j => Y.msgs[i].pos <= Y.msgs[j].pos
    BY <1>8 DEF QueueOK
  <2>5. ASSUME NEW i \in 1..Len(Y.msgs), Y.msgs[i].id # 0
        PROVE  /\ Y.msgs[i].pos > 0
               /\ Y.out[Y.msgs[i].pos] = Payload(Y.msgs[i].id)[2]
               /\ \A j \in 1..Len(Y.out) : Y.out[j].id = Y.msgs[i].id => j <= Y.msgs[i].pos
    <3>1. /\ X.msgs[i].pos > 0 /\ X.out[X.msgs[i].pos] = Payload(X.msgs[i].id)[2]
          /\ \A j \in 1..Len(X.out) : X.out[j].id = X.msgs[i].id => j <= X.msgs[i].pos
      BY <1>8, <2>5 DEF QueueOK
    <3>2. X.msgs[i].pos \in 1..Len(X.out)
      BY <1>1, <1>2, <1>8, <2>2, <3>1
    <3>3. \A j \in 1..Len(Y.out) : Y.out[j].id = Y.msgs[i].id => j <= Y.msgs[i].pos
      <4>1. ASSUME NEW j \in 1..Len(Y.out), Y.out[j].id = Y.msgs[i].id PROVE j <= Y.msgs[i].pos
        <5>1. j <= Len(X.out)
          <6>1. ~(j > Len(X.out))
            BY <1>1, <2>5, <4>1
          <6>. QED BY <1>1, <6>1
        <5>. QED BY <1>1, <1>4, <1>8, <3>1, <4>1, <5>1
      <4>. QED BY <4>1
    <3>. QED BY <1>1, <1>8, <3>1, <3>2, <3>3
  <2>6. \A i \in 1..Len(Y.msgs) : Y.msgs[i].id > send \/ Y.msgs[i].id = 0
    BY <1>8 DEF QueueOK
  <2>. QED BY <1>3, <1>5, <1>6, <1>7, <2>3, <2>4, <2>5, <2>6 DEF QueueOK
<1>9. CASE Y.msgs = <<>>
  <2>1. Len(Y.msgs) = 0
    BY <1>9
  <2>. QED BY <1>3, <1>5, <1>6, <1>7, <2>1 DEF QueueOK
<1>10. CASE Y.msgs = <<[pos |-> Y.pos, id |-> 0]>>
  <2>1. Len(Y.msgs) = 1 /\ Y.msgs[1].pos = Y.pos /\ Y.msgs[1].id = 0
    BY <1>10
  <2>. QED
    <3>1. \A i \in 1..Len(Y.msgs) : i = 1
      BY <2>1
    <3>2. \A i \in 1..Len(Y.msgs) : Y.msgs[i].pos = Y.pos /\ Y.msgs[i].id = 0
      BY <2>1, <3>1
    <3>3. \A i, j \in 1..Len(Y.msgs) : ~(i < j)
      BY <3>1
    <3>4. \A i \in 1..Len(Y.msgs) : Y.msgs[i].pos <= Y.pos
      BY <1>2, <3>2
    <3>. QED BY <1>3, <1>5, <1>6, <1>7, <3>2, <3>3, <3>4 DEF QueueOK
<1>. QED BY <1>8, <1>9, <1>10

LEMMA QueueGoes ==
  ASSUME NEW X \in Ends, NEW Y, NEW send \in Nat, QueueOK(X, send), NEW ks \in Seq(Kinds), Goes(X, Y, ks)
  PROVE  QueueOK(Y, send)
BY QueueGrows DEF Goes

LEMMA QueueCloses ==
  ASSUME NEW X \in Ends, NEW Y, NEW send \in Nat, QueueOK(X, send), NEW ks \in Seq(Kinds), Closes(X, Y, ks)
  PROVE  QueueOK(Y, send)
<1>1. CASE Y.st \in Closing
  BY <1>1, QueueGrows DEF Closes, Closing
<1>2. CASE Y.st = "closed"
  <2>1. Y.out = <<>> /\ Y.pos = 0 /\ Y.msgs = <<>> /\ Y.told = X.told
    BY <1>2 DEF Closes, Closing
  <2>2. Len(Y.out) = 0 /\ Len(Y.msgs) = 0
    BY <2>1
  <2>. QED BY <2>1, <2>2 DEF QueueOK
<1>. QED BY <1>1, <1>2 DEF Closes

LEMMA QueueSends ==
  ASSUME NEW X \in Ends, NEW Y, NEW send \in Nat, send > 0, QueueOK(X, send), Sends(X, Y, send)
  PROVE  QueueOK(Y, send - 1)
<1>. DEFINE m == [pos |-> X.pos + 2, id |-> send]
            N == Len(X.msgs)
            L == Len(X.out)
<1>1. /\ Payload(send) \in Seq(Units) /\ Len(Payload(send)) = 2
      /\ Payload(send)[1].id = send /\ Payload(send)[2].id = send
  <2>1. [k |-> "half", id |-> send].id = send /\ [k |-> "msg", id |-> send].id = send
    OBVIOUS
  <2>. QED BY <2>1, PayloadFacts
<1>2. X.out \in Seq(Units) /\ X.msgs \in Seq(Messages) /\ L \in Nat /\ N \in Nat /\ X.pos = L
      /\ X.told \in SUBSET Nat
  BY EndFields, LenProperties DEF QueueOK
<1>3. m \in Messages
  BY <1>2 DEF Messages
<1>4. /\ Len(Y.out) = L + 2 /\ \A j \in 1..L : Y.out[j] = X.out[j]
      /\ \A i \in 1..2 : Y.out[i + L] = Payload(send)[i]
  <2>. DEFINE P == Payload(send)
  <2>1. P \in Seq(Units) /\ Len(P) = 2 /\ Y.out = X.out \o P
    BY <1>1 DEF Sends
  <2>. HIDE DEF P
  <2>2. /\ Len(X.out \o P) = Len(X.out) + Len(P) /\ \A i \in 1..Len(X.out) : (X.out \o P)[i] = X.out[i]
        /\ \A i \in 1..Len(P) : (X.out \o P)[i + Len(X.out)] = P[i]
    BY <1>2, <2>1, Concatenated
  <2>3. /\ Len(Y.out) = L + 2 /\ \A j \in 1..L : Y.out[j] = X.out[j]
        /\ \A i \in 1..2 : Y.out[i + L] = P[i]
    BY <2>1, <2>2
  <2>. QED BY <2>3 DEF P
<1>5. Y.out[L + 1].id = send /\ Y.out[L + 2] = Payload(send)[2] /\ Y.out[L + 2].id = send
  <2>1. Y.out[1 + L] = Payload(send)[1] /\ Y.out[2 + L] = Payload(send)[2]
    BY <1>4
  <2>2. 1 + L = L + 1 /\ 2 + L = L + 2
    BY <1>2
  <2>. QED BY <1>1, <2>1, <2>2
<1>6. Len(Y.msgs) = N + 1 /\ Y.msgs[N + 1] = m /\ \A i \in 1..N : Y.msgs[i] = X.msgs[i]
  BY <1>2, <1>3, AppendProperties DEF Sends
<1>7. Y.pos = L + 2 /\ Y.told = X.told /\ m.pos = L + 2 /\ m.id = send
  BY <1>2 DEF Sends
<1>. HIDE DEF m, N, L
<1>8. \A j \in 1..Len(Y.out) : j \in 1..L \/ j = L + 1 \/ j = L + 2
  BY <1>2, <1>4
<1>9. \A i \in 1..Len(Y.msgs) : i \in 1..N \/ i = N + 1
  BY <1>2, <1>6
<1>10. \A i \in 1..N : X.msgs[i].pos \in Int /\ X.msgs[i].id \in Nat /\ X.msgs[i].pos <= L
  <2>1. \A i \in 1..N : X.msgs[i] \in Messages
    BY <1>2, ElementOfSeq DEF N
  <2>2. \A i \in 1..N : X.msgs[i].pos <= X.pos
    BY DEF QueueOK, N
  <2>. QED BY <1>2, <2>1, <2>2 DEF Messages
<1>11. \A j \in 1..L : X.out[j].id \in Nat /\ (X.out[j].id > send \/ X.out[j].id = 0)
                       /\ X.out[j].id \notin X.told
  <2>1. \A j \in 1..L : X.out[j] \in Units
    BY <1>2, ElementOfSeq DEF L
  <2>2. \A j \in 1..L : (X.out[j].id > send \/ X.out[j].id = 0) /\ X.out[j].id \notin X.told
    BY DEF QueueOK, L
  <2>. QED BY <2>1, <2>2 DEF Units
<1>12. (\A id \in X.told : id > send /\ id \in Nat) /\ 0 \notin X.told
  BY <1>2 DEF QueueOK
<1>13. \A i \in 1..N : X.msgs[i].id > send \/ X.msgs[i].id = 0
  BY DEF QueueOK, N
<1>14. \A i \in 1..N : X.msgs[i].id # 0 =>
         /\ X.msgs[i].pos > 0 /\ X.out[X.msgs[i].pos] = Payload(X.msgs[i].id)[2]
         /\ \A j \in 1..L : X.out[j].id = X.msgs[i].id => j <= X.msgs[i].pos
  BY DEF QueueOK, N, L
<1>15. \A i, j \in 1..N : i < j => X.msgs[i].pos <= X.msgs[j].pos
  BY DEF QueueOK, N
<1>16. ASSUME NEW i \in 1..Len(Y.msgs) PROVE Y.msgs[i].pos <= Y.pos
  <2>1. CASE i \in 1..N
    <3>1. Y.msgs[i].pos \in Int /\ Y.msgs[i].pos <= L
      BY <1>6, <1>10, <2>1
    <3>2. L <= L + 2
      BY <1>2
    <3>. QED BY <1>2, <1>7, <3>1, <3>2
  <2>2. CASE i = N + 1
    <3>1. Y.msgs[i].pos = L + 2 /\ Y.pos = L + 2
      BY <1>6, <1>7, <2>2
    <3>. QED BY <1>2, <3>1
  <2>. QED BY <1>9, <2>1, <2>2
<1>17. ASSUME NEW i \in 1..Len(Y.msgs), NEW j \in 1..Len(Y.msgs), i < j
       PROVE  Y.msgs[i].pos <= Y.msgs[j].pos
  <2>1. i \in 1..N
    BY <1>2, <1>6, <1>17
  <2>2. CASE j \in 1..N
    BY <1>6, <1>15, <1>17, <2>1, <2>2
  <2>3. CASE j = N + 1
    <3>1. Y.msgs[i].pos \in Int /\ Y.msgs[i].pos <= L /\ Y.msgs[j].pos = L + 2
      BY <1>6, <1>7, <1>10, <2>1, <2>3
    <3>. QED BY <1>2, <3>1
  <2>. QED BY <1>9, <2>2, <2>3
<1>18. ASSUME NEW i \in 1..Len(Y.msgs), Y.msgs[i].id # 0
       PROVE  /\ Y.msgs[i].pos > 0
              /\ Y.out[Y.msgs[i].pos] = Payload(Y.msgs[i].id)[2]
              /\ \A j \in 1..Len(Y.out) : Y.out[j].id = Y.msgs[i].id => j <= Y.msgs[i].pos
  <2>1. CASE i \in 1..N
    <3>1. X.msgs[i].pos > 0 /\ X.msgs[i].pos \in 1..L /\ X.msgs[i].id > send /\ Y.msgs[i] = X.msgs[i]
      <4>1. Y.msgs[i] = X.msgs[i] /\ X.msgs[i].id # 0
        BY <1>6, <1>18, <2>1
      <4>2. X.msgs[i].pos > 0 /\ X.msgs[i].pos \in Int /\ X.msgs[i].pos <= L /\ X.msgs[i].id > send
        BY <1>10, <1>13, <1>14, <2>1, <4>1
      <4>3. X.msgs[i].pos \in 1..L
        BY <1>2, <4>2
      <4>. QED BY <4>1, <4>2, <4>3
    <3>2. Y.out[Y.msgs[i].pos] = Payload(Y.msgs[i].id)[2]
      <4>1. Y.out[X.msgs[i].pos] = X.out[X.msgs[i].pos]
        BY <1>4, <3>1
      <4>. QED BY <1>14, <1>18, <2>1, <3>1, <4>1
    <3>3. \A j \in 1..Len(Y.out) : Y.out[j].id = Y.msgs[i].id => j <= Y.msgs[i].pos
      <4>1. ASSUME NEW j \in 1..Len(Y.out), Y.out[j].id = Y.msgs[i].id PROVE j <= Y.msgs[i].pos
        <5>1. X.msgs[i].id \in Nat /\ X.msgs[i].id # send
          BY <1>10, <2>1, <3>1
        <5>2. j \in 1..L
          BY <1>5, <1>8, <3>1, <4>1, <5>1
        <5>. QED BY <1>4, <1>14, <1>18, <2>1, <3>1, <4>1, <5>2
      <4>. QED BY <4>1
    <3>. QED BY <3>1, <3>2, <3>3
  <2>2. CASE i = N + 1
    <3>1. Y.msgs[i].pos = L + 2 /\ Y.msgs[i].id = send
      BY <1>6, <1>7, <2>2
    <3>. QED BY <1>2, <1>4, <1>5, <3>1
  <2>. QED BY <1>9, <2>1, <2>2
<1>24. \A id \in Nat : id > send \/ id = send => id > send - 1
  OBVIOUS
<1>19. ASSUME NEW j \in 1..Len(Y.out)
       PROVE  (Y.out[j].id > send - 1 \/ Y.out[j].id = 0) /\ Y.out[j].id \notin Y.told
  <2>1. CASE j \in 1..L
    BY <1>4, <1>7, <1>11, <1>24, <2>1
  <2>2. CASE j = L + 1 \/ j = L + 2
    <3>1. Y.out[j].id = send
      BY <1>5, <2>2
    <3>2. send \notin X.told
      BY <1>12
    <3>. QED BY <1>7, <1>24, <3>1, <3>2
  <2>. QED BY <1>8, <2>1, <2>2
<1>21. (\A id \in Y.told : id > send - 1) /\ 0 \notin Y.told
  BY <1>7, <1>12, <1>24
<1>22. ASSUME NEW i \in 1..Len(Y.msgs) PROVE Y.msgs[i].id > send - 1 \/ Y.msgs[i].id = 0
  <2>1. CASE i \in 1..N
    BY <1>6, <1>10, <1>13, <1>24, <2>1
  <2>2. CASE i = N + 1
    BY <1>6, <1>7, <1>24, <2>2
  <2>. QED BY <1>9, <2>1, <2>2
<1>23. Y.pos = Len(Y.out)
  BY <1>4, <1>7
<1>. QED BY <1>16, <1>17, <1>18, <1>19, <1>21, <1>22, <1>23 DEF QueueOK

LEMMA OutIds ==
  ASSUME NEW X \in Ends
  PROVE  /\ Len(X.out) \in Nat /\ \A j \in 1..Len(X.out) : X.out[j] \in Units /\ X.out[j].id \in Nat
         /\ Len(X.msgs) \in Nat
         /\ \A i \in 1..Len(X.msgs) : X.msgs[i] \in Messages /\ X.msgs[i].pos \in Int /\ X.msgs[i].id \in Nat
<1>1. X.out \in Seq(Units) /\ X.msgs \in Seq(Messages)
  BY EndFields
<1>2. /\ Len(X.out) \in Nat /\ \A j \in 1..Len(X.out) : X.out[j] \in Units
      /\ Len(X.msgs) \in Nat /\ \A i \in 1..Len(X.msgs) : X.msgs[i] \in Messages
  BY <1>1, LenProperties, ElementOfSeq
<1>. QED BY <1>2 DEF Units, Messages

\* The queue of an end that does nothing, when the budget shrinks.
LEMMA QueueLess ==
  ASSUME NEW X \in Ends, NEW send \in Nat, NEW n \in Nat, n <= send, QueueOK(X, send)
  PROVE  QueueOK(X, n)
<1>1. \A id \in Nat : id > send => id > n
  OBVIOUS
<1>2. /\ \A j \in 1..Len(X.out) : X.out[j].id \in Nat /\ (X.out[j].id > send \/ X.out[j].id = 0)
      /\ \A i \in 1..Len(X.msgs) : X.msgs[i].id \in Nat /\ (X.msgs[i].id > send \/ X.msgs[i].id = 0)
      /\ \A id \in X.told : id \in Nat /\ id > send
  BY OutIds, EndFields DEF QueueOK
<1>3. /\ \A j \in 1..Len(X.out) : X.out[j].id > n \/ X.out[j].id = 0
      /\ \A i \in 1..Len(X.msgs) : X.msgs[i].id > n \/ X.msgs[i].id = 0
      /\ \A id \in X.told : id > n
  BY <1>1, <1>2
<1>. QED BY <1>3 DEF QueueOK

\* The queue after a write.
LEMMA QueueWrites ==
  ASSUME NEW X \in Ends, NEW Y, NEW send \in Nat, QueueOK(X, send), NEW n \in Nat, NEW m \in Nat,
         n <= Len(X.out), m <= Len(X.msgs), Writes(X, Y, n, m),
         \A i \in 1..Len(X.msgs) : X.msgs[i].pos <= n <=> i <= m
  PROVE  QueueOK(Y, send)
<1>. DEFINE N == Len(X.msgs)
            L == Len(X.out)
            out == SubSeq(X.out, n + 1, L)
<1>1. /\ L \in Nat /\ \A j \in 1..L : X.out[j] \in Units /\ X.out[j].id \in Nat
      /\ N \in Nat /\ \A i \in 1..N : X.msgs[i].pos \in Int /\ X.msgs[i].id \in Nat
      /\ X.pos = L /\ n <= L /\ m <= N /\ X.out \in Seq(Units)
  BY OutIds, EndFields DEF QueueOK
<1>2. /\ \A i \in 1..N : X.msgs[i].pos <= n => i <= m
      /\ \A i \in 1..N : i <= m => X.msgs[i].pos <= n
  OBVIOUS
<1>3. /\ \A i \in 1..N : X.msgs[i].pos <= L
      /\ \A i, j \in 1..N : i < j => X.msgs[i].pos <= X.msgs[j].pos
      /\ \A i \in 1..N : X.msgs[i].id # 0 =>
           /\ X.msgs[i].pos > 0 /\ X.out[X.msgs[i].pos] = Payload(X.msgs[i].id)[2]
           /\ \A j \in 1..L : X.out[j].id = X.msgs[i].id => j <= X.msgs[i].pos
      /\ \A i \in 1..N : X.msgs[i].id > send \/ X.msgs[i].id = 0
      /\ \A j \in 1..L : (X.out[j].id > send \/ X.out[j].id = 0) /\ X.out[j].id \notin X.told
      /\ \A id \in X.told : id > send
      /\ 0 \notin X.told
  BY <1>1 DEF QueueOK
<1>4. Y.told = X.told \cup ({X.msgs[i].id : i \in 1..m} \ {0})
  BY DEF Writes
<1>5. \A i \in 1..m : i \in 1..N
  BY <1>1
<1>6. (\A id \in Y.told : id > send) /\ 0 \notin Y.told
  BY <1>3, <1>4, <1>5
<1>7. CASE Y.st = "closed" /\ Y.out = <<>> /\ Y.pos = 0 /\ Y.msgs = <<>>
  <2>1. Len(Y.out) = 0 /\ Len(Y.msgs) = 0
    BY <1>7
  <2>. QED BY <1>6, <1>7, <2>1 DEF QueueOK
<1>8. CASE /\ Y.out = out /\ Y.pos = X.pos - n /\ Len(Y.msgs) = N - m
           /\ \A i \in 1..N - m : Y.msgs[i].id = X.msgs[i + m].id /\ Y.msgs[i].pos = X.msgs[i + m].pos - n
  <2>1. Len(Y.out) = L - n /\ \A j \in 1..L - n : Y.out[j] = X.out[j + n]
    <3>1. \A i \in n + 1..L : X.out[i] \in Units
      BY <1>1
    <3>2. /\ Len(out) = IF n + 1 <= L + 1 THEN L - (n + 1) + 1 ELSE 0
          /\ \A i \in 1..L - (n + 1) + 1 : out[i] = X.out[n + 1 + i - 1]
      BY <1>1, <3>1, SubSeqProperties, n + 1 \in Int, L \in Int
    <3>. HIDE DEF out
    <3>3. \A i \in 1..L - n : n + 1 + i - 1 = i + n /\ i \in 1..L - (n + 1) + 1
      BY <1>1
    <3>4. Len(out) = L - n
      BY <1>1, <3>2
    <3>. QED BY <1>8, <3>2, <3>3, <3>4
  <2>. HIDE DEF L, N, out
  <2>2. \A j \in 1..L - n : j + n \in 1..L
    BY <1>1
  <2>3. \A i \in 1..N - m : i + m \in 1..N /\ ~(i + m <= m)
    BY <1>1
  <2>4. Y.pos = Len(Y.out)
    BY <1>1, <1>8, <2>1
  <2>5. ASSUME NEW i \in 1..Len(Y.msgs)
        PROVE  /\ Y.msgs[i].pos <= Y.pos
               /\ Y.msgs[i].id > send \/ Y.msgs[i].id = 0
               /\ Y.msgs[i].pos > 0
    <3>1. i + m \in 1..N /\ ~(i + m <= m) /\ Y.msgs[i].id = X.msgs[i + m].id /\ Y.msgs[i].pos = X.msgs[i + m].pos - n
      BY <1>8, <2>3
    <3>2. X.msgs[i + m].pos <= L /\ X.msgs[i + m].pos \in Int /\ ~(X.msgs[i + m].pos <= n)
      BY <1>1, <1>2, <1>3, <3>1
    <3>3. X.msgs[i + m].id > send \/ X.msgs[i + m].id = 0
      BY <1>3, <3>1
    <3>. DEFINE p == X.msgs[i + m].pos
    <3>4. p \in Int /\ p <= L /\ ~(p <= n) /\ Y.msgs[i].pos = p - n /\ Y.pos = L - n
      BY <1>1, <1>8, <3>1, <3>2
    <3>. HIDE DEF p
    <3>5. p - n <= L - n /\ p - n > 0
      BY <1>1, <3>4
    <3>. QED BY <3>1, <3>3, <3>4, <3>5
  <2>6. ASSUME NEW i \in 1..Len(Y.msgs), NEW j \in 1..Len(Y.msgs), i < j
        PROVE  Y.msgs[i].pos <= Y.msgs[j].pos
    <3>1. /\ i + m \in 1..N /\ j + m \in 1..N /\ i + m < j + m
          /\ Y.msgs[i].pos = X.msgs[i + m].pos - n /\ Y.msgs[j].pos = X.msgs[j + m].pos - n
      BY <1>8, <2>3, <2>6
    <3>2. X.msgs[i + m].pos \in Int /\ X.msgs[j + m].pos \in Int /\ X.msgs[i + m].pos <= X.msgs[j + m].pos
      BY <1>1, <1>3, <3>1
    <3>. DEFINE p == X.msgs[i + m].pos
                q == X.msgs[j + m].pos
    <3>3. p \in Int /\ q \in Int /\ p <= q /\ Y.msgs[i].pos = p - n /\ Y.msgs[j].pos = q - n
      BY <3>1, <3>2
    <3>. HIDE DEF p, q
    <3>4. p - n <= q - n
      BY <3>3
    <3>. QED BY <3>3, <3>4
  <2>7. ASSUME NEW i \in 1..Len(Y.msgs), Y.msgs[i].id # 0
        PROVE  /\ Y.out[Y.msgs[i].pos] = Payload(Y.msgs[i].id)[2]
               /\ \A j \in 1..Len(Y.out) : Y.out[j].id = Y.msgs[i].id => j <= Y.msgs[i].pos
    <3>1. i + m \in 1..N /\ Y.msgs[i].id = X.msgs[i + m].id /\ Y.msgs[i].pos = X.msgs[i + m].pos - n
      BY <1>8, <2>3
    <3>. DEFINE p == X.msgs[i + m].pos
    <3>2. /\ p \in Int /\ p <= L
          /\ X.out[p] = Payload(Y.msgs[i].id)[2]
          /\ \A j \in 1..L : X.out[j].id = Y.msgs[i].id => j <= p
      BY <1>1, <1>3, <2>7, <3>1
    <3>3. Y.msgs[i].pos > 0 /\ Y.msgs[i].pos = p - n
      BY <2>5, <3>1
    <3>. HIDE DEF p
    <3>7. p - n > 0
      BY <3>3
    <3>4. p - n \in 1..L - n /\ (p - n) + n = p
      <4>1. p \in Int /\ p <= L /\ L \in Nat /\ p - n >= 1
        BY <1>1, <3>2, <3>7
      <4>2. p - n \in Int /\ L - n \in Int /\ p - n <= L - n
        BY <4>1
      <4>3. (p - n) + n = p
        BY <4>1
      <4>. QED BY <4>1, <4>2, <4>3
    <3>5. Y.out[p - n] = X.out[p]
      BY <2>1, <3>4
    <3>6. ASSUME NEW j \in 1..Len(Y.out), Y.out[j].id = Y.msgs[i].id
          PROVE  j <= Y.msgs[i].pos
      <4>1. j + n \in 1..L /\ X.out[j + n].id = Y.msgs[i].id
        BY <2>1, <2>2, <3>6
      <4>2. j + n <= p
        BY <3>2, <4>1
      <4>. QED BY <1>1, <3>2, <3>3, <4>2
    <3>. QED BY <3>2, <3>3, <3>5, <3>6
  <2>8. ASSUME NEW j \in 1..Len(Y.out)
        PROVE  (Y.out[j].id > send \/ Y.out[j].id = 0) /\ Y.out[j].id \notin Y.told
    <3>1. j + n \in 1..L /\ Y.out[j] = X.out[j + n] /\ ~(j + n <= n)
      <4>1. Len(Y.out) = L - n /\ j \in 1..L - n /\ j > 0
        BY <2>1
      <4>2. j + n \in 1..L /\ Y.out[j] = X.out[j + n]
        BY <2>1, <2>2, <4>1
      <4>. QED BY <1>1, <4>1, <4>2
    <3>2. (X.out[j + n].id > send \/ X.out[j + n].id = 0) /\ X.out[j + n].id \notin X.told
      BY <1>3, <3>1
    <3>3. ASSUME NEW i \in 1..m, X.msgs[i].id # 0, X.out[j + n].id = X.msgs[i].id
          PROVE  FALSE
      <4>1. i \in 1..N /\ i <= m
        BY <1>5 DEF N
      <4>2. X.msgs[i].pos <= n /\ X.msgs[i].pos \in Int /\ j + n <= X.msgs[i].pos
        BY <1>1, <1>2, <1>3, <3>1, <3>3, <4>1
      <4>. QED BY <3>1, <4>2
    <3>. QED BY <1>4, <3>1, <3>2, <3>3
  <2>. QED BY <1>6, <2>4, <2>5, <2>6, <2>7, <2>8 DEF QueueOK
<1>. QED BY <1>7, <1>8 DEF Writes

(***************************************************************************)
(* What a step does to the words                                           *)
(***************************************************************************)
\* The first unit is received.
Shifted(a, b) == Len(a) > 0 /\ Len(b) = Len(a) - 1 /\ \A i \in 1..Len(b) : b[i] = a[i + 1]

\* One or two units more are sent.
One(a, b, k) == Len(b) = Len(a) + 1 /\ (\A i \in 1..Len(a) : b[i] = a[i]) /\ b[Len(a) + 1].k = k
Two(a, b, j, k) == /\ Len(b) = Len(a) + 2 /\ (\A i \in 1..Len(a) : b[i] = a[i])
                   /\ b[Len(a) + 1].k = j /\ b[Len(a) + 2].k = k

\* TCP is closed: some units are lost, and the end of the stream follows.
Cut(a, b) == /\ Len(b) > 0 /\ b[Len(b)].k = "fin"
             /\ \A i \in 1..Len(b) - 1 : i <= Len(a) /\ b[i] = a[i]

\* What the other end has to receive when X becomes Y: a before, b afterwards.
OwnWord(X, Y, a, b) ==
  /\ \A ks \in Seq(Kinds) : Goes(X, Y, ks) => b = a \o Control(ks)
  /\ \A ks \in Seq(Kinds) : Closes(X, Y, ks) => b = a \o Control(ks) \/ Cut(a, b)

LEMMA WordNone == \A a \in Seq(Units) : a \o Control(<<>>) = a
<1>1. Control(<<>>) = <<>>
  BY DEF Control
<1>. QED BY <1>1, ConcatEmptySeq

LEMMA WordGrows ==
  ASSUME NEW a \in Seq(Units), NEW ks \in Seq(Kinds)
  PROVE  LET b == a \o Control(ks)
         IN  /\ b \in Seq(Units) /\ Len(a) \in Nat /\ Len(ks) \in Nat /\ Len(b) = Len(a) + Len(ks)
             /\ \A i \in 1..Len(a) : b[i] = a[i]
             /\ \A j \in 1..Len(b) : j > Len(a) => b[j].k = ks[j - Len(a)]
BY OutFacts

LEMMA WordOne ==
  ASSUME NEW a \in Seq(Units), NEW k \in Kinds
  PROVE  LET b == a \o Control(<<k>>)
         IN  b \in Seq(Units) /\ Len(a) \in Nat /\ One(a, b, k)
<1>. DEFINE ks == <<k>>
            b == a \o Control(ks)
<1>1. ks \in Seq(Kinds) /\ Len(ks) = 1 /\ ks[1] = k
  BY Tuples
<1>. HIDE DEF ks
<1>2. /\ b \in Seq(Units) /\ Len(a) \in Nat /\ Len(b) = Len(a) + Len(ks)
      /\ \A i \in 1..Len(a) : b[i] = a[i]
      /\ \A i \in 1..Len(ks) : b[i + Len(a)].k = ks[i]
  BY <1>1, OutFacts
<1>. HIDE DEF b
<1>3. b[1 + Len(a)].k = k /\ 1 + Len(a) = Len(a) + 1
  BY <1>1, <1>2
<1>4. b \in Seq(Units) /\ Len(a) \in Nat /\ One(a, b, k)
  BY <1>1, <1>2, <1>3 DEF One
<1>. QED BY <1>4 DEF b, ks

LEMMA WordTwo ==
  ASSUME NEW a \in Seq(Units), NEW j \in Kinds, NEW k \in Kinds
  PROVE  LET b == a \o Control(<<j>> \o <<k>>)
         IN  b \in Seq(Units) /\ Len(a) \in Nat /\ Two(a, b, j, k)
<1>. DEFINE p == <<j>>
            q == <<k>>
            ks == p \o q
            b == a \o Control(ks)
<1>1. p \in Seq(Kinds) /\ Len(p) = 1 /\ p[1] = j /\ q \in Seq(Kinds) /\ Len(q) = 1 /\ q[1] = k
  BY Tuples
<1>. HIDE DEF p, q
<1>2. /\ ks \in Seq(Kinds) /\ Len(ks) = 2 /\ ks[1] = j /\ ks[2] = k
  <2>1. /\ ks \in Seq(Kinds) /\ Len(ks) = Len(p) + Len(q) /\ \A i \in 1..Len(p) : ks[i] = p[i]
        /\ \A i \in 1..Len(q) : ks[i + Len(p)] = q[i]
    BY <1>1, ConcatKinds
  <2>2. ks[1 + 1] = q[1] /\ 1 + 1 = 2
    BY <1>1, <2>1
  <2>. QED BY <1>1, <2>1, <2>2
<1>. HIDE DEF ks
<1>3. /\ b \in Seq(Units) /\ Len(a) \in Nat /\ Len(b) = Len(a) + Len(ks)
      /\ \A i \in 1..Len(a) : b[i] = a[i]
      /\ \A i \in 1..Len(ks) : b[i + Len(a)].k = ks[i]
  BY <1>2, OutFacts
<1>. HIDE DEF b
<1>4. b[1 + Len(a)].k = j /\ b[2 + Len(a)].k = k /\ 1 + Len(a) = Len(a) + 1 /\ 2 + Len(a) = Len(a) + 2
  BY <1>2, <1>3
<1>5. b \in Seq(Units) /\ Len(a) \in Nat /\ Two(a, b, j, k)
  BY <1>2, <1>3, <1>4 DEF Two
<1>. QED BY <1>5 DEF b, ks, p, q

\* An end that goes on or closes, and the word of Becomes and of Read.
LEMMA OwnWordFacts ==
  ASSUME NEW X \in Ends, NEW Y, NEW l \in Seq(Units), X.tcp # "closed",
         NEW m, m = (IF Y.tcp = "closed" THEN Append(l, Unit("fin")) ELSE l)
  PROVE  OwnWord(X, Y, l \o X.out, m \o Y.out)
<1>1. X.out \in Seq(Units)
  BY EndFields
<1>. DEFINE a == l \o X.out
            b == m \o Y.out
            f == Unit("fin")
<1>2. ASSUME NEW ks \in Seq(Kinds), Y.out = X.out \o Control(ks), Y.tcp # "closed"
      PROVE  b = a \o Control(ks)
  <2>. DEFINE u == Control(ks)
  <2>1. u \in Seq(Units)
    BY ControlFacts
  <2>2. m = l /\ Y.out = X.out \o u
    BY <1>2
  <2>. HIDE DEF u
  <2>3. (l \o X.out) \o u = l \o (X.out \o u)
    BY <1>1, <2>1, Associate
  <2>4. b = a \o u
    BY <2>2, <2>3
  <2>. QED BY <2>4 DEF u
<1>3. ASSUME Y.out = <<>>, Y.tcp = "closed"
      PROVE  Cut(a, b)
  <2>1. f \in Units /\ f.k = "fin"
    BY DEF Unit, Units, Kinds
  <2>. HIDE DEF f
  <2>2. /\ Append(l, f) \in Seq(Units) /\ Len(Append(l, f)) = Len(l) + 1
        /\ \A i \in 1..Len(l) : Append(l, f)[i] = l[i]
        /\ Append(l, f)[Len(l) + 1] = f /\ Len(l) \in Nat /\ Len(X.out) \in Nat
    BY <1>1, <2>1, AppendProperties, LenProperties
  <2>3. b = Append(l, f)
    <3>1. m = Append(l, f)
      BY <1>3 DEF f
    <3>. QED BY <1>3, <2>2, <3>1, ConcatEmptySeq
  <2>4. Len(a) = Len(l) + Len(X.out) /\ \A i \in 1..Len(l) : a[i] = l[i]
    BY <1>1, Concatenated
  <2>. HIDE DEF a, b
  <2>. QED BY <2>1, <2>2, <2>3, <2>4 DEF Cut
<1>4. ASSUME NEW ks \in Seq(Kinds), Goes(X, Y, ks)
      PROVE  b = a \o Control(ks)
  <2>1. Y.out = X.out \o Control(ks) /\ Y.tcp # "closed"
    BY <1>4 DEF Goes
  <2>. QED BY <1>2, <2>1
<1>5. ASSUME NEW ks \in Seq(Kinds), Closes(X, Y, ks)
      PROVE  b = a \o Control(ks) \/ Cut(a, b)
  <2>1. \/ Y.out = X.out \o Control(ks) /\ Y.tcp # "closed"
        \/ Y.out = <<>> /\ Y.tcp = "closed"
    BY <1>5 DEF Closes
  <2>. QED BY <1>2, <1>3, <2>1
<1>. HIDE DEF a, b
<1>6. OwnWord(X, Y, a, b)
  BY <1>4, <1>5 DEF OwnWord
<1>. QED BY <1>6 DEF a, b

\* The first unit of a word is the first one of the link, if the link has one.
LEMMA HeadOfWord ==
  ASSUME NEW l \in Seq(Units), NEW out \in Seq(Units), l # <<>>
  PROVE  /\ l \o out \in Seq(Units) /\ Tail(l) \o out \in Seq(Units) /\ Tail(l) \in Seq(Units)
         /\ Head(l) \in Units /\ (l \o out)[1] = Head(l)
         /\ Shifted(l \o out, Tail(l) \o out)
<1>. DEFINE t == Tail(l)
            a == l \o out
            b == t \o out
<1>1. /\ Head(l) \in Units /\ t \in Seq(Units) /\ Len(t) = Len(l) - 1 /\ \A i \in 1..Len(t) : t[i] = l[i + 1]
      /\ Len(l) \in Nat /\ Len(out) \in Nat /\ Len(l) # 0 /\ l[1] = Head(l)
  BY HeadTailProperties, LenProperties, EmptySeq
<1>. HIDE DEF t
<1>2. /\ a \in Seq(Units) /\ Len(a) = Len(l) + Len(out)
      /\ \A i \in 1..Len(l) : a[i] = l[i]
      /\ \A i \in 1..Len(out) : a[i + Len(l)] = out[i]
  BY Concatenated
<1>3. /\ b \in Seq(Units) /\ Len(b) = Len(t) + Len(out)
      /\ \A i \in 1..Len(t) : b[i] = t[i]
      /\ \A i \in 1..Len(out) : b[i + Len(t)] = out[i]
  BY <1>1, Concatenated
<1>. HIDE DEF a, b
<1>4. ASSUME NEW i \in 1..Len(b) PROVE b[i] = a[i + 1]
  <2>1. CASE i <= Len(t)
    <3>1. i \in 1..Len(t) /\ i + 1 \in 1..Len(l)
      BY <1>1, <1>3, <2>1
    <3>. QED BY <1>1, <1>2, <1>3, <3>1
  <2>2. CASE ~(i <= Len(t))
    <3>1. i - Len(t) \in 1..Len(out) /\ (i - Len(t)) + Len(t) = i /\ (i - Len(t)) + Len(l) = i + 1
      BY <1>1, <1>3, <2>2
    <3>. QED BY <1>2, <1>3, <3>1
  <2>. QED BY <2>1, <2>2
<1>5. Len(a) > 0 /\ Len(b) = Len(a) - 1 /\ a[1] = Head(l)
  BY <1>1, <1>2, <1>3
<1>6. Shifted(a, b)
  BY <1>4, <1>5 DEF Shifted
<1>. QED BY <1>1, <1>2, <1>3, <1>5, <1>6 DEF a, b, t

(***************************************************************************)
(* What an end's step keeps                                                *)
(***************************************************************************)
LEMMA ClosesOK ==
  ASSUME NEW X \in Ends, EndOK(X), X.st # "closed", NEW Y, NEW ks, Closes(X, Y, ks),
         X.tcp # "connecting" \/ Y.st = "closed"
  PROVE  EndOK(Y) /\ Y \in Ends /\ ~IsOpen(Y)
<1>1. /\ Y \in Ends /\ Y.site = X.site /\ Y.verifies = X.verifies /\ ~Y.bad /\ Y.sasl = "none" /\ ~Y.wait
      /\ \/ Y.st = "closed" /\ Y.tcp = "closed"
         \/ Y.st \in Closing /\ Y.tcp = X.tcp
  BY DEF Closes, SameSetup, EndOK
<1>2. X.tcp # "closed" /\ X.tcp \in {"connecting", "connected", "closed"}
      /\ (X.site = "server" => ~X.verifies)
  BY EndFields DEF EndOK
<1>3. Y.st \in Over /\ (Y.tcp = "closed" <=> Y.st = "closed") /\ Y.tcp # "connecting"
  BY <1>1, <1>2 DEF Over, Closing
<1>. QED BY <1>1, <1>2, <1>3 DEF EndOK, IsOpen, Over, Closing

\* A step that says nothing of TLS, of mechanisms or of the offer keeps the policies.
Quiet == Kinds \ {"proceed", "features", "features_tls", "starttls", "auth"}
Fewer(a, b) == \A i \in 1..Len(b) : b[i].k \in Quiet \/ \E j \in 1..Len(a) : b[i].k = a[j].k
ClientEarly == {"connecting", "initiated", "awaiting_features"}
ClientKeeps(C, D) ==
  /\ D.policy = C.policy /\ (D.tls => C.tls)
  /\ D.st = "encryption_requested" => C.st = "encryption_requested"
  /\ D.st \in ClientPast /\ ~D.tls => C.st \in ClientPast /\ ~C.tls
  /\ D.st \in ClientEarly /\ ~D.tls => C.st \in ClientEarly /\ ~C.tls
ServerKeeps(S, T) ==
  /\ T.policy = S.policy /\ (T.tls => S.tls)
  /\ T.st \in ServerPast /\ ~T.tls => S.st \in ServerPast /\ ~S.tls
  /\ IsOpen(T) /\ ~T.tls => IsOpen(S) /\ ~S.tls

LEMMA FewerHas ==
  ASSUME NEW a, NEW b, Fewer(a, b)
  PROVE  /\ \A k \in {"proceed", "starttls", "auth"} : Has(b, k) => Has(a, k)
         /\ NoneFrom(a, 1, {"features", "features_tls"}) => NoneFrom(b, 1, {"features", "features_tls"})
BY DEF Fewer, Quiet, Has, NoneFrom

LEMMA PolicyKept ==
  ASSUME NEW C, NEW D, NEW S, NEW T, NEW w, NEW v, NEW w2, NEW v2,
         PolicyOf(C, S, w, v), ClientKeeps(C, D), ServerKeeps(S, T), Fewer(w, w2), Fewer(v, v2)
  PROVE  PolicyOf(D, T, w2, v2)
<1>1. /\ Has(w2, "proceed") => Has(w, "proceed")
      /\ Has(v2, "starttls") => Has(v, "starttls")
      /\ Has(v2, "auth") => Has(v, "auth")
      /\ NoneFrom(w, 1, {"features", "features_tls"}) => NoneFrom(w2, 1, {"features", "features_tls"})
  BY FewerHas
<1>. QED BY <1>1 DEF PolicyOf, ClientKeeps, ServerKeeps, ClientEarly

LEMMA FewerWords ==
  ASSUME NEW a \in Seq(Units), NEW b \in Seq(Units)
  PROVE  /\ Fewer(a, a)
         /\ Shifted(a, b) => Fewer(a, b)
         /\ Cut(a, b) => Fewer(a, b)
         /\ \A ks \in Seq(Kinds) : b = a \o Control(ks) /\ (\A i \in 1..Len(ks) : ks[i] \in Quiet) => Fewer(a, b)
         /\ \A k \in Quiet : One(a, b, k) => Fewer(a, b)
         /\ \A j, k \in Quiet : Two(a, b, j, k) => Fewer(a, b)
<1>1. Len(a) \in Nat /\ Len(b) \in Nat
  BY LenProperties
<1>2. Fewer(a, a)
  BY DEF Fewer
<1>3. ASSUME Shifted(a, b) PROVE Fewer(a, b)
  <2>1. \A i \in 1..Len(b) : i + 1 \in 1..Len(a) /\ b[i].k = a[i + 1].k
    BY <1>1, <1>3 DEF Shifted
  <2>. QED BY <2>1 DEF Fewer
<1>4. ASSUME Cut(a, b) PROVE Fewer(a, b)
  <2>1. ASSUME NEW i \in 1..Len(b) PROVE b[i].k = "fin" \/ (i \in 1..Len(a) /\ b[i].k = a[i].k)
    <3>1. CASE i = Len(b)
      BY <1>4, <3>1 DEF Cut
    <3>2. CASE i # Len(b)
      <4>1. i \in 1..Len(b) - 1
        BY <1>1, <3>2
      <4>. QED BY <1>1, <1>4, <4>1 DEF Cut
    <3>. QED BY <3>1, <3>2
  <2>2. "fin" \in Quiet
    BY DEF Quiet, Kinds
  <2>. QED BY <2>1, <2>2 DEF Fewer
<1>5. ASSUME NEW ks \in Seq(Kinds), b = a \o Control(ks), \A i \in 1..Len(ks) : ks[i] \in Quiet
      PROVE  Fewer(a, b)
  <2>1. /\ Len(ks) \in Nat /\ Len(b) = Len(a) + Len(ks) /\ \A i \in 1..Len(a) : b[i] = a[i]
        /\ \A j \in 1..Len(b) : j > Len(a) => b[j].k = ks[j - Len(a)]
    BY <1>5, WordGrows
  <2>2. ASSUME NEW i \in 1..Len(b) PROVE b[i].k \in Quiet \/ (i \in 1..Len(a) /\ b[i].k = a[i].k)
    <3>1. CASE i <= Len(a)
      BY <1>1, <2>1, <3>1
    <3>2. CASE ~(i <= Len(a))
      <4>1. i > Len(a) /\ i - Len(a) \in 1..Len(ks)
        BY <1>1, <2>1, <3>2
      <4>. QED BY <1>5, <2>1, <4>1
    <3>. QED BY <3>1, <3>2
  <2>. QED BY <2>2 DEF Fewer
<1>6. ASSUME NEW k \in Quiet, One(a, b, k) PROVE Fewer(a, b)
  <2>1. \A i \in 1..Len(b) : i \in 1..Len(a) \/ i = Len(a) + 1
    BY <1>1, <1>6 DEF One
  <2>. QED BY <1>6, <2>1 DEF One, Fewer
<1>7. ASSUME NEW j \in Quiet, NEW k \in Quiet, Two(a, b, j, k) PROVE Fewer(a, b)
  <2>1. \A i \in 1..Len(b) : i \in 1..Len(a) \/ i = Len(a) + 1 \/ i = Len(a) + 2
    BY <1>1, <1>7 DEF Two
  <2>. QED BY <1>7, <2>1 DEF Two, Fewer
<1>. QED BY <1>2, <1>3, <1>4, <1>5, <1>6, <1>7

\* What an end can take of a closing one, it can take when TCP is closed, too, or with "bye".
Bye(a, b) == b = a \/ One(a, b, "bye") \/ Cut(a, b)

LEMMA ByeFacts ==
  ASSUME NEW a \in Seq(Units), NEW b \in Seq(Units), Bye(a, b)
  PROVE  /\ Len(a) \in Nat /\ Len(b) \in Nat
         /\ \A i \in 1..Len(b) : \/ i <= Len(a) /\ b[i] = a[i]
                                 \/ b[i].k \in {"bye", "fin"} /\ i = Len(b)
<1>1. Len(a) \in Nat /\ Len(b) \in Nat
  BY LenProperties
<1>2. ASSUME NEW i \in 1..Len(b)
      PROVE  (i <= Len(a) /\ b[i] = a[i]) \/ (b[i].k \in {"bye", "fin"} /\ i = Len(b))
  <2>1. CASE b = a
    BY <1>1, <2>1
  <2>2. CASE One(a, b, "bye")
    <3>1. i \in 1..Len(a) \/ i = Len(a) + 1
      BY <1>1, <2>2 DEF One
    <3>. QED BY <1>1, <2>2, <3>1 DEF One
  <2>3. CASE Cut(a, b)
    <3>1. i \in 1..Len(b) - 1 \/ i = Len(b)
      BY <1>1
    <3>. QED BY <1>1, <2>3, <3>1 DEF Cut
  <2>. QED BY <2>1, <2>2, <2>3 DEF Bye
<1>. QED BY <1>1, <1>2

LEMMA ByeParts ==
  ASSUME NEW a \in Seq(Units), NEW b \in Seq(Units), Bye(a, b), NEW ks, NEW n \in {1, 2}
  PROVE  /\ NoneFrom(a, n, ks) /\ "bye" \notin ks /\ "fin" \notin ks => NoneFrom(b, n, ks)
         /\ \A by : Followed(a, n, ks, by) /\ "bye" \in by /\ "fin" \in by => Followed(b, n, ks, by)
         /\ Starts(a, ks) /\ "bye" \in ks /\ "fin" \in ks => Starts(b, ks)
         /\ Len(b) > 0 /\ b[1].k \notin {"bye", "fin"} => Len(a) > 0 /\ a[1] = b[1]
         /\ \A k \in Kinds \ {"bye", "fin"} : Has(b, k) => Has(a, k)
<1>1. /\ Len(a) \in Nat /\ Len(b) \in Nat
      /\ \A i \in 1..Len(b) : \/ i <= Len(a) /\ b[i] = a[i]
                              \/ b[i].k \in {"bye", "fin"} /\ i = Len(b)
  BY ByeFacts
<1>2. ASSUME NoneFrom(a, n, ks), "bye" \notin ks, "fin" \notin ks PROVE NoneFrom(b, n, ks)
  <2>1. ASSUME NEW i \in n..Len(b) PROVE b[i].k \notin ks
    <3>1. i \in 1..Len(b) /\ (i <= Len(a) => i \in n..Len(a))
      BY <1>1
    <3>. QED BY <1>1, <1>2, <3>1 DEF NoneFrom
  <2>. QED BY <2>1 DEF NoneFrom
<1>3. ASSUME NEW by, Followed(a, n, ks, by), "bye" \in by, "fin" \in by PROVE Followed(b, n, ks, by)
  <2>1. ASSUME NEW i \in n..Len(b) - 1, b[i].k \in ks PROVE b[i + 1].k \in by
    <3>1. i \in 1..Len(b) /\ i + 1 \in 1..Len(b) /\ i # Len(b)
      BY <1>1
    <3>2. i <= Len(a) /\ b[i] = a[i]
      BY <1>1, <3>1
    <3>3. CASE i + 1 <= Len(a) /\ b[i + 1] = a[i + 1]
      <4>1. i \in n..Len(a) - 1
        BY <1>1, <3>3
      <4>. QED BY <1>3, <2>1, <3>2, <3>3, <4>1 DEF Followed
    <3>4. CASE b[i + 1].k \in {"bye", "fin"}
      BY <1>3, <3>4
    <3>. QED BY <1>1, <3>1, <3>3, <3>4
  <2>. QED BY <2>1 DEF Followed
<1>4. ASSUME Starts(a, ks), "bye" \in ks, "fin" \in ks PROVE Starts(b, ks)
  <2>1. ASSUME Len(b) > 0 PROVE b[1].k \in ks
    <3>1. 1 \in 1..Len(b)
      BY <1>1, <2>1
    <3>2. 1 <= Len(a) => Len(a) > 0
      BY <1>1
    <3>. QED BY <1>1, <1>4, <3>1, <3>2 DEF Starts
  <2>. QED BY <2>1 DEF Starts
<1>5. ASSUME Len(b) > 0, b[1].k \notin {"bye", "fin"} PROVE Len(a) > 0 /\ a[1] = b[1]
  <2>1. 1 \in 1..Len(b)
    BY <1>1, <1>5
  <2>2. 1 <= Len(a) /\ b[1] = a[1]
    BY <1>1, <1>5, <2>1
  <2>. QED BY <1>1, <2>2
<1>6. ASSUME NEW k \in Kinds \ {"bye", "fin"}, Has(b, k) PROVE Has(a, k)
  <2>1. PICK i \in 1..Len(b) : b[i].k = k
    BY <1>6 DEF Has
  <2>2. i \in 1..Len(a) /\ a[i].k = k
    BY <1>1, <2>1
  <2>. QED BY <2>2 DEF Has
<1>. QED BY <1>2, <1>3, <1>4, <1>5, <1>6

LEMMA ClientTakesBye ==
  ASSUME NEW a \in Seq(Units), NEW b \in Seq(Units), Bye(a, b), NEW st, ClientTakes(st, a)
  PROVE  ClientTakes(st, b)
<1>1. /\ Starts(a, {"bye", "fin"}) => Starts(b, {"bye", "fin"})
      /\ NoneFrom(a, 1, {"stream", "msg"}) => NoneFrom(b, 1, {"stream", "msg"})
      /\ Followed(a, 1, {"done"}, {"bye", "fin"}) => Followed(b, 1, {"done"}, {"bye", "fin"})
      /\ NoneFrom(a, 1, {"stream", "half", "msg", "done"}) => NoneFrom(b, 1, {"stream", "half", "msg", "done"})
      /\ NoneFrom(a, 2, {"stream", "half", "msg", "done"}) => NoneFrom(b, 2, {"stream", "half", "msg", "done"})
      /\ NoneFrom(a, 1, {"stream"}) => NoneFrom(b, 1, {"stream"})
      /\ NoneFrom(a, 2, {"stream"}) => NoneFrom(b, 2, {"stream"})
      /\ Has(b, "msg") => Has(a, "msg")
      /\ Len(b) > 0 /\ b[1].k \notin {"bye", "fin"} => Len(a) > 0 /\ a[1] = b[1]
  <2>1. "msg" \in Kinds \ {"bye", "fin"}
    BY DEF Kinds
  <2>2. {"bye", "fin"} \subseteq {"bye", "fin"} /\ 1 \in {1, 2} /\ 2 \in {1, 2}
    OBVIOUS
  <2>3. Starts(a, {"bye", "fin"}) => Starts(b, {"bye", "fin"})
    BY ByeParts, <2>2
  <2>4. NoneFrom(a, 1, {"stream", "msg"}) => NoneFrom(b, 1, {"stream", "msg"})
    BY ByeParts, <2>2
  <2>5. Followed(a, 1, {"done"}, {"bye", "fin"}) => Followed(b, 1, {"done"}, {"bye", "fin"})
    BY ByeParts, <2>2
  <2>6. NoneFrom(a, 1, {"stream", "half", "msg", "done"}) => NoneFrom(b, 1, {"stream", "half", "msg", "done"})
    BY ByeParts, <2>2
  <2>7. NoneFrom(a, 2, {"stream", "half", "msg", "done"}) => NoneFrom(b, 2, {"stream", "half", "msg", "done"})
    BY ByeParts, <2>2
  <2>8. NoneFrom(a, 1, {"stream"}) => NoneFrom(b, 1, {"stream"})
    BY ByeParts, <2>2
  <2>9. NoneFrom(a, 2, {"stream"}) => NoneFrom(b, 2, {"stream"})
    BY ByeParts, <2>2
  <2>10. Has(b, "msg") => Has(a, "msg")
    BY ByeParts, <2>1, <2>2
  <2>11. Len(b) > 0 /\ b[1].k \notin {"bye", "fin"} => Len(a) > 0 /\ a[1] = b[1]
    BY ByeParts, <2>2
  <2>. QED BY <2>3, <2>4, <2>5, <2>6, <2>7, <2>8, <2>9, <2>10, <2>11
<1>2. /\ Len(a) \in Nat /\ Len(b) \in Nat
      /\ \A i \in 1..Len(b) : \/ i <= Len(a) /\ b[i] = a[i]
                              \/ b[i].k \in {"bye", "fin"} /\ i = Len(b)
  BY ByeFacts
<1>3. CASE Len(b) = 0
  <2>1. /\ \A ks : NoneFrom(b, 1, ks) /\ NoneFrom(b, 2, ks) /\ Starts(b, ks)
        /\ Len(b) = 0
        /\ ~Has(b, "msg")
        /\ \A ks, by : Followed(b, 1, ks, by)
    BY <1>3 DEF NoneFrom, Starts, Has, Followed
  <2>. QED BY <2>1 DEF ClientTakes
<1>4. CASE Len(b) > 0
  <2>1. Starts(b, {"stream"}) => Starts(a, {"stream"}) /\ a[1] = b[1] /\ b[1].k = "stream"
    BY <1>1, <1>4 DEF Starts
  <2>2. ASSUME Has(b, "msg"), b[1].k = "stream", a[2].k \in FeatureKinds, Len(a) > 1
        PROVE  Len(b) > 1 /\ b[2].k \in FeatureKinds
    <3>1. PICK i \in 1..Len(b) : b[i].k = "msg"
      BY <2>2 DEF Has
    <3>2. i # 1
      BY <2>2, <3>1
    <3>3. b[i] = a[i]
      BY <1>2, <3>1
    <3>4. i # 2
      BY <2>2, <3>1, <3>3 DEF FeatureKinds
    <3>5. 2 \in 1..Len(b) /\ 2 # Len(b)
      BY <1>2, <3>2, <3>4
    <3>6. b[2] = a[2]
      BY <1>2, <3>5
    <3>. QED BY <1>2, <2>2, <3>5, <3>6
  <2>3. ASSUME Has(b, "msg"), Starts(a, FeatureKinds)
        PROVE  Starts(b, FeatureKinds)
    <3>1. PICK i \in 1..Len(b) : b[i].k = "msg"
      BY <2>3 DEF Has
    <3>2. b[i] = a[i] /\ i <= Len(a)
      BY <1>2, <3>1
    <3>3. a[1].k \in FeatureKinds
      BY <1>2, <2>3, <3>2 DEF Starts
    <3>4. i # 1
      BY <3>1, <3>2, <3>3 DEF FeatureKinds
    <3>5. 1 \in 1..Len(b) /\ 1 # Len(b)
      BY <1>2, <3>4
    <3>6. b[1] = a[1]
      BY <1>2, <3>5
    <3>. QED BY <3>3, <3>6 DEF Starts
  <2>4. (Len(a) = 0 \/ a[1].k # "half") => b[1].k # "half"
    BY <1>1, <1>4
  <2>. QED BY <1>1, <2>1, <2>2, <2>3, <2>4 DEF ClientTakes
<1>. QED BY <1>2, <1>3, <1>4

LEMMA ServerTakesBye ==
  ASSUME NEW a \in Seq(Units), NEW b \in Seq(Units), Bye(a, b), NEW st, NEW busy, ServerTakes(st, busy, a)
  PROVE  ServerTakes(st, busy, b)
<1>. DEFINE after == {"abort", "bye", "fin"}
<1>1. /\ Starts(a, after) => Starts(b, after)
      /\ Starts(a, {"stream", "abort", "bye", "fin"}) => Starts(b, {"stream", "abort", "bye", "fin"})
      /\ NoneFrom(a, 1, {"stream", "msg"}) => NoneFrom(b, 1, {"stream", "msg"})
      /\ NoneFrom(a, 2, {"stream", "msg"}) => NoneFrom(b, 2, {"stream", "msg"})
      /\ Followed(a, 1, Answered, after) => Followed(b, 1, Answered, after)
      /\ Followed(a, 2, Answered, after) => Followed(b, 2, Answered, after)
      /\ NoneFrom(a, 1, {"stream"}) => NoneFrom(b, 1, {"stream"})
      /\ NoneFrom(a, 2, {"stream"}) => NoneFrom(b, 2, {"stream"})
      /\ Len(b) > 0 /\ b[1].k \notin {"bye", "fin"} => Len(a) > 0 /\ a[1] = b[1]
  <2>2. "bye" \in after /\ "fin" \in after /\ 1 \in {1, 2} /\ 2 \in {1, 2}
    OBVIOUS
  <2>3. Starts(a, after) => Starts(b, after)
    BY ByeParts, <2>2
  <2>4. Starts(a, {"stream", "abort", "bye", "fin"}) => Starts(b, {"stream", "abort", "bye", "fin"})
    BY ByeParts, <2>2
  <2>5. NoneFrom(a, 1, {"stream", "msg"}) => NoneFrom(b, 1, {"stream", "msg"})
    BY ByeParts, <2>2
  <2>6. NoneFrom(a, 2, {"stream", "msg"}) => NoneFrom(b, 2, {"stream", "msg"})
    BY ByeParts, <2>2
  <2>7. Followed(a, 1, Answered, after) => Followed(b, 1, Answered, after)
    BY ByeParts, <2>2
  <2>8. Followed(a, 2, Answered, after) => Followed(b, 2, Answered, after)
    <3>1. \A by : Followed(a, 2, Answered, by) /\ "bye" \in by /\ "fin" \in by => Followed(b, 2, Answered, by)
      BY ByeParts, <2>2
    <3>. QED BY <2>2, <3>1
  <2>9. NoneFrom(a, 1, {"stream"}) => NoneFrom(b, 1, {"stream"})
    BY ByeParts, <2>2
  <2>10. NoneFrom(a, 2, {"stream"}) => NoneFrom(b, 2, {"stream"})
    BY ByeParts, <2>2
  <2>11. Len(b) > 0 /\ b[1].k \notin {"bye", "fin"} => Len(a) > 0 /\ a[1] = b[1]
    BY ByeParts, <2>2
  <2>. QED BY <2>3, <2>4, <2>5, <2>6, <2>7, <2>8, <2>9, <2>10, <2>11
<1>2. Len(b) \in Nat
  BY LenProperties
<1>3. CASE Len(b) = 0
  <2>1. /\ \A ks : NoneFrom(b, 1, ks) /\ NoneFrom(b, 2, ks) /\ Starts(b, ks)
        /\ \A ks, by : Followed(b, 1, ks, by) /\ Followed(b, 2, ks, by)
    BY <1>3 DEF NoneFrom, Starts, Has, Followed
  <2>. QED BY <2>1 DEF ServerTakes
<1>4. CASE Len(b) > 0
  <2>1. Starts(b, {"stream"}) => Starts(a, {"stream"})
    BY <1>1, <1>4 DEF Starts
  <2>. QED BY <1>1, <2>1 DEF ServerTakes
<1>. QED BY <1>2, <1>3, <1>4

(***************************************************************************)
(* An open end can take what the other one sends when it closes            *)
(***************************************************************************)
\* Elements of a closing end follow.
Ext(a, b) == /\ Len(a) <= Len(b)
             /\ \A i \in 1..Len(b) : \/ i <= Len(a) /\ b[i] = a[i]
                                     \/ i > Len(a) /\ b[i].k \in EndKinds

\* The first of them is one that the other end takes in every state.
Soft(a, b) == Len(b) > Len(a) => b[Len(a) + 1].k \in {"abort", "bye"}

LEMMA ExtWord ==
  ASSUME NEW a \in Seq(Units), NEW ks \in Seq(Kinds), \A i \in 1..Len(ks) : ks[i] \in EndKinds
  PROVE  LET b == a \o Control(ks)
         IN  /\ b \in Seq(Units) /\ Ext(a, b)
             /\ Len(ks) = 0 \/ ks[1] = "abort" => Soft(a, b)
<1>. DEFINE b == a \o Control(ks)
<1>1. /\ b \in Seq(Units) /\ Len(a) \in Nat /\ Len(ks) \in Nat /\ Len(b) = Len(a) + Len(ks)
      /\ \A i \in 1..Len(a) : b[i] = a[i]
      /\ \A j \in 1..Len(b) : j > Len(a) => b[j].k = ks[j - Len(a)]
  BY WordGrows
<1>. HIDE DEF b
<1>2. ASSUME NEW i \in 1..Len(b)
      PROVE  (i <= Len(a) /\ b[i] = a[i]) \/ (i > Len(a) /\ b[i].k \in EndKinds)
  <2>1. CASE i <= Len(a)
    BY <1>1, <2>1
  <2>2. CASE i > Len(a)
    <3>1. i - Len(a) \in 1..Len(ks)
      BY <1>1, <2>2
    <3>. QED BY <1>1, <2>2, <3>1
  <2>. QED BY <1>1, <2>1, <2>2
<1>3. ASSUME Len(ks) = 0 \/ ks[1] = "abort", Len(b) > Len(a) PROVE b[Len(a) + 1].k \in {"abort", "bye"}
  <2>1. Len(ks) # 0 /\ Len(a) + 1 \in 1..Len(b) /\ Len(a) + 1 > Len(a) /\ (Len(a) + 1) - Len(a) = 1
    BY <1>1, <1>3
  <2>2. b[Len(a) + 1].k = ks[(Len(a) + 1) - Len(a)]
    BY <1>1, <2>1
  <2>. QED BY <1>3, <2>1, <2>2
<1>4. b \in Seq(Units) /\ Ext(a, b) /\ (Len(ks) = 0 \/ ks[1] = "abort" => Soft(a, b))
  BY <1>1, <1>2, <1>3 DEF Ext, Soft
<1>. QED BY <1>4 DEF b

LEMMA ByeWord ==
  ASSUME NEW a \in Seq(Units), NEW ks \in {<<>>, <<"bye">>}
  PROVE  ks \in Seq(Kinds) /\ Bye(a, a \o Control(ks))
<1>1. "bye" \in Kinds
  BY DEF Kinds
<1>2. CASE ks = <<>>
  BY <1>2, Tuples, WordNone DEF Bye
<1>3. CASE ks = <<"bye">>
  BY <1>1, <1>3, Tuples, WordOne DEF Bye
<1>. QED BY <1>2, <1>3

LEMMA ClientTakesExt ==
  ASSUME NEW a \in Seq(Units), NEW b \in Seq(Units), Ext(a, b), NEW st, ClientTakes(st, a),
         st \notin {"connecting", "connected"}, st = "handshaking" => NoneFrom(a, 1, {"done"})
  PROVE  ClientTakes(st, b)
<1>1. /\ Len(a) \in Nat /\ Len(b) \in Nat /\ Len(a) <= Len(b)
      /\ \A i \in 1..Len(b) : \/ i <= Len(a) /\ b[i] = a[i]
                              \/ i > Len(a) /\ b[i].k \in EndKinds
  BY LenProperties DEF Ext
<1>2. ASSUME NEW ks, NEW n \in {1, 2}, NoneFrom(a, n, ks), \A k \in EndKinds : k \notin ks
      PROVE  NoneFrom(b, n, ks)
  <2>1. ASSUME NEW i \in n..Len(b) PROVE b[i].k \notin ks
    <3>1. i \in 1..Len(b) /\ (i <= Len(a) => i \in n..Len(a))
      BY <1>1
    <3>. QED BY <1>1, <1>2, <3>1 DEF NoneFrom
  <2>. QED BY <2>1 DEF NoneFrom
<1>3. /\ NoneFrom(a, 1, {"stream", "msg"}) => NoneFrom(b, 1, {"stream", "msg"})
      /\ NoneFrom(a, 1, {"done"}) => NoneFrom(b, 1, {"done"})
      /\ NoneFrom(a, 1, {"stream", "half", "msg", "done"}) => NoneFrom(b, 1, {"stream", "half", "msg", "done"})
      /\ NoneFrom(a, 2, {"stream", "half", "msg", "done"}) => NoneFrom(b, 2, {"stream", "half", "msg", "done"})
      /\ NoneFrom(a, 1, {"stream"}) => NoneFrom(b, 1, {"stream"})
      /\ NoneFrom(a, 2, {"stream"}) => NoneFrom(b, 2, {"stream"})
  <2>1. /\ \A k \in EndKinds : k \notin {"stream", "msg"}
        /\ \A k \in EndKinds : k \notin {"done"}
        /\ \A k \in EndKinds : k \notin {"stream", "half", "msg", "done"}
        /\ \A k \in EndKinds : k \notin {"stream"}
    BY DEF EndKinds
  <2>. QED BY <1>2, <2>1
<1>4. NoneFrom(b, 1, {"done"}) => Followed(b, 1, {"done"}, {"bye", "fin"})
  BY <1>1 DEF NoneFrom, Followed
<1>5. Starts(b, {"stream"}) => \/ Len(a) = 0 /\ Len(b) = 0
                               \/ Len(a) > 0 /\ a[1] = b[1] /\ Starts(a, {"stream"})
  <2>1. ASSUME Len(b) > 0, b[1].k = "stream" PROVE Len(a) > 0 /\ a[1] = b[1]
    <3>1. 1 \in 1..Len(b)
      BY <1>1, <2>1
    <3>. QED BY <1>1, <2>1, <3>1 DEF EndKinds
  <2>. QED BY <1>1, <2>1 DEF Starts
<1>6. ASSUME Has(b, "msg") PROVE Has(a, "msg") /\ Len(a) > 0
  <2>1. PICK i \in 1..Len(b) : b[i].k = "msg"
    BY <1>6 DEF Has
  <2>2. i \in 1..Len(a) /\ a[i].k = "msg"
    BY <1>1, <2>1 DEF EndKinds
  <2>. QED BY <1>1, <2>2 DEF Has
<1>7. \A i \in 1..Len(a) : b[i] = a[i]
  BY <1>1
<1>8. ASSUME Has(a, "msg") => Len(a) > 1 /\ a[2].k \in FeatureKinds
      PROVE  Has(b, "msg") => Len(b) > 1 /\ b[2].k \in FeatureKinds
  BY <1>1, <1>6, <1>7, <1>8
<1>9. ASSUME Has(a, "msg") => Starts(a, FeatureKinds)
      PROVE  Has(b, "msg") => Starts(b, FeatureKinds)
  BY <1>1, <1>6, <1>7, <1>9 DEF Starts
<1>10. ASSUME Len(b) = 0
       PROVE  /\ \A ks : NoneFrom(b, 1, ks) /\ NoneFrom(b, 2, ks)
              /\ ~Has(b, "msg")
  BY <1>10 DEF NoneFrom, Has
<1>13. ASSUME Len(a) = 0 \/ a[1].k # "half" PROVE Len(b) = 0 \/ b[1].k # "half"
  <2>1. Len(b) > 0 => 1 \in 1..Len(b)
    BY <1>1
  <2>. QED BY <1>1, <1>13, <2>1 DEF EndKinds
<1>11. CASE st \in {"initiated", "auth_initiated"}
  BY <1>3, <1>5, <1>8, <1>10, <1>11, <1>13 DEF ClientTakes
<1>12. CASE st \notin {"initiated", "auth_initiated"}
  BY <1>3, <1>4, <1>9, <1>12 DEF ClientTakes
<1>. QED BY <1>11, <1>12

LEMMA ServerTakesExt ==
  ASSUME NEW a \in Seq(Units), NEW b \in Seq(Units), Ext(a, b), NEW st, NEW busy, ServerTakes(st, busy, a),
         \/ Soft(a, b)
         \/ /\ Len(a) > 0 => a[Len(a)].k \notin Answered
            /\ Len(a) = 0 => st \notin {"connected", "auth_connected"} /\ ~(st = "authenticating" /\ busy)
  PROVE  ServerTakes(st, busy, b)
<1>1. /\ Len(a) \in Nat /\ Len(b) \in Nat /\ Len(a) <= Len(b)
      /\ \A i \in 1..Len(b) : \/ i <= Len(a) /\ b[i] = a[i]
                              \/ i > Len(a) /\ b[i].k \in EndKinds
  BY LenProperties DEF Ext
<1>2. ASSUME NEW ks, NEW n \in {1, 2}, NoneFrom(a, n, ks), \A k \in EndKinds : k \notin ks
      PROVE  NoneFrom(b, n, ks)
  <2>1. ASSUME NEW i \in n..Len(b) PROVE b[i].k \notin ks
    <3>1. i \in 1..Len(b) /\ (i <= Len(a) => i \in n..Len(a))
      BY <1>1
    <3>. QED BY <1>1, <1>2, <3>1 DEF NoneFrom
  <2>. QED BY <2>1 DEF NoneFrom
<1>3. /\ NoneFrom(a, 1, {"stream", "msg"}) => NoneFrom(b, 1, {"stream", "msg"})
      /\ NoneFrom(a, 2, {"stream", "msg"}) => NoneFrom(b, 2, {"stream", "msg"})
      /\ NoneFrom(a, 1, {"stream"}) => NoneFrom(b, 1, {"stream"})
      /\ NoneFrom(a, 2, {"stream"}) => NoneFrom(b, 2, {"stream"})
  <2>1. /\ \A k \in EndKinds : k \notin {"stream", "msg"}
        /\ \A k \in EndKinds : k \notin {"stream"}
    BY DEF EndKinds
  <2>. QED BY <1>2, <2>1
<1>4. ASSUME NEW n \in {1, 2}, Followed(a, n, Answered, {"abort", "bye", "fin"})
      PROVE  Followed(b, n, Answered, {"abort", "bye", "fin"})
  <2>1. ASSUME NEW i \in n..Len(b) - 1, b[i].k \in Answered PROVE b[i + 1].k \in {"abort", "bye", "fin"}
    <3>1. i \in 1..Len(b) /\ i + 1 \in 1..Len(b)
      BY <1>1
    <3>2. i <= Len(a) /\ b[i] = a[i]
      BY <1>1, <2>1, <3>1 DEF EndKinds, Answered
    <3>3. CASE i + 1 <= Len(a)
      <4>1. i \in n..Len(a) - 1
        BY <1>1, <3>3
      <4>2. b[i + 1] = a[i + 1]
        BY <1>1, <3>1, <3>3
      <4>. QED BY <1>4, <2>1, <3>2, <4>1, <4>2 DEF Followed
    <3>4. CASE ~(i + 1 <= Len(a))
      <4>1. i = Len(a) /\ Len(b) > Len(a) /\ Len(a) > 0
        BY <1>1, <3>1, <3>2, <3>4
      <4>. QED BY <2>1, <3>2, <4>1 DEF Soft
    <3>. QED BY <3>3, <3>4
  <2>. QED BY <2>1 DEF Followed
<1>5. CASE Len(a) > 0
  <2>1. a[1] = b[1] /\ Len(b) > 0
    BY <1>1, <1>5
  <2>2. \A ks : Starts(b, ks) <=> Starts(a, ks)
    BY <1>5, <2>1 DEF Starts
  <2>. QED BY <1>3, <1>4, <2>2 DEF ServerTakes
<1>6. CASE Len(a) = 0
  <2>1. /\ NoneFrom(a, 2, {"stream", "msg"}) /\ Followed(a, 2, Answered, {"abort", "bye", "fin"})
        /\ NoneFrom(a, 2, {"stream"})
    BY <1>6 DEF NoneFrom, Followed
  <2>2. ASSUME Soft(a, b) PROVE Starts(b, {"abort", "bye", "fin"}) /\ Starts(b, {"stream", "abort", "bye", "fin"})
    <3>1. Len(a) + 1 = 1
      BY <1>6
    <3>. QED BY <1>1, <1>6, <2>2, <3>1 DEF Starts, Soft
  <2>. QED BY <1>3, <1>4, <1>6, <2>1, <2>2 DEF ServerTakes
<1>. QED BY <1>1, <1>5, <1>6

\* What the phases say about closing.
Takes(C, S, w, v) ==
  /\ ClientTakes(C.st, w) /\ ServerTakes(S.st, S.sasl = "busy", v)
  /\ S.st \notin {"connected", "auth_connected"} =>
       C.st \notin {"connecting", "connected"} /\ (C.st = "handshaking" => NoneFrom(w, 1, {"done"}))
  /\ /\ C.st \notin {"connecting", "connected", "encryption_requested", "handshaking"}
     /\ C.st = "authenticating" => C.sasl = "busy" \/ (Len(w) > 0 /\ w[1].k = "failure")
     => /\ Len(v) > 0 => v[Len(v)].k \notin Answered
        /\ Len(v) = 0 => /\ S.st \notin {"connected", "auth_connected"}
                         /\ ~(S.st = "authenticating" /\ S.sasl = "busy")
  /\ S.st = "handshaking" /\ Len(v) > 0 /\ v[1].k = "finished" => C.st = "handshaking" /\ Len(w) = 0

LEMMA OpeningTakes ==
  ASSUME NEW C, NEW S, NEW w \in Seq(Units), NEW v \in Seq(Units), Opening1(C, S, w, v)
  PROVE  Takes(C, S, w, v)
<1>1. Len(w) \in Nat /\ Len(v) \in Nat
  BY LenProperties
<1>2. ClientTakes(C.st, w)
  BY <1>1 DEF Opening1, ClientTakes, Empty, Only, NoneFrom, Starts, Followed, Has, FeatureKinds
<1>3. ServerTakes(S.st, S.sasl = "busy", v)
  BY <1>1 DEF Opening1, ServerTakes, Empty, Only, NoneFrom, Starts, Followed, Has, FeatureKinds
<1>. QED BY <1>1, <1>2, <1>3 DEF Opening1, Takes, Empty, Only, NoneFrom, Answered

LEMMA EncryptingTakes ==
  ASSUME NEW C, NEW S, NEW w \in Seq(Units), NEW v \in Seq(Units), Encrypting(C, S, w, v)
  PROVE  Takes(C, S, w, v)
<1>1. Len(w) \in Nat /\ Len(v) \in Nat
  BY LenProperties
<1>2. ClientTakes(C.st, w)
  BY <1>1 DEF Encrypting, ClientTakes, Empty, Only, NoneFrom, Starts, Followed, Has, FeatureKinds
<1>3. ServerTakes(S.st, S.sasl = "busy", v)
  BY <1>1 DEF Encrypting, ServerTakes, Empty, Only, NoneFrom, Starts, Followed, Has, FeatureKinds
<1>. QED BY <1>1, <1>2, <1>3 DEF Encrypting, Takes, Empty, Only, NoneFrom, Answered

LEMMA AuthenticatingTakes ==
  ASSUME NEW C, NEW S, NEW w \in Seq(Units), NEW v \in Seq(Units), C.sasl \in {"none", "idle", "busy"},
         Authenticating(C, S, w, v)
  PROVE  Takes(C, S, w, v)
<1>1. Len(w) \in Nat /\ Len(v) \in Nat
  BY LenProperties
<1>2. C.st = "authenticating"
  BY DEF Authenticating
<1>3. ASSUME \A i \in 1..Len(w) : w[i].k \in {"challenge", "failure", "success"} PROVE ClientTakes(C.st, w)
  BY <1>2, <1>3 DEF ClientTakes, NoneFrom
<1>4. CASE C.sasl = "busy"
  <2>1. S.st = "authenticating" /\ S.sasl # "busy" /\ Len(w) = 0 /\ Len(v) = 0
    BY <1>4 DEF Authenticating, Empty
  <2>2. ServerTakes(S.st, S.sasl = "busy", v)
    BY <2>1 DEF ServerTakes, NoneFrom, Followed
  <2>. QED BY <1>2, <1>3, <2>1, <2>2 DEF Takes
<1>5. CASE ServerBusy(C, S, w, v)
  <2>1. S.st = "authenticating" /\ Len(w) = 0 /\ \A i \in 1..Len(v) : v[i].k = "abort"
    BY <1>5 DEF ServerBusy, Empty, All
  <2>2. ServerTakes(S.st, S.sasl = "busy", v)
    BY <1>1, <2>1 DEF ServerTakes, NoneFrom, Followed, Starts, Answered
  <2>3. w[1].k = "failure" => Len(w) = 0
    BY <2>1
  <2>. QED BY <1>2, <1>3, <1>4, <2>1, <2>2 DEF Takes
<1>6. CASE ServerWaits(C, S, w, v) /\ C.sasl # "busy"
  <2>1. /\ S.st = "authenticating" /\ S.sasl # "busy"
        /\ Len(w) = 0 \/ (Len(w) = 1 /\ w[1].k = "challenge")
    BY <1>6 DEF ServerWaits, Empty, Only
  <2>2. \A i \in 1..Len(w) : w[i].k = "challenge"
    BY <1>1, <2>1
  <2>3. \A i \in 1..Len(v) : v[i].k = "abort" \/ (i = 1 /\ v[i].k = "response")
    BY <1>1, <1>6 DEF ServerWaits, Empty, Only, All, AllFrom, Starts
  <2>4. ServerTakes(S.st, S.sasl = "busy", v)
    BY <1>1, <2>1, <2>3 DEF ServerTakes, NoneFrom, Followed, Answered
  <2>. QED BY <1>2, <1>3, <1>6, <2>1, <2>2, <2>4 DEF Takes
<1>7. CASE Failed(C, S, w, v)
  <2>1. S.st = "initiated" /\ \A i \in 1..Len(v) : v[i].k = "abort"
    BY <1>7 DEF Failed, All
  <2>2. \A i \in 1..Len(w) : w[i].k \in {"challenge", "failure"}
    BY <1>1, <1>7 DEF Failed, Only
  <2>3. ServerTakes(S.st, S.sasl = "busy", v)
    BY <1>1, <2>1 DEF ServerTakes, NoneFrom, Followed, Answered
  <2>4. Len(v) > 0 => v[Len(v)].k \notin Answered
    BY <1>1, <2>1 DEF Answered
  <2>. QED BY <1>2, <1>3, <2>1, <2>2, <2>3, <2>4 DEF Takes
<1>8. CASE AsksAgain(C, S, w, v)
  <2>1. PICK p \in 1..Len(v) : v[p].k = "auth" /\ \A i \in 1..Len(v) : i # p => v[i].k = "abort"
    BY <1>8 DEF AsksAgain
  <2>2. S.st = "initiated" /\ Len(w) = 0
    BY <1>8 DEF AsksAgain, Empty
  <2>3. ServerTakes(S.st, S.sasl = "busy", v)
    BY <1>1, <2>1, <2>2 DEF ServerTakes, NoneFrom, Followed, Answered
  <2>. QED BY <1>2, <1>3, <1>4, <2>2, <2>3 DEF Takes
<1>9. CASE Succeeds(C, S, w, v)
  <2>1. S.st = "auth_connected" /\ Len(w) = 1 /\ w[1].k = "success" /\ \A i \in 1..Len(v) : v[i].k = "abort"
    BY <1>9 DEF Succeeds, Only, All
  <2>2. ServerTakes(S.st, S.sasl = "busy", v)
    BY <1>1, <2>1 DEF ServerTakes, NoneFrom, Starts
  <2>. QED BY <1>2, <1>3, <1>4, <2>1, <2>2 DEF Takes
<1>. QED BY <1>4, <1>5, <1>6, <1>7, <1>8, <1>9 DEF Authenticating

LEMMA AuthenticatedTakes ==
  ASSUME NEW C, NEW S, NEW w \in Seq(Units), NEW v \in Seq(Units), Authenticated(C, S, w, v)
  PROVE  Takes(C, S, w, v)
<1>1. Len(w) \in Nat /\ Len(v) \in Nat
  BY LenProperties
<1>2. ClientTakes(C.st, w)
  <2>1. CASE C.st = "auth_initiated"
    BY <1>1, <2>1 DEF Authenticated, ClientTakes, Empty, AllFrom, NoneFrom, Starts, Has, FeatureKinds, MessageKinds
  <2>2. CASE C.st = "auth_awaiting_features"
    BY <1>1, <2>2 DEF Authenticated, ClientTakes, Empty, AllFrom, NoneFrom, Starts, Has, FeatureKinds, MessageKinds
  <2>3. CASE C.st = "ready"
    BY <1>1, <2>3 DEF Authenticated, ClientTakes, Empty, AllFrom, NoneFrom, Starts, Has, FeatureKinds, MessageKinds
  <2>. QED BY <2>1, <2>2, <2>3 DEF Authenticated
<1>3. ServerTakes(S.st, S.sasl = "busy", v)
  <2>1. CASE S.st = "auth_connected"
    BY <1>1, <2>1 DEF Authenticated, ServerTakes, Empty, AllFrom, NoneFrom, Starts, Has, MessageKinds
  <2>2. CASE S.st = "ready"
    BY <1>1, <2>2 DEF Authenticated, ServerTakes, Empty, AllFrom, NoneFrom, Starts, Has, MessageKinds
  <2>. QED BY <2>1, <2>2 DEF Authenticated
<1>4. /\ Len(v) > 0 => v[Len(v)].k \notin Answered
      /\ Len(v) = 0 => S.st = "ready"
  BY <1>1 DEF Authenticated, Empty, AllFrom, MessageKinds, Answered
<1>. QED BY <1>2, <1>3, <1>4 DEF Authenticated, Takes

LEMMA PhaseTakes ==
  ASSUME NEW C, NEW S, NEW w \in Seq(Units), NEW v \in Seq(Units), C.sasl \in {"none", "idle", "busy"},
         InPhase(C, S, w, v)
  PROVE  Takes(C, S, w, v)
BY OpeningTakes, EncryptingTakes, AuthenticatingTakes, AuthenticatedTakes DEF InPhase

(***************************************************************************)
(* The steps that close an end                                             *)
(***************************************************************************)
\* The invariant of the two ends, without their queues.
Sides(C, S, w, v) ==
  /\ C \in Ends /\ S \in Ends /\ C.site = "client" /\ S.site = "server" /\ EndOK(C) /\ EndOK(S)
  /\ w \in Seq(Units) /\ v \in Seq(Units) /\ JointOf(C, S, w, v) /\ PolicyOf(C, S, w, v)

\* The end goes on, or it closes.
Result(X, Y) == \E ks \in Seq(Kinds) : Goes(X, Y, ks) \/ Closes(X, Y, ks)

LEMMA ClosingKeeps ==
  ASSUME NEW X, NEW Y, NEW ks, Closes(X, Y, ks)
  PROVE  ClientKeeps(X, Y) /\ ServerKeeps(X, Y) /\ ~IsOpen(Y) /\ Y.site = X.site
<1>1. Y.policy = X.policy /\ Y.site = X.site /\ (Y.tls => X.tls) /\ Y.st \in {"closed", "closing_stream", "closing_gnutls"}
  BY DEF Closes, SameSetup, Closing
<1>. QED
  BY <1>1 DEF ClientKeeps, ServerKeeps, ClientEarly, ClientPast, ServerPast, IsOpen, Over, Closing

LEMMA Keeps ==
  ASSUME NEW X
  PROVE  ClientKeeps(X, X) /\ ServerKeeps(X, X)
BY DEF ClientKeeps, ServerKeeps

LEMMA EndQuiet == \A k \in EndKinds : k \in Quiet
BY DEF EndKinds, Quiet, Kinds

LEMMA ClientCloses ==
  ASSUME NEW C, NEW D, NEW S, NEW w, NEW v, NEW w2 \in Seq(Units), NEW v2 \in Seq(Units), Sides(C, S, w, v),
         IsOpen(C), OwnWord(C, D, v, v2), Fewer(w, w2),
         \/ ClosesWell(C, D)
         \/ ClosesLate(C, D) /\ (C.sasl = "busy" \/ (Len(w) > 0 /\ w[1].k = "failure")),
         C.tcp # "connecting" \/ D.st = "closed"
  PROVE  Sides(D, S, w2, v2) /\ Result(C, D)
<1>1. /\ C \in Ends /\ S \in Ends /\ C.site = "client" /\ S.site = "server" /\ EndOK(C) /\ EndOK(S)
      /\ w \in Seq(Units) /\ v \in Seq(Units) /\ JointOf(C, S, w, v) /\ PolicyOf(C, S, w, v)
  BY DEF Sides
<1>2. PICK ks \in Seq(Kinds) :
        /\ Closes(C, D, ks)
        /\ \A i \in 1..Len(ks) : ks[i] \in EndKinds
        /\ C.st \in {"connecting", "connected", "encryption_requested", "handshaking"} => ks \in {<<>>, <<"bye">>}
        /\ C.st = "authenticating" => \/ Len(ks) = 0 \/ ks[1] = "abort"
                                     \/ C.sasl = "busy" \/ (Len(w) > 0 /\ w[1].k = "failure")
  BY <1>1 DEF ClosesWell, ClosesLate
<1>3. EndOK(D) /\ D \in Ends /\ ~IsOpen(D) /\ D.site = "client" /\ ClientKeeps(C, D)
  <2>1. C.st # "closed"
    BY DEF IsOpen, Over
  <2>. QED BY <1>1, <1>2, <2>1, ClosesOK, ClosingKeeps
<1>4. v2 = v \o Control(ks) \/ Cut(v, v2)
  BY <1>2 DEF OwnWord
<1>5. PolicyOf(D, S, w2, v2)
  <2>1. Fewer(v, v2)
    BY <1>1, <1>2, <1>4, FewerWords, EndQuiet
  <2>. QED BY <1>1, <1>3, <2>1, PolicyKept, Keeps
<1>6. ASSUME IsOpen(S) PROVE ServerTakes(S.st, S.sasl = "busy", v2)
  <2>1. Takes(C, S, w, v)
    <3>1. C.sasl \in {"none", "idle", "busy"} /\ InPhase(C, S, w, v)
      BY <1>1, <1>6, EndFields DEF JointOf
    <3>. QED BY <1>1, <3>1, PhaseTakes
  <2>2. ServerTakes(S.st, S.sasl = "busy", v)
    BY <2>1 DEF Takes
  <2>3. CASE Bye(v, v2)
    BY <1>1, <2>2, <2>3, ServerTakesBye
  <2>4. CASE v2 = v \o Control(ks) /\ ks \notin {<<>>, <<"bye">>}
    <3>1. Ext(v, v2) /\ (Len(ks) = 0 \/ ks[1] = "abort" => Soft(v, v2))
      BY <1>1, <1>2, <2>4, ExtWord
    <3>2. C.st \notin {"connecting", "connected", "encryption_requested", "handshaking"}
      BY <1>2, <2>4
    <3>3. CASE Len(ks) = 0 \/ ks[1] = "abort"
      BY <1>1, <1>2, <2>2, <3>1, <3>3, ServerTakesExt
    <3>4. CASE C.st = "authenticating" => C.sasl = "busy" \/ (Len(w) > 0 /\ w[1].k = "failure")
      <4>1. /\ Len(v) > 0 => v[Len(v)].k \notin Answered
            /\ Len(v) = 0 => S.st \notin {"connected", "auth_connected"} /\ ~(S.st = "authenticating" /\ S.sasl = "busy")
        BY <2>1, <3>2, <3>4 DEF Takes
      <4>. QED BY <1>1, <2>2, <3>1, <4>1, ServerTakesExt
    <3>. QED BY <1>2, <3>3, <3>4
  <2>5. ks \in {<<>>, <<"bye">>} => Bye(v, v \o Control(ks))
    BY <1>1, ByeWord
  <2>. QED BY <1>4, <2>3, <2>4, <2>5 DEF Bye
<1>7. JointOf(D, S, w2, v2)
  BY <1>3, <1>6 DEF JointOf
<1>. QED BY <1>1, <1>2, <1>3, <1>5, <1>7 DEF Sides, Result

LEMMA ServerCloses ==
  ASSUME NEW C, NEW S, NEW T, NEW w, NEW v, NEW w2 \in Seq(Units), NEW v2 \in Seq(Units), Sides(C, S, w, v),
         IsOpen(S), ClosesWell(S, T), OwnWord(S, T, w, w2), Fewer(v, v2)
  PROVE  Sides(C, T, w2, v2) /\ Result(S, T)
<1>1. /\ C \in Ends /\ S \in Ends /\ C.site = "client" /\ S.site = "server" /\ EndOK(C) /\ EndOK(S)
      /\ w \in Seq(Units) /\ v \in Seq(Units) /\ JointOf(C, S, w, v) /\ PolicyOf(C, S, w, v)
  BY DEF Sides
<1>2. PICK ks \in Seq(Kinds) :
        /\ Closes(S, T, ks)
        /\ \A i \in 1..Len(ks) : ks[i] \in EndKinds
        /\ S.st \in {"connected", "auth_connected"} => ks \in {<<>>, <<"bye">>}
  BY <1>1 DEF ClosesWell
<1>3. EndOK(T) /\ T \in Ends /\ ~IsOpen(T) /\ T.site = "server" /\ ServerKeeps(S, T)
  <2>1. S.st # "closed" /\ S.tcp # "connecting"
    BY <1>1 DEF IsOpen, Over, EndOK, ServerStates, Closing
  <2>. QED BY <1>1, <1>2, <2>1, ClosesOK, ClosingKeeps
<1>4. w2 = w \o Control(ks) \/ Cut(w, w2)
  BY <1>2 DEF OwnWord
<1>5. PolicyOf(C, T, w2, v2)
  <2>1. Fewer(w, w2)
    BY <1>1, <1>2, <1>4, FewerWords, EndQuiet
  <2>. QED BY <1>1, <1>3, <2>1, PolicyKept, Keeps
<1>6. ASSUME IsOpen(C) PROVE ClientTakes(C.st, w2)
  <2>1. Takes(C, S, w, v)
    <3>1. C.sasl \in {"none", "idle", "busy"} /\ InPhase(C, S, w, v)
      BY <1>1, <1>6, EndFields DEF JointOf
    <3>. QED BY <1>1, <3>1, PhaseTakes
  <2>2. ClientTakes(C.st, w)
    BY <2>1 DEF Takes
  <2>3. CASE Bye(w, w2)
    BY <1>1, <2>2, <2>3, ClientTakesBye
  <2>4. CASE w2 = w \o Control(ks) /\ ks \notin {<<>>, <<"bye">>}
    <3>1. Ext(w, w2)
      BY <1>1, <1>2, <2>4, ExtWord
    <3>2. C.st \notin {"connecting", "connected"} /\ (C.st = "handshaking" => NoneFrom(w, 1, {"done"}))
      BY <1>2, <2>1, <2>4 DEF Takes
    <3>. QED BY <1>1, <2>2, <3>1, <3>2, ClientTakesExt
  <2>5. ks \in {<<>>, <<"bye">>} => Bye(w, w \o Control(ks))
    BY <1>1, ByeWord
  <2>. QED BY <1>4, <2>3, <2>4, <2>5 DEF Bye
<1>7. JointOf(C, T, w2, v2)
  BY <1>3, <1>6 DEF JointOf
<1>. QED BY <1>1, <1>2, <1>3, <1>5, <1>7 DEF Sides, Result

\* The server refuses the certificate when the handshake is over: it has sent its last flight.
Refuses(S, T) == \E ks \in {<<>>, <<"bye">>} : Closes(S, T, <<"done">> \o ks)

LEMMA ServerRefuses ==
  ASSUME NEW C, NEW S, NEW T, NEW w, NEW v, NEW w2 \in Seq(Units), NEW v2 \in Seq(Units), Sides(C, S, w, v),
         S.st = "handshaking", Len(v) > 0, v[1].k = "finished",
         Refuses(S, T), OwnWord(S, T, w, w2), Fewer(v, v2)
  PROVE  Sides(C, T, w2, v2) /\ Result(S, T)
<1>0. PICK ks \in {<<>>, <<"bye">>} : Closes(S, T, <<"done">> \o ks)
  BY DEF Refuses
<1>. USE <1>0
<1>1. /\ C \in Ends /\ S \in Ends /\ C.site = "client" /\ S.site = "server" /\ EndOK(C) /\ EndOK(S)
      /\ w \in Seq(Units) /\ v \in Seq(Units) /\ JointOf(C, S, w, v) /\ PolicyOf(C, S, w, v)
  BY DEF Sides
<1>. DEFINE all == <<"done">> \o ks
<1>2. "done" \in Kinds /\ "bye" \in Kinds /\ "done" \in Quiet /\ "bye" \in Quiet
  BY DEF Kinds, Quiet
<1>3. /\ all \in Seq(Kinds) /\ \A i \in 1..Len(all) : all[i] \in {"done", "bye"}
      /\ all = <<"done">> \/ all = <<"done">> \o <<"bye">>
  <2>. DEFINE d == <<"done">>
  <2>1. d \in Seq(Kinds) /\ Len(d) = 1 /\ d[1] = "done"
    BY <1>2, Tuples
  <2>2. ks \in Seq(Kinds) /\ \A i \in 1..Len(ks) : ks[i] \in {"done", "bye"}
    <3>. DEFINE b == <<"bye">>
                n == <<>>
    <3>1. /\ b \in Seq(Kinds) /\ Len(b) = 1 /\ b[1] = "bye"
          /\ n \in Seq(Kinds) /\ Len(n) = 0 /\ ks \in {n, b}
      BY <1>2, Tuples
    <3>. HIDE DEF b, n
    <3>2. \A i \in 1..Len(b) : b[i] \in {"done", "bye"}
      BY <3>1
    <3>3. \A i \in 1..Len(n) : n[i] \in {"done", "bye"}
      BY <3>1
    <3>. QED BY <3>1, <3>2, <3>3
  <2>. HIDE DEF d
  <2>3. \A i \in 1..Len(d) : d[i] \in {"done", "bye"}
    BY <2>1
  <2>4. d \o ks \in Seq(Kinds) /\ \A i \in 1..Len(d \o ks) : (d \o ks)[i] \in {"done", "bye"}
    BY <2>1, <2>2, <2>3, ConcatKinds, ConcatAll
  <2>5. ks = <<>> => d \o ks = d
    BY <2>1, ConcatEmptySeq
  <2>. QED BY <2>4, <2>5 DEF d
<1>4. EndOK(T) /\ T \in Ends /\ ~IsOpen(T) /\ T.site = "server" /\ ServerKeeps(S, T)
  <2>1. S.st # "closed" /\ S.tcp # "connecting"
    BY <1>1 DEF EndOK
  <2>. QED BY <1>1, <2>1, ClosesOK, ClosingKeeps
<1>. HIDE DEF all
<1>5. w2 = w \o Control(all) \/ Cut(w, w2)
  BY <1>3 DEF OwnWord, all
<1>6. PolicyOf(C, T, w2, v2)
  <2>1. Fewer(w, w2)
    BY <1>1, <1>2, <1>3, <1>5, FewerWords
  <2>. QED BY <1>1, <1>4, <2>1, PolicyKept, Keeps
<1>7. ASSUME IsOpen(C) PROVE ClientTakes(C.st, w2)
  <2>1. Takes(C, S, w, v)
    <3>1. C.sasl \in {"none", "idle", "busy"} /\ InPhase(C, S, w, v)
      BY <1>1, <1>7, EndFields DEF JointOf, IsOpen, Over, Closing
    <3>. QED BY <1>1, <3>1, PhaseTakes
  <2>2. ClientTakes(C.st, w) /\ C.st = "handshaking" /\ Len(w) = 0
    BY <2>1 DEF Takes
  <2>3. CASE Cut(w, w2)
    BY <1>1, <2>2, <2>3, ClientTakesBye DEF Bye
  <2>4. CASE w2 = w \o Control(<<"done">>)
    <3>1. One(w, w2, "done")
      BY <1>1, <1>2, <2>4, WordOne
    <3>2. Len(w2) = 1 /\ w2[1].k = "done"
      BY <2>2, <3>1 DEF One
    <3>. QED BY <2>2, <3>2 DEF ClientTakes, NoneFrom, Followed
  <2>5. CASE w2 = w \o Control(<<"done">> \o <<"bye">>)
    <3>1. Two(w, w2, "done", "bye")
      BY <1>1, <1>2, <2>5, WordTwo
    <3>2. Len(w2) = 2 /\ w2[1].k = "done" /\ w2[2].k = "bye"
      BY <2>2, <3>1 DEF Two
    <3>. QED BY <2>2, <3>2 DEF ClientTakes, NoneFrom, Followed
  <2>. QED BY <1>3, <1>5, <2>3, <2>4, <2>5
<1>8. JointOf(C, T, w2, v2)
  BY <1>4, <1>7 DEF JointOf
<1>. QED BY <1>1, <1>3, <1>4, <1>6, <1>8 DEF Sides, Result, all

\* An end that is closing says nothing but "bye".
LEMMA ClosingGoesOn ==
  ASSUME NEW X \in Ends, NEW Y, NEW a \in Seq(Units), NEW b \in Seq(Units), EndOK(X), X.st \in Closing,
         NEW ks \in {<<>>, <<"bye">>}, Closes(X, Y, ks), OwnWord(X, Y, a, b)
  PROVE  /\ EndOK(Y) /\ Y \in Ends /\ ~IsOpen(Y) /\ Y.site = X.site /\ Result(X, Y) /\ Bye(a, b) /\ Fewer(a, b)
         /\ ClientKeeps(X, Y) /\ ServerKeeps(X, Y)
<1>1. ks \in Seq(Kinds) /\ Bye(a, a \o Control(ks)) /\ (b = a \o Control(ks) \/ Cut(a, b))
  BY ByeWord DEF OwnWord
<1>2. EndOK(Y) /\ Y \in Ends /\ ~IsOpen(Y)
  <2>1. X.st # "closed" /\ X.tcp # "connecting"
    BY DEF EndOK, Closing
  <2>. QED BY <2>1, ClosesOK
<1>3. Bye(a, b)
  BY <1>1 DEF Bye
<1>4. Fewer(a, b)
  <2>1. "bye" \in Quiet
    BY DEF Quiet, Kinds
  <2>. QED BY <1>3, <2>1, FewerWords DEF Bye
<1>. QED BY <1>1, <1>2, <1>3, <1>4, ClosingKeeps DEF Result

LEMMA ClientGoesOn ==
  ASSUME NEW C, NEW D, NEW S, NEW w, NEW v, NEW w2 \in Seq(Units), NEW v2 \in Seq(Units), Sides(C, S, w, v),
         C.st \in Closing, NEW ks \in {<<>>, <<"bye">>}, Closes(C, D, ks), OwnWord(C, D, v, v2), Fewer(w, w2)
  PROVE  Sides(D, S, w2, v2) /\ Result(C, D)
<1>1. /\ C \in Ends /\ S \in Ends /\ C.site = "client" /\ S.site = "server" /\ EndOK(C) /\ EndOK(S)
      /\ w \in Seq(Units) /\ v \in Seq(Units) /\ JointOf(C, S, w, v) /\ PolicyOf(C, S, w, v)
  BY DEF Sides
<1>2. /\ EndOK(D) /\ D \in Ends /\ ~IsOpen(D) /\ D.site = "client" /\ Result(C, D) /\ Bye(v, v2) /\ Fewer(v, v2)
      /\ ClientKeeps(C, D)
  BY <1>1, ClosingGoesOn
<1>3. PolicyOf(D, S, w2, v2)
  BY <1>1, <1>2, PolicyKept, Keeps
<1>4. IsOpen(S) => ServerTakes(S.st, S.sasl = "busy", v2)
  <2>1. ~IsOpen(C)
    BY DEF IsOpen, Over
  <2>. QED BY <1>1, <1>2, <2>1, ServerTakesBye DEF JointOf
<1>. QED BY <1>1, <1>2, <1>3, <1>4 DEF Sides, JointOf

LEMMA ServerGoesOn ==
  ASSUME NEW C, NEW S, NEW T, NEW w, NEW v, NEW w2 \in Seq(Units), NEW v2 \in Seq(Units), Sides(C, S, w, v),
         S.st \in Closing, NEW ks \in {<<>>, <<"bye">>}, Closes(S, T, ks), OwnWord(S, T, w, w2), Fewer(v, v2)
  PROVE  Sides(C, T, w2, v2) /\ Result(S, T)
<1>1. /\ C \in Ends /\ S \in Ends /\ C.site = "client" /\ S.site = "server" /\ EndOK(C) /\ EndOK(S)
      /\ w \in Seq(Units) /\ v \in Seq(Units) /\ JointOf(C, S, w, v) /\ PolicyOf(C, S, w, v)
  BY DEF Sides
<1>2. /\ EndOK(T) /\ T \in Ends /\ ~IsOpen(T) /\ T.site = "server" /\ Result(S, T) /\ Bye(w, w2) /\ Fewer(w, w2)
      /\ ServerKeeps(S, T)
  BY <1>1, ClosingGoesOn
<1>3. PolicyOf(C, T, w2, v2)
  BY <1>1, <1>2, PolicyKept, Keeps
<1>4. IsOpen(C) => ClientTakes(C.st, w2)
  <2>1. ~IsOpen(S)
    BY DEF IsOpen, Over
  <2>. QED BY <1>1, <1>2, <2>1, ClientTakesBye DEF JointOf
<1>. QED BY <1>1, <1>2, <1>3, <1>4 DEF Sides, JointOf

(***************************************************************************)
(* What the client reads                                                   *)
(***************************************************************************)
ClientReads(C, D, S, w, v, w2, v2, e, outcome) ==
  /\ Sides(C, S, w, v) /\ IsOpen(C) /\ C.tcp = "connected" /\ e \in Units
  /\ w2 \in Seq(Units) /\ v2 \in Seq(Units) /\ Shifted(w, w2) /\ w[1] = e
  /\ D = Receive(C, e, outcome) /\ OwnWord(C, D, v, v2)

ClientReading(C, D, S, w, v, w2, v2, e, outcome) ==
  /\ Sides(C, S, w, v) /\ Fresh(C) /\ C.site = "client" /\ e \in Units /\ D = Receive(C, e, outcome)
  /\ w \in Seq(Units) /\ v \in Seq(Units) /\ w2 \in Seq(Units) /\ v2 \in Seq(Units)
  /\ Len(w) \in Nat /\ Len(v) \in Nat /\ Len(w2) \in Nat /\ Len(v2) \in Nat
  /\ Len(w) > 0 /\ Len(w2) = Len(w) - 1 /\ \A i \in 1..Len(w2) : w2[i] = w[i + 1]
  /\ w[1] = e /\ Shifted(w, w2) /\ Fewer(w, w2) /\ OwnWord(C, D, v, v2) /\ PolicyOf(C, S, w, v)
  /\ C.policy \in Policies /\ C.sasl \in {"none", "idle", "busy"} /\ C.tls \in BOOLEAN
  /\ IsOpen(S) => InPhase(C, S, w, v)
  /\ ~IsOpen(S) => ClientTakes(C.st, w)
  /\ C.st # "connected" => ~C.wait
  /\ C.st # "authenticating" => C.sasl = "none"
  /\ C.st = "encryption_requested" => ~C.tls
  /\ C.st = "handshaking" => C.tls
  /\ IsOpen(C) /\ C.tcp = "connected"

LEMMA ClientReadFacts ==
  ASSUME NEW C, NEW D, NEW S, NEW w, NEW v, NEW w2, NEW v2, NEW e, NEW outcome,
         ClientReads(C, D, S, w, v, w2, v2, e, outcome)
  PROVE  ClientReading(C, D, S, w, v, w2, v2, e, outcome)
<1>1. /\ C \in Ends /\ C.site = "client" /\ EndOK(C) /\ w \in Seq(Units) /\ v \in Seq(Units)
      /\ w2 \in Seq(Units) /\ v2 \in Seq(Units) /\ IsOpen(C) /\ C.tcp = "connected" /\ Shifted(w, w2)
      /\ JointOf(C, S, w, v) /\ PolicyOf(C, S, w, v)
  BY DEF ClientReads, Sides
<1>2. Len(w) \in Nat /\ Len(v) \in Nat /\ Len(w2) \in Nat /\ Len(v2) \in Nat
  BY <1>1, LenProperties
<1>3. Fresh(C)
  BY <1>1 DEF Fresh
<1>4. Fewer(w, w2)
  BY <1>1, FewerWords
<1>5. C.policy \in Policies /\ C.sasl \in {"none", "idle", "busy"} /\ C.tls \in BOOLEAN
  BY <1>1, EndFields
<1>6. (IsOpen(S) => InPhase(C, S, w, v)) /\ (~IsOpen(S) => ClientTakes(C.st, w))
  BY <1>1 DEF JointOf
<1>7. /\ (C.st # "connected" => ~C.wait) /\ (C.st # "authenticating" => C.sasl = "none")
      /\ (C.st = "encryption_requested" => ~C.tls) /\ (C.st = "handshaking" => C.tls)
  BY <1>1 DEF EndOK
<1>. QED BY <1>1, <1>2, <1>3, <1>4, <1>5, <1>6, <1>7 DEF ClientReads, Shifted, ClientReading

\* What holds of a word holds of its rest.
LEMMA ShiftHas ==
  ASSUME NEW a, NEW b, Len(a) \in Nat, Len(b) \in Nat, Shifted(a, b), NEW k, Has(b, k)
  PROVE  Has(a, k)
<1>1. PICK i \in 1..Len(b) : b[i].k = k
  BY DEF Has
<1>2. i + 1 \in 1..Len(a) /\ a[i + 1].k = k
  BY <1>1 DEF Shifted
<1>. QED BY <1>2 DEF Has

LEMMA ShiftNone ==
  ASSUME NEW a, NEW b, Len(a) \in Nat, Len(b) \in Nat, Shifted(a, b), NEW ks
  PROVE  /\ NoneFrom(a, 1, ks) => NoneFrom(b, 1, ks)
         /\ NoneFrom(a, 2, ks) => NoneFrom(b, 1, ks)
<1>1. ASSUME NEW i \in 1..Len(b) PROVE i + 1 \in 2..Len(a) /\ i + 1 \in 1..Len(a) /\ b[i] = a[i + 1]
  BY DEF Shifted
<1>. QED BY <1>1 DEF NoneFrom

LEMMA ShiftAll ==
  ASSUME NEW a, NEW b, Len(a) \in Nat, Len(b) \in Nat, Shifted(a, b), NEW ks
  PROVE  /\ All(a, ks) => All(b, ks)
         /\ AllFrom(a, 1, ks) => AllFrom(b, 1, ks)
         /\ AllFrom(a, 2, ks) => AllFrom(b, 1, ks)
         /\ AllFrom(a, 3, ks) => AllFrom(b, 2, ks)
<1>1. ASSUME NEW i \in 1..Len(b) PROVE i + 1 \in 2..Len(a) /\ i + 1 \in 1..Len(a) /\ b[i] = a[i + 1]
  BY DEF Shifted
<1>2. ASSUME NEW i \in 2..Len(b) PROVE i + 1 \in 3..Len(a) /\ b[i] = a[i + 1]
  BY DEF Shifted
<1>. QED BY <1>1, <1>2 DEF All, AllFrom

LEMMA ShiftFollowed ==
  ASSUME NEW a, NEW b, Len(a) \in Nat, Len(b) \in Nat, Shifted(a, b), NEW ks, NEW by
  PROVE  /\ Followed(a, 1, ks, by) => Followed(b, 1, ks, by)
         /\ Followed(a, 2, ks, by) => Followed(b, 1, ks, by)
<1>1. ASSUME NEW i \in 1..Len(b) - 1
      PROVE  /\ i + 1 \in 2..Len(a) - 1 /\ i + 1 \in 1..Len(a) - 1 /\ b[i] = a[i + 1]
             /\ b[i + 1] = a[(i + 1) + 1]
  BY DEF Shifted
<1>. QED BY <1>1 DEF Followed

\* The end goes on, and has sent nothing, one unit or two.
Continues(X, Y) == \E ks \in Seq(Kinds) : Goes(X, Y, ks)

IsSilent(X, Y) == Goes(X, Y, <<>>)
Says(X, Y, k) == Goes(X, Y, <<k>>)
SaysBoth(X, Y, j, k) == Goes(X, Y, <<j>> \o <<k>>)

LEMMA SaysNothing ==
  ASSUME NEW X, NEW Y, NEW a \in Seq(Units), NEW b, OwnWord(X, Y, a, b), IsSilent(X, Y)
  PROVE  Continues(X, Y) /\ Y.policy = X.policy /\ Y.site = X.site /\ b = a
<1>. DEFINE ks == <<>>
<1>1. ks \in Seq(Kinds) /\ Goes(X, Y, ks) /\ a \o Control(ks) = a
  BY Tuples, WordNone DEF IsSilent
<1>. HIDE DEF ks
<1>. QED BY <1>1 DEF Continues, OwnWord, Goes, SameSetup

LEMMA SaysOne ==
  ASSUME NEW X, NEW Y, NEW a \in Seq(Units), NEW b, OwnWord(X, Y, a, b), NEW k \in Kinds, Says(X, Y, k)
  PROVE  Continues(X, Y) /\ Y.policy = X.policy /\ Y.site = X.site /\ b \in Seq(Units) /\ One(a, b, k)
<1>. DEFINE ks == <<k>>
            c == a \o Control(ks)
<1>1. ks \in Seq(Kinds) /\ Goes(X, Y, ks) /\ c \in Seq(Units) /\ One(a, c, k)
  BY Tuples, WordOne DEF Says
<1>. HIDE DEF ks
<1>2. b = c
  BY <1>1 DEF OwnWord
<1>. QED BY <1>1, <1>2 DEF Continues, Goes, SameSetup

LEMMA SaysTwo ==
  ASSUME NEW X, NEW Y, NEW a \in Seq(Units), NEW b, OwnWord(X, Y, a, b), NEW j \in Kinds, NEW k \in Kinds,
         SaysBoth(X, Y, j, k)
  PROVE  Continues(X, Y) /\ Y.policy = X.policy /\ Y.site = X.site /\ b \in Seq(Units) /\ Two(a, b, j, k)
<1>. DEFINE ks == <<j>> \o <<k>>
            c == a \o Control(ks)
<1>1. ks \in Seq(Kinds)
  <2>. DEFINE p == <<j>>
              q == <<k>>
  <2>1. p \in Seq(Kinds) /\ q \in Seq(Kinds)
    BY Tuples
  <2>. HIDE DEF p, q
  <2>2. p \o q \in Seq(Kinds)
    BY <2>1, ConcatKinds
  <2>. QED BY <2>2 DEF p, q
<1>2. Goes(X, Y, ks) /\ c \in Seq(Units) /\ Two(a, c, j, k)
  BY WordTwo DEF SaysBoth
<1>. HIDE DEF ks
<1>3. b = c
  BY <1>1, <1>2 DEF OwnWord
<1>. QED BY <1>1, <1>2, <1>3 DEF Continues, Goes, SameSetup

\* An open end that goes on is well.
LEMMA ContinuesOK ==
  ASSUME NEW X, NEW Y, X \in Ends, EndOK(X), IsOpen(X), Continues(X, Y),
         Y.st \in (IF X.site = "client" THEN ClientStates ELSE ServerStates),
         Y.st = "connecting" <=> X.tcp = "connecting",
         Y.sasl # "none" => Y.st = "authenticating",
         Y.wait => Y.st = "connected" /\ Y.tls /\ X.site = "client",
         Y.st = "encryption_requested" => ~Y.tls, Y.st = "handshaking" => Y.tls
  PROVE  EndOK(Y) /\ Y \in Ends /\ IsOpen(Y) /\ Result(X, Y) /\ Y.site = X.site
<1>1. PICK ks \in Seq(Kinds) : Goes(X, Y, ks)
  BY DEF Continues
<1>2. Y.st \notin Over
  BY DEF ClientStates, ServerStates, Over, Closing
<1>3. X.st \notin Over /\ ~X.nested /\ ~X.bad /\ X.tcp # "closed" /\ (X.site = "server" => ~X.verifies)
  BY DEF EndOK, IsOpen, Over
<1>4. /\ Y \in Ends /\ Y.site = X.site /\ Y.verifies = X.verifies /\ ~Y.bad /\ Y.tcp = X.tcp /\ ~Y.nested
  BY <1>1, <1>3 DEF Goes, SameSetup
<1>. QED BY <1>1, <1>2, <1>3, <1>4 DEF EndOK, IsOpen, Over, Result

\* A step after which the client is open.
LEMMA ClientMoves ==
  ASSUME NEW C, NEW D, NEW S, NEW w, NEW v, NEW w2 \in Seq(Units), NEW v2 \in Seq(Units), Sides(C, S, w, v),
         IsOpen(C), C.tcp = "connected", Continues(C, D), D.st \in ClientStates \ {"connecting"},
         D.sasl # "none" => D.st = "authenticating", D.wait => D.st = "connected" /\ D.tls,
         D.st = "encryption_requested" => ~D.tls, D.st = "handshaking" => D.tls,
         PolicyOf(D, S, w2, v2), IsOpen(S) => InPhase(D, S, w2, v2), ~IsOpen(S) => ClientTakes(D.st, w2)
  PROVE  Sides(D, S, w2, v2) /\ Result(C, D)
<1>1. /\ C \in Ends /\ S \in Ends /\ C.site = "client" /\ S.site = "server" /\ EndOK(C) /\ EndOK(S)
  BY DEF Sides
<1>2. EndOK(D) /\ D \in Ends /\ IsOpen(D) /\ D.site = "client" /\ Result(C, D)
  BY <1>1, ContinuesOK
<1>. QED BY <1>1, <1>2 DEF Sides, JointOf

LEMMA ClientReadsStream ==
  ASSUME NEW C, NEW D, NEW S, NEW w, NEW v, NEW w2, NEW v2, NEW e, NEW outcome,
         ClientReads(C, D, S, w, v, w2, v2, e, outcome), C.st = "initiated"
  PROVE  Sides(D, S, w2, v2) /\ Result(C, D)
<1>0. ClientReading(C, D, S, w, v, w2, v2, e, outcome)
  BY ClientReadFacts
<1>1. /\ Sides(C, S, w, v) /\ Fresh(C) /\ C.site = "client" /\ e \in Units /\ D = Receive(C, e, outcome)
      /\ w \in Seq(Units) /\ v \in Seq(Units) /\ w2 \in Seq(Units) /\ v2 \in Seq(Units)
      /\ Len(w) \in Nat /\ Len(v) \in Nat /\ Len(w2) \in Nat /\ Len(v2) \in Nat
      /\ Len(w) > 0 /\ Len(w2) = Len(w) - 1 /\ \A i \in 1..Len(w2) : w2[i] = w[i + 1]
      /\ w[1] = e /\ Fewer(w, w2) /\ OwnWord(C, D, v, v2) /\ PolicyOf(C, S, w, v)
      /\ IsOpen(S) => InPhase(C, S, w, v)
      /\ ~IsOpen(S) => ClientTakes(C.st, w)
      /\ ~C.wait /\ C.sasl = "none" /\ IsOpen(C) /\ C.tcp = "connected"
  BY <1>0 DEF ClientReading
<1>2. CASE e.k = "stream"
  <2>1. Reaches(C, D, <<>>, "awaiting_features", C.tls, C.sasl, C.wait)
    BY <1>1, <1>2, ReadInitiated
  <2>2. /\ D.st = "awaiting_features" /\ D.tls = C.tls /\ D.sasl = "none" /\ ~D.wait
        /\ IsSilent(C, D)
    BY <1>1, <2>1 DEF Reaches, IsSilent
  <2>3. Continues(C, D) /\ D.policy = C.policy /\ v2 = v
    BY <1>1, <2>2, SaysNothing
  <2>5. PolicyOf(D, S, w2, v2)
    <3>1. ClientKeeps(C, D)
      BY <2>2, <2>3 DEF ClientKeeps, ClientPast, ClientEarly
    <3>2. PolicyOf(C, S, w, v) /\ Fewer(v, v2)
      BY <1>1, <2>3, FewerWords DEF Sides
    <3>. QED BY <1>1, <3>1, <3>2, PolicyKept, Keeps
  <2>6. ASSUME IsOpen(S) PROVE InPhase(D, S, w2, v2)
    <3>1. Opening1(C, S, w, v)
      BY <1>1, <2>6 DEF InPhase, Encrypting, Authenticating, Authenticated
    <3>2. /\ S.st = "initiated" /\ Empty(v) /\ SameTls(C, S) /\ Len(w) = 2 /\ w[2].k \in FeatureKinds
      BY <1>1, <1>2, <3>1 DEF Opening1, Empty
    <3>3. Len(w2) = 1 /\ w2[1] = w[2]
      BY <1>1, <3>2
    <3>. QED BY <2>2, <2>3, <3>2, <3>3 DEF InPhase, Opening1, Only, SameTls
  <2>7. ASSUME ~IsOpen(S) PROVE ClientTakes("awaiting_features", w2)
    <3>1. NoneFrom(w, 2, {"stream", "half", "msg", "done"})
      BY <1>1, <1>2, <2>7 DEF ClientTakes, Starts
    <3>2. NoneFrom(w2, 1, {"stream", "half", "msg", "done"})
      BY <1>1, <3>1 DEF NoneFrom
    <3>. QED BY <3>2 DEF ClientTakes
  <2>8. "awaiting_features" \in ClientStates \ {"connecting"}
    BY DEF ClientStates
  <2>9. ClientTakes(D.st, w2) \/ IsOpen(S)
    BY <2>2, <2>7
  <2>. QED BY <1>1, <2>2, <2>3, <2>5, <2>6, <2>8, <2>9, ClientMoves
<1>3. CASE e.k # "stream"
  <2>1. e.k # "half"
    <3>1. CASE IsOpen(S)
      <4>1. Opening1(C, S, w, v)
        BY <1>1, <3>1 DEF InPhase, Encrypting, Authenticating, Authenticated
      <4>. QED BY <1>1, <4>1 DEF Opening1, Empty
    <3>2. CASE ~IsOpen(S)
      BY <1>1, <3>2 DEF ClientTakes
    <3>. QED BY <3>1, <3>2
  <2>2. ClosesWell(C, D)
    BY <1>1, <1>3, <2>1, ReadInitiated
  <2>. QED BY <1>1, <2>2, ClientCloses
<1>. QED BY <1>2, <1>3

\* An element that the client ignores.
LEMMA ClientIgnores ==
  ASSUME NEW C, NEW D, NEW S, NEW w, NEW v, NEW w2, NEW v2, NEW e, NEW outcome,
         ClientReading(C, D, S, w, v, w2, v2, e, outcome), Same(C, D), C.st # "connecting",
         IsOpen(S) => InPhase(C, S, w2, v), ~IsOpen(S) => ClientTakes(C.st, w2)
  PROVE  Sides(D, S, w2, v2) /\ Result(C, D)
<1>1. /\ D.st = C.st /\ D.tls = C.tls /\ D.sasl = C.sasl /\ D.wait = C.wait /\ IsSilent(C, D)
  BY DEF Same, Reaches, IsSilent
<1>2. /\ Sides(C, S, w, v) /\ w \in Seq(Units) /\ v \in Seq(Units) /\ w2 \in Seq(Units) /\ v2 \in Seq(Units)
      /\ Fewer(w, w2) /\ OwnWord(C, D, v, v2) /\ IsOpen(C) /\ C.tcp = "connected" /\ PolicyOf(C, S, w, v)
  BY DEF ClientReading
<1>3. Continues(C, D) /\ D.policy = C.policy /\ v2 = v
  BY <1>1, <1>2, SaysNothing
<1>4. PolicyOf(D, S, w2, v2)
  <2>1. ClientKeeps(C, D) /\ Fewer(v, v2)
    BY <1>1, <1>2, <1>3, FewerWords DEF ClientKeeps
  <2>. QED BY <1>2, <2>1, PolicyKept, Keeps
<1>5. IsOpen(S) => InPhase(D, S, w2, v2)
  BY <1>1, <1>3 DEF InPhase, Opening1, Encrypting, Authenticating, Authenticated, ServerBusy, ServerWaits,
     Failed, AsksAgain, Succeeds, SameTls
<1>6. /\ C.st \in ClientStates /\ (C.sasl # "none" => C.st = "authenticating")
      /\ (C.wait => C.st = "connected" /\ C.tls)
      /\ (C.st = "encryption_requested" => ~C.tls) /\ (C.st = "handshaking" => C.tls)
  BY <1>2 DEF Sides, EndOK, IsOpen
<1>7. ~IsOpen(S) => ClientTakes(D.st, w2)
  BY <1>1
<1>. QED BY <1>1, <1>2, <1>3, <1>4, <1>5, <1>6, <1>7, ClientMoves

LEMMA ClientReadsAuthStream ==
  ASSUME NEW C, NEW D, NEW S, NEW w, NEW v, NEW w2, NEW v2, NEW e, NEW outcome,
         ClientReads(C, D, S, w, v, w2, v2, e, outcome), C.st = "auth_initiated"
  PROVE  Sides(D, S, w2, v2) /\ Result(C, D)
<1>0. ClientReading(C, D, S, w, v, w2, v2, e, outcome)
  BY ClientReadFacts
<1>1. /\ Sides(C, S, w, v) /\ Fresh(C) /\ C.site = "client" /\ e \in Units /\ D = Receive(C, e, outcome)
      /\ w \in Seq(Units) /\ v \in Seq(Units) /\ w2 \in Seq(Units) /\ v2 \in Seq(Units)
      /\ Len(w) \in Nat /\ Len(v) \in Nat /\ Len(w2) \in Nat /\ Len(v2) \in Nat
      /\ Len(w) > 0 /\ Len(w2) = Len(w) - 1 /\ \A i \in 1..Len(w2) : w2[i] = w[i + 1]
      /\ w[1] = e /\ Shifted(w, w2) /\ Fewer(w, w2) /\ OwnWord(C, D, v, v2) /\ PolicyOf(C, S, w, v)
      /\ IsOpen(S) => InPhase(C, S, w, v)
      /\ ~IsOpen(S) => ClientTakes(C.st, w)
      /\ ~C.wait /\ C.sasl = "none" /\ IsOpen(C) /\ C.tcp = "connected"
  BY <1>0 DEF ClientReading
<1>2. IsOpen(S) => /\ S.st = "ready" /\ Empty(v) /\ Len(w) > 1 /\ w[1].k = "stream" /\ w[2].k \in FeatureKinds
                   /\ AllFrom(w, 3, MessageKinds) /\ SameTls(C, S)
  BY <1>1 DEF InPhase, Opening1, Encrypting, Authenticating, Authenticated, Empty
<1>3. CASE e.k = "stream"
  <2>1. Reaches(C, D, <<>>, "auth_awaiting_features", C.tls, C.sasl, C.wait)
    BY <1>1, <1>3, ReadInitiated
  <2>2. /\ D.st = "auth_awaiting_features" /\ D.tls = C.tls /\ D.sasl = "none" /\ ~D.wait
        /\ IsSilent(C, D)
    BY <1>1, <2>1 DEF Reaches, IsSilent
  <2>3. Continues(C, D) /\ D.policy = C.policy /\ v2 = v
    BY <1>1, <2>2, SaysNothing
  <2>4. PolicyOf(D, S, w2, v2)
    <3>1. ClientKeeps(C, D)
      BY <2>2, <2>3 DEF ClientKeeps, ClientPast, ClientEarly
    <3>2. Fewer(v, v2)
      BY <1>1, <2>3, FewerWords
    <3>. QED BY <1>1, <3>1, <3>2, PolicyKept, Keeps
  <2>5. ASSUME IsOpen(S) PROVE InPhase(D, S, w2, v2)
    <3>1. AllFrom(w2, 2, MessageKinds)
      BY <1>1, <1>2, <2>5, ShiftAll
    <3>2. Len(w2) > 0 /\ w2[1].k \in FeatureKinds
      BY <1>1, <1>2, <2>5
    <3>. QED BY <1>2, <2>2, <2>3, <2>5, <3>1, <3>2 DEF InPhase, Authenticated, SameTls
  <2>6. ASSUME ~IsOpen(S) PROVE ClientTakes(D.st, w2)
    <3>1. NoneFrom(w, 2, {"stream"}) /\ (Has(w, "msg") => Len(w) > 1 /\ w[2].k \in FeatureKinds)
      BY <1>1, <1>3, <2>6 DEF ClientTakes, Starts
    <3>2. NoneFrom(w2, 1, {"stream"}) /\ (Has(w2, "msg") => Has(w, "msg"))
      BY <1>1, <3>1, ShiftNone, ShiftHas
    <3>3. Has(w2, "msg") => Starts(w2, FeatureKinds)
      BY <1>1, <3>1, <3>2 DEF Starts
    <3>. QED BY <2>2, <3>2, <3>3 DEF ClientTakes
  <2>7. "auth_awaiting_features" \in ClientStates \ {"connecting"}
    BY DEF ClientStates
  <2>. QED BY <1>1, <2>2, <2>3, <2>4, <2>5, <2>6, <2>7, ClientMoves
<1>4. CASE e.k # "stream"
  <2>1. e.k # "half"
    BY <1>1, <1>2, <1>4 DEF ClientTakes
  <2>2. ClosesWell(C, D)
    BY <1>1, <1>4, <2>1, ReadInitiated
  <2>. QED BY <1>1, <2>2, ClientCloses
<1>. QED BY <1>3, <1>4

LEMMA ClientReadsFeatures ==
  ASSUME NEW C, NEW D, NEW S, NEW w, NEW v, NEW w2, NEW v2, NEW e, NEW outcome,
         ClientReads(C, D, S, w, v, w2, v2, e, outcome), C.st = "auth_awaiting_features"
  PROVE  Sides(D, S, w2, v2) /\ Result(C, D)
<1>0. ClientReading(C, D, S, w, v, w2, v2, e, outcome)
  BY ClientReadFacts
<1>1. /\ Sides(C, S, w, v) /\ Fresh(C) /\ C.site = "client" /\ e \in Units /\ D = Receive(C, e, outcome)
      /\ w \in Seq(Units) /\ v \in Seq(Units) /\ w2 \in Seq(Units) /\ v2 \in Seq(Units)
      /\ Len(w) \in Nat /\ Len(v) \in Nat /\ Len(w2) \in Nat /\ Len(v2) \in Nat
      /\ Len(w) > 0 /\ Len(w2) = Len(w) - 1 /\ \A i \in 1..Len(w2) : w2[i] = w[i + 1]
      /\ w[1] = e /\ Shifted(w, w2) /\ Fewer(w, w2) /\ OwnWord(C, D, v, v2) /\ PolicyOf(C, S, w, v)
      /\ IsOpen(S) => InPhase(C, S, w, v)
      /\ ~IsOpen(S) => ClientTakes(C.st, w)
      /\ ~C.wait /\ C.sasl = "none" /\ IsOpen(C) /\ C.tcp = "connected"
  BY <1>0 DEF ClientReading
<1>2. IsOpen(S) => /\ S.st = "ready" /\ Empty(v) /\ w[1].k \in FeatureKinds
                   /\ AllFrom(w, 2, MessageKinds) /\ SameTls(C, S)
  BY <1>1 DEF InPhase, Opening1, Encrypting, Authenticating, Authenticated
<1>3. ~IsOpen(S) => /\ NoneFrom(w, 1, {"stream"}) /\ NoneFrom(w2, 1, {"stream"})
                    /\ Has(w, "msg") => w[1].k \in FeatureKinds
                    /\ Has(w2, "msg") => Has(w, "msg")
  <2>1. ~IsOpen(S) => NoneFrom(w, 1, {"stream"}) /\ (Has(w, "msg") => w[1].k \in FeatureKinds)
    BY <1>1 DEF ClientTakes, Starts
  <2>2. NoneFrom(w, 1, {"stream"}) => NoneFrom(w2, 1, {"stream"})
    BY <1>1, ShiftNone
  <2>3. Has(w2, "msg") => Has(w, "msg")
    BY <1>1, ShiftHas
  <2>. QED BY <2>1, <2>2, <2>3
<1>4. CASE e.k \in FeatureKinds
  <2>1. Reaches(C, D, <<>>, "ready", C.tls, C.sasl, C.wait)
    BY <1>1, <1>4, ReadAuthAwaiting
  <2>2. /\ D.st = "ready" /\ D.tls = C.tls /\ D.sasl = "none" /\ ~D.wait /\ IsSilent(C, D)
    BY <1>1, <2>1 DEF Reaches, IsSilent
  <2>3. Continues(C, D) /\ D.policy = C.policy /\ v2 = v
    BY <1>1, <2>2, SaysNothing
  <2>4. PolicyOf(D, S, w2, v2)
    <3>1. ClientKeeps(C, D)
      BY <2>2, <2>3 DEF ClientKeeps, ClientPast, ClientEarly
    <3>2. Fewer(v, v2)
      BY <1>1, <2>3, FewerWords
    <3>. QED BY <1>1, <3>1, <3>2, PolicyKept, Keeps
  <2>5. ASSUME IsOpen(S) PROVE InPhase(D, S, w2, v2)
    <3>1. AllFrom(w2, 1, MessageKinds) /\ AllFrom(v2, 1, MessageKinds)
      BY <1>1, <1>2, <2>3, <2>5 DEF AllFrom, Empty
    <3>. QED BY <1>2, <2>2, <2>3, <2>5, <3>1 DEF InPhase, Authenticated, SameTls
  <2>6. ASSUME ~IsOpen(S) PROVE ClientTakes(D.st, w2)
    BY <1>3, <2>2, <2>6 DEF ClientTakes
  <2>7. "ready" \in ClientStates \ {"connecting"}
    BY DEF ClientStates
  <2>. QED BY <1>1, <2>2, <2>3, <2>4, <2>5, <2>6, <2>7, ClientMoves
<1>5. CASE e.k \notin FeatureKinds
  <2>1. ~IsOpen(S)
    BY <1>1, <1>2, <1>5
  <2>2. e.k # "stream" /\ e.k # "msg"
    BY <1>1, <1>3, <1>5, <2>1 DEF NoneFrom, Has
  <2>3. Same(C, D) \/ ClosesWell(C, D)
    BY <1>1, <1>5, <2>2, ReadAuthAwaiting
  <2>4. ClientTakes(C.st, w2)
    BY <1>1, <1>3, <1>5, <2>1 DEF ClientTakes
  <2>5. ClientReading(C, D, S, w, v, w2, v2, e, outcome)
    BY ClientReadFacts
  <2>6. CASE Same(C, D)
    BY <2>1, <2>4, <2>5, <2>6, ClientIgnores
  <2>7. CASE ClosesWell(C, D)
    BY <1>1, <2>7, ClientCloses
  <2>. QED BY <2>3, <2>6, <2>7
<1>. QED BY <1>4, <1>5

LEMMA ClientReadsOffer ==
  ASSUME NEW C, NEW D, NEW S, NEW w, NEW v, NEW w2, NEW v2, NEW e, NEW outcome,
         ClientReads(C, D, S, w, v, w2, v2, e, outcome), C.st = "awaiting_features"
  PROVE  Sides(D, S, w2, v2) /\ Result(C, D)
<1>0. ClientReading(C, D, S, w, v, w2, v2, e, outcome)
  BY ClientReadFacts
<1>1. /\ Sides(C, S, w, v) /\ Fresh(C) /\ C.site = "client" /\ e \in Units /\ D = Receive(C, e, outcome)
      /\ w \in Seq(Units) /\ v \in Seq(Units) /\ w2 \in Seq(Units) /\ v2 \in Seq(Units)
      /\ Len(w) \in Nat /\ Len(v) \in Nat /\ Len(w2) \in Nat /\ Len(v2) \in Nat
      /\ Len(w) > 0 /\ Len(w2) = Len(w) - 1 /\ \A i \in 1..Len(w2) : w2[i] = w[i + 1]
      /\ w[1] = e /\ Shifted(w, w2) /\ Fewer(w, w2) /\ OwnWord(C, D, v, v2) /\ PolicyOf(C, S, w, v)
      /\ IsOpen(S) => InPhase(C, S, w, v)
      /\ ~IsOpen(S) => ClientTakes(C.st, w)
      /\ C.policy \in Policies /\ C.sasl \in {"none", "idle", "busy"} /\ C.tls \in BOOLEAN
      /\ ~C.wait /\ IsOpen(C) /\ C.tcp = "connected"
  BY <1>0 DEF ClientReading

<1>2. C.sasl = "none"
  BY <1>1 DEF Fresh, EndOK
<1>3. IsOpen(S) => S.st = "initiated" /\ Empty(v) /\ Only(w, FeatureKinds) /\ SameTls(C, S)
  BY <1>1 DEF InPhase, Opening1, Encrypting, Authenticating, Authenticated
<1>4. ~IsOpen(S) => /\ NoneFrom(w, 1, {"stream", "half", "msg", "done"})
                    /\ NoneFrom(w2, 1, {"stream", "half", "msg", "done"})
  BY <1>1, ShiftNone DEF ClientTakes
<1>5. ClientReading(C, D, S, w, v, w2, v2, e, outcome)
  BY ClientReadFacts
<1>6. IsOpen(S) => Len(w2) = 0 /\ Len(v) = 0 /\ e.k \in FeatureKinds /\ S.tls = C.tls
  BY <1>1, <1>3 DEF Only, Empty, SameTls
<1>7. CASE e.k \notin FeatureKinds
  <2>1. ~IsOpen(S)
    BY <1>6, <1>7
  <2>2. e.k \notin FeatureKinds \cup {"stream", "msg"}
    BY <1>1, <1>4, <1>7, <2>1 DEF NoneFrom
  <2>3. Same(C, D) \/ ClosesWell(C, D)
    BY <1>1, <2>2, ReadAwaiting
  <2>4. ClientTakes(C.st, w2)
    BY <1>4, <2>1 DEF ClientTakes
  <2>5. CASE Same(C, D)
    BY <1>5, <2>1, <2>4, <2>5, ClientIgnores
  <2>6. CASE ClosesWell(C, D)
    BY <1>1, <2>6, ClientCloses
  <2>. QED BY <2>3, <2>5, <2>6
<1>8. CASE e.k \in FeatureKinds
  <2>1. \/ ClosesWell(C, D)
        \/ /\ Reaches(C, D, <<"starttls">>, "encryption_requested", C.tls, C.sasl, C.wait)
           /\ ~C.tls /\ C.policy # "only_unsecured"
        \/ /\ Reaches(C, D, <<"auth">>, "authenticating", C.tls, "idle", C.wait)
           /\ ~C.tls => /\ e.k \in {"features", "features_tls"}
                        /\ C.policy # "only_tls"
    BY <1>1, <1>8, ReadAwaiting
  <2>2. CASE ClosesWell(C, D)
    BY <1>1, <2>2, ClientCloses
  <2>3. CASE /\ Reaches(C, D, <<"starttls">>, "encryption_requested", C.tls, C.sasl, C.wait)
             /\ ~C.tls /\ C.policy # "only_unsecured"
    <3>1. /\ D.st = "encryption_requested" /\ ~D.tls /\ D.sasl = "none" /\ ~D.wait /\ Says(C, D, "starttls")
      BY <1>1, <1>2, <2>3 DEF Reaches, Says
    <3>2. "starttls" \in Kinds /\ "encryption_requested" \in ClientStates \ {"connecting"}
      BY DEF Kinds, ClientStates
    <3>3. Continues(C, D) /\ D.policy = C.policy /\ One(v, v2, "starttls")
      BY <1>1, <3>1, <3>2, SaysOne
    <3>4. PolicyOf(D, S, w2, v2)
      <4>1. Has(v2, "auth") => Has(v, "auth")
        <5>1. \A i \in 1..Len(v2) : i \in 1..Len(v) \/ i = Len(v) + 1
          BY <1>1, <3>3 DEF One
        <5>. QED BY <3>3, <5>1 DEF Has, One
      <4>2. Has(w2, "proceed") => Has(w, "proceed")
        BY <1>1, ShiftHas
      <4>3. D.st \notin ClientPast
        BY <3>1 DEF ClientPast
      <4>4. PolicyOf(C, S, w, v)
        BY <1>1
      <4>. QED BY <2>3, <3>1, <3>3, <4>1, <4>2, <4>3, <4>4 DEF PolicyOf
    <3>5. ASSUME IsOpen(S) PROVE InPhase(D, S, w2, v2)
      <4>1. Empty(w2) /\ Only(v2, {"starttls"}) /\ S.st = "initiated" /\ ~S.tls
        BY <1>3, <1>6, <2>3, <3>3, <3>5 DEF Only, Empty, One
      <4>. QED BY <3>1, <4>1 DEF InPhase, Encrypting
    <3>6. ASSUME ~IsOpen(S) PROVE ClientTakes(D.st, w2)
      BY <1>4, <3>1, <3>6 DEF ClientTakes
    <3>. QED BY <1>1, <3>1, <3>2, <3>3, <3>4, <3>5, <3>6, ClientMoves
  <2>4. CASE /\ Reaches(C, D, <<"auth">>, "authenticating", C.tls, "idle", C.wait)
             /\ ~C.tls => /\ e.k \in {"features", "features_tls"}
                          /\ C.policy # "only_tls"
    <3>1. /\ D.st = "authenticating" /\ D.tls = C.tls /\ D.sasl = "idle" /\ ~D.wait /\ Says(C, D, "auth")
      BY <1>1, <1>2, <2>4 DEF Reaches, Says
    <3>2. "auth" \in Kinds /\ "authenticating" \in ClientStates \ {"connecting"}
      BY DEF Kinds, ClientStates
    <3>3. Continues(C, D) /\ D.policy = C.policy /\ One(v, v2, "auth")
      BY <1>1, <3>1, <3>2, SaysOne
    <3>4. PolicyOf(D, S, w2, v2)
      <4>1. Has(v2, "starttls") => Has(v, "starttls")
        <5>1. \A i \in 1..Len(v2) : i \in 1..Len(v) \/ i = Len(v) + 1
          BY <1>1, <3>3 DEF One
        <5>. QED BY <3>3, <5>1 DEF Has, One
      <4>2. Has(w2, "proceed") => Has(w, "proceed")
        BY <1>1, ShiftHas
      <4>3. ~C.tls => S.policy # "only_tls"
        <5>1. ~C.tls => ~NoneFrom(w, 1, {"features", "features_tls"})
          BY <1>1, <2>4 DEF NoneFrom
        <5>. QED BY <1>1, <5>1 DEF PolicyOf
      <4>4. PolicyOf(C, S, w, v)
        BY <1>1
      <4>5. IsOpen(S) /\ ~S.tls => C.policy # "only_tls"
        BY <1>6, <2>4
      <4>6. ~D.tls => C.policy # "only_tls"
        BY <2>4, <3>1
      <4>. QED BY <3>1, <3>3, <4>1, <4>2, <4>3, <4>4, <4>5, <4>6 DEF PolicyOf
    <3>5. ASSUME IsOpen(S) PROVE InPhase(D, S, w2, v2)
      <4>1. Empty(w2) /\ Len(v2) = 1 /\ v2[1].k = "auth" /\ S.st = "initiated" /\ SameTls(D, S)
        BY <1>3, <1>6, <3>1, <3>3, <3>5 DEF Only, Empty, One, SameTls
      <4>2. AsksAgain(D, S, w2, v2)
        BY <4>1 DEF AsksAgain
      <4>. QED BY <3>1, <4>1, <4>2 DEF InPhase, Authenticating
    <3>6. ASSUME ~IsOpen(S) PROVE ClientTakes(D.st, w2)
      BY <1>4, <3>1, <3>6 DEF ClientTakes
    <3>. QED BY <1>1, <3>1, <3>2, <3>3, <3>4, <3>5, <3>6, ClientMoves
  <2>. QED BY <2>1, <2>2, <2>3, <2>4
<1>. QED BY <1>7, <1>8

LEMMA ClientReadsProceed ==
  ASSUME NEW C, NEW D, NEW S, NEW w, NEW v, NEW w2, NEW v2, NEW e, NEW outcome,
         ClientReads(C, D, S, w, v, w2, v2, e, outcome), C.st = "encryption_requested"
  PROVE  Sides(D, S, w2, v2) /\ Result(C, D)
<1>0. ClientReading(C, D, S, w, v, w2, v2, e, outcome)
  BY ClientReadFacts
<1>1. /\ Sides(C, S, w, v) /\ Fresh(C) /\ C.site = "client" /\ e \in Units /\ D = Receive(C, e, outcome)
      /\ w \in Seq(Units) /\ v \in Seq(Units) /\ w2 \in Seq(Units) /\ v2 \in Seq(Units)
      /\ Len(w) \in Nat /\ Len(v) \in Nat /\ Len(w2) \in Nat /\ Len(v2) \in Nat
      /\ Len(w) > 0 /\ Len(w2) = Len(w) - 1 /\ \A i \in 1..Len(w2) : w2[i] = w[i + 1]
      /\ w[1] = e /\ Shifted(w, w2) /\ Fewer(w, w2) /\ OwnWord(C, D, v, v2) /\ PolicyOf(C, S, w, v)
      /\ IsOpen(S) => InPhase(C, S, w, v)
      /\ ~IsOpen(S) => ClientTakes(C.st, w)
      /\ C.policy \in Policies /\ C.sasl \in {"none", "idle", "busy"} /\ C.tls \in BOOLEAN
      /\ ~C.wait /\ IsOpen(C) /\ C.tcp = "connected"
  BY <1>0 DEF ClientReading

<1>2. C.sasl = "none" /\ ~C.tls
  BY <1>1 DEF Fresh, EndOK
<1>4. ~IsOpen(S) => /\ NoneFrom(w, 1, {"stream", "half", "msg", "done"})
                    /\ NoneFrom(w2, 1, {"stream", "half", "msg", "done"})
  BY <1>1, ShiftNone DEF ClientTakes
<1>5. ClientReading(C, D, S, w, v, w2, v2, e, outcome)
  BY ClientReadFacts
<1>6. IsOpen(S) => Len(w2) = 0 /\ Len(v) = 0 /\ e.k = "proceed" /\ S.tls /\ S.st = "handshaking"
  BY <1>1 DEF InPhase, Opening1, Encrypting, Authenticating, Authenticated, Empty, Only
<1>7. CASE e.k # "proceed"
  <2>1. ~IsOpen(S)
    BY <1>6, <1>7
  <2>2. e.k \notin {"proceed", "stream", "msg"}
    BY <1>1, <1>4, <1>7, <2>1 DEF NoneFrom
  <2>3. Same(C, D) \/ ClosesWell(C, D)
    BY <1>1, <2>2, ReadRequested
  <2>4. ClientTakes(C.st, w2)
    BY <1>4, <2>1 DEF ClientTakes
  <2>5. CASE Same(C, D)
    BY <1>5, <2>1, <2>4, <2>5, ClientIgnores
  <2>6. CASE ClosesWell(C, D)
    BY <1>1, <2>6, ClientCloses
  <2>. QED BY <2>3, <2>5, <2>6
<1>8. CASE e.k = "proceed"
  <2>1. Reaches(C, D, <<"hello">>, "handshaking", TRUE, C.sasl, C.wait)
    BY <1>1, <1>8, ReadRequested
  <2>2. D.st = "handshaking" /\ D.tls /\ D.sasl = "none" /\ ~D.wait /\ Says(C, D, "hello")
    BY <1>1, <1>2, <2>1 DEF Reaches, Says
  <2>3. "hello" \in Kinds /\ "hello" \in Quiet /\ "handshaking" \in ClientStates \ {"connecting"}
    BY DEF Kinds, Quiet, ClientStates
  <2>4. Continues(C, D) /\ D.policy = C.policy /\ One(v, v2, "hello")
    BY <1>1, <2>2, <2>3, SaysOne
  <2>5. PolicyOf(D, S, w2, v2)
    <3>1. (Has(v2, "auth") => Has(v, "auth")) /\ (Has(v2, "starttls") => Has(v, "starttls"))
      <4>1. Fewer(v, v2)
        BY <1>1, <2>3, <2>4, FewerWords
      <4>. QED BY <4>1, FewerHas
    <3>2. Has(w, "proceed")
      BY <1>1, <1>8 DEF Has
    <3>3. D.st \notin ClientPast
      BY <2>2 DEF ClientPast
    <3>4. PolicyOf(C, S, w, v)
      BY <1>1
    <3>. QED BY <2>2, <2>4, <3>1, <3>2, <3>3, <3>4 DEF PolicyOf
  <2>6. ASSUME IsOpen(S) PROVE InPhase(D, S, w2, v2)
    <3>1. Empty(w2) /\ Only(v2, {"hello", "finished"}) /\ S.st = "handshaking" /\ S.tls
      BY <1>6, <2>4, <2>6 DEF Only, Empty, One
    <3>. QED BY <2>2, <3>1 DEF InPhase, Encrypting
  <2>7. ASSUME ~IsOpen(S) PROVE ClientTakes(D.st, w2)
    <3>1. NoneFrom(w2, 1, {"stream", "msg"}) /\ Followed(w2, 1, {"done"}, {"bye", "fin"})
      BY <1>1, <1>4, <2>7 DEF NoneFrom, Followed
    <3>. QED BY <2>2, <3>1 DEF ClientTakes
  <2>. QED BY <1>1, <2>2, <2>3, <2>4, <2>5, <2>6, <2>7, ClientMoves
<1>. QED BY <1>7, <1>8

LEMMA ClientShakesHands ==
  ASSUME NEW C, NEW D, NEW S, NEW w, NEW v, NEW w2, NEW v2, NEW e, NEW outcome,
         ClientReads(C, D, S, w, v, w2, v2, e, outcome), C.st = "handshaking"
  PROVE  Sides(D, S, w2, v2) /\ Result(C, D)
<1>0. ClientReading(C, D, S, w, v, w2, v2, e, outcome)
  BY ClientReadFacts
<1>1. /\ Sides(C, S, w, v) /\ Fresh(C) /\ C.site = "client" /\ e \in Units /\ D = Receive(C, e, outcome)
      /\ w \in Seq(Units) /\ v \in Seq(Units) /\ w2 \in Seq(Units) /\ v2 \in Seq(Units)
      /\ Len(w) \in Nat /\ Len(v) \in Nat /\ Len(w2) \in Nat /\ Len(v2) \in Nat
      /\ Len(w) > 0 /\ Len(w2) = Len(w) - 1 /\ \A i \in 1..Len(w2) : w2[i] = w[i + 1]
      /\ w[1] = e /\ Shifted(w, w2) /\ Fewer(w, w2) /\ OwnWord(C, D, v, v2) /\ PolicyOf(C, S, w, v)
      /\ IsOpen(S) => InPhase(C, S, w, v)
      /\ ~IsOpen(S) => ClientTakes(C.st, w)
      /\ C.policy \in Policies /\ C.sasl \in {"none", "idle", "busy"} /\ C.tls \in BOOLEAN
      /\ ~C.wait /\ IsOpen(C) /\ C.tcp = "connected"
  BY <1>0 DEF ClientReading

<1>2. C.sasl = "none" /\ C.tls
  BY <1>1 DEF Fresh, EndOK
<1>3. IsOpen(S) => /\ Len(w2) = 0 /\ Len(v) = 0 /\ S.tls
                   /\ \/ S.st = "handshaking" /\ e.k = "server_hello"
                      \/ S.st = "connected" /\ e.k = "done"
  BY <1>1 DEF InPhase, Opening1, Encrypting, Authenticating, Authenticated, Empty, Only
<1>4. ~IsOpen(S) => /\ NoneFrom(w2, 1, {"stream", "msg"})
                    /\ Followed(w, 1, {"done"}, {"bye", "fin"}) /\ Followed(w2, 1, {"done"}, {"bye", "fin"})
  BY <1>1, ShiftNone, ShiftFollowed DEF ClientTakes
<1>5. \/ ClosesWell(C, D)
      \/ /\ e.k = "server_hello"
         /\ Reaches(C, D, <<"finished">>, "handshaking", C.tls, C.sasl, C.wait)
      \/ /\ e.k = "done"
         /\ \/ Reaches(C, D, <<>>, "connected", C.tls, C.sasl, TRUE)
            \/ Reaches(C, D, <<"stream">>, "initiated", C.tls, C.sasl, C.wait)
  BY <1>1, ReadHandshakingClient
<1>6. CASE ClosesWell(C, D)
  BY <1>1, <1>6, ClientCloses
<1>7. CASE e.k = "server_hello" /\ Reaches(C, D, <<"finished">>, "handshaking", C.tls, C.sasl, C.wait)
  <2>1. D.st = "handshaking" /\ D.tls /\ D.sasl = "none" /\ ~D.wait /\ Says(C, D, "finished")
    BY <1>1, <1>2, <1>7 DEF Reaches, Says
  <2>2. "finished" \in Kinds /\ "finished" \in Quiet /\ "handshaking" \in ClientStates \ {"connecting"}
    BY DEF Kinds, Quiet, ClientStates
  <2>3. Continues(C, D) /\ D.policy = C.policy /\ One(v, v2, "finished")
    BY <1>1, <2>1, <2>2, SaysOne
  <2>4. PolicyOf(D, S, w2, v2)
    <3>1. ClientKeeps(C, D)
      BY <1>2, <2>1, <2>3 DEF ClientKeeps, ClientPast, ClientEarly
    <3>2. Fewer(v, v2)
      BY <1>1, <2>2, <2>3, FewerWords
    <3>. QED BY <1>1, <3>1, <3>2, PolicyKept, Keeps
  <2>5. ASSUME IsOpen(S) PROVE InPhase(D, S, w2, v2)
    <3>1. Empty(w2) /\ Only(v2, {"hello", "finished"}) /\ S.st = "handshaking" /\ S.tls
      BY <1>3, <1>7, <2>3, <2>5 DEF Only, Empty, One
    <3>. QED BY <2>1, <3>1 DEF InPhase, Encrypting
  <2>6. ASSUME ~IsOpen(S) PROVE ClientTakes(D.st, w2)
    BY <1>4, <2>1, <2>6 DEF ClientTakes
  <2>. QED BY <1>1, <2>1, <2>2, <2>3, <2>4, <2>5, <2>6, ClientMoves
<1>8. ASSUME ~IsOpen(S), e.k = "done" PROVE Starts(w2, {"bye", "fin"})
  <2>1. Len(w2) > 0 => 1 \in 1..Len(w) - 1 /\ w2[1] = w[1 + 1]
    BY <1>1
  <2>2. Len(w2) > 0 => w[1 + 1].k \in {"bye", "fin"}
    BY <1>1, <1>4, <1>8, <2>1 DEF Followed
  <2>. QED BY <2>1, <2>2 DEF Starts
<1>9. CASE e.k = "done" /\ Reaches(C, D, <<>>, "connected", C.tls, C.sasl, TRUE)
  <2>1. D.st = "connected" /\ D.tls /\ D.sasl = "none" /\ IsSilent(C, D)
    BY <1>2, <1>9 DEF Reaches, IsSilent
  <2>2. "connected" \in ClientStates \ {"connecting"}
    BY DEF ClientStates
  <2>3. Continues(C, D) /\ D.policy = C.policy /\ v2 = v
    BY <1>1, <2>1, SaysNothing
  <2>4. PolicyOf(D, S, w2, v2)
    <3>1. ClientKeeps(C, D)
      BY <1>2, <2>1, <2>3 DEF ClientKeeps, ClientPast, ClientEarly
    <3>2. Fewer(v, v2)
      BY <1>1, <2>3, FewerWords
    <3>. QED BY <1>1, <3>1, <3>2, PolicyKept, Keeps
  <2>5. ASSUME IsOpen(S) PROVE InPhase(D, S, w2, v2)
    BY <1>3, <1>9, <2>1, <2>3, <2>5 DEF InPhase, Encrypting, Empty
  <2>6. ASSUME ~IsOpen(S) PROVE ClientTakes(D.st, w2)
    BY <1>8, <1>9, <2>1, <2>6 DEF ClientTakes
  <2>. QED BY <1>1, <2>1, <2>2, <2>3, <2>4, <2>5, <2>6, ClientMoves
<1>10. CASE e.k = "done" /\ Reaches(C, D, <<"stream">>, "initiated", C.tls, C.sasl, C.wait)
  <2>1. D.st = "initiated" /\ D.tls /\ D.sasl = "none" /\ ~D.wait /\ Says(C, D, "stream")
    BY <1>1, <1>2, <1>10 DEF Reaches, Says
  <2>2. "stream" \in Kinds /\ "stream" \in Quiet /\ "initiated" \in ClientStates \ {"connecting"}
    BY DEF Kinds, Quiet, ClientStates
  <2>3. Continues(C, D) /\ D.policy = C.policy /\ One(v, v2, "stream")
    BY <1>1, <2>1, <2>2, SaysOne
  <2>4. PolicyOf(D, S, w2, v2)
    <3>1. ClientKeeps(C, D)
      BY <1>2, <2>1, <2>3 DEF ClientKeeps, ClientPast, ClientEarly
    <3>2. Fewer(v, v2)
      BY <1>1, <2>2, <2>3, FewerWords
    <3>. QED BY <1>1, <3>1, <3>2, PolicyKept, Keeps
  <2>5. ASSUME IsOpen(S) PROVE InPhase(D, S, w2, v2)
    <3>1. Empty(w2) /\ Only(v2, {"stream"}) /\ S.st = "connected" /\ S.tls
      BY <1>3, <1>10, <2>3, <2>5 DEF Only, Empty, One
    <3>2. SameTls(D, S)
      <4>1. S.tls \in BOOLEAN /\ D.tls \in BOOLEAN
        BY <1>1, <1>10, EndFields DEF Sides, Reaches
      <4>. QED BY <2>1, <3>1, <4>1 DEF SameTls
    <3>. QED BY <2>1, <3>1, <3>2 DEF InPhase, Opening1
  <2>6. ASSUME ~IsOpen(S) PROVE ClientTakes(D.st, w2)
    <3>1. Len(w2) = 0 \/ w2[1].k \in {"bye", "fin"}
      BY <1>1, <1>8, <1>10, <2>6 DEF Starts
    <3>2. NoneFrom(w2, 2, {"stream", "half", "msg", "done"}) \/ ~Starts(w2, {"stream"})
      <4>1. CASE Len(w2) = 0
        BY <4>1 DEF NoneFrom
      <4>2. CASE w2[1].k \in {"bye", "fin"} /\ Len(w2) > 0
        BY <4>2 DEF Starts
      <4>. QED BY <1>1, <3>1, <4>1, <4>2
    <3>. QED BY <2>1, <3>1, <3>2 DEF ClientTakes
  <2>. QED BY <1>1, <2>1, <2>2, <2>3, <2>4, <2>5, <2>6, ClientMoves
<1>. QED BY <1>5, <1>6, <1>7, <1>9, <1>10

LEMMA ClientReadsMessages ==
  ASSUME NEW C, NEW D, NEW S, NEW w, NEW v, NEW w2, NEW v2, NEW e, NEW outcome,
         ClientReads(C, D, S, w, v, w2, v2, e, outcome), C.st = "ready"
  PROVE  Sides(D, S, w2, v2) /\ Result(C, D)
<1>0. ClientReading(C, D, S, w, v, w2, v2, e, outcome)
  BY ClientReadFacts
<1>1. /\ Sides(C, S, w, v) /\ Fresh(C) /\ C.site = "client" /\ e \in Units /\ D = Receive(C, e, outcome)
      /\ w \in Seq(Units) /\ v \in Seq(Units) /\ w2 \in Seq(Units) /\ v2 \in Seq(Units)
      /\ Len(w) \in Nat /\ Len(v) \in Nat /\ Len(w2) \in Nat /\ Len(v2) \in Nat
      /\ Len(w) > 0 /\ Len(w2) = Len(w) - 1 /\ \A i \in 1..Len(w2) : w2[i] = w[i + 1]
      /\ w[1] = e /\ Shifted(w, w2) /\ Fewer(w, w2) /\ OwnWord(C, D, v, v2) /\ PolicyOf(C, S, w, v)
      /\ IsOpen(S) => InPhase(C, S, w, v)
      /\ ~IsOpen(S) => ClientTakes(C.st, w)
      /\ C.policy \in Policies /\ C.sasl \in {"none", "idle", "busy"} /\ C.tls \in BOOLEAN
      /\ ~C.wait /\ IsOpen(C) /\ C.tcp = "connected"
  BY <1>0 DEF ClientReading

<1>2. IsOpen(S) => /\ AllFrom(w, 1, MessageKinds) /\ AllFrom(w2, 1, MessageKinds) /\ S.st = "ready"
                   /\ AllFrom(v, 1, MessageKinds) /\ SameTls(C, S)
  BY <1>1, ShiftAll DEF InPhase, Opening1, Encrypting, Authenticating, Authenticated
<1>3. ~IsOpen(S) => NoneFrom(w, 1, {"stream"}) /\ NoneFrom(w2, 1, {"stream"})
  BY <1>1, ShiftNone DEF ClientTakes
<1>4. e.k # "stream"
  <2>1. 1 \in 1..Len(w) /\ w[1].k = e.k
    BY <1>1
  <2>2. IsOpen(S) => e.k \in MessageKinds
    BY <1>2, <2>1 DEF AllFrom
  <2>3. ~IsOpen(S) => e.k # "stream"
    BY <1>3, <2>1 DEF NoneFrom
  <2>. QED BY <2>2, <2>3 DEF MessageKinds
<1>5. Same(C, D) \/ ClosesWell(C, D)
  BY <1>1, <1>4, ReadReady
<1>6. CASE Same(C, D)
  <2>1. ClientReading(C, D, S, w, v, w2, v2, e, outcome)
    BY ClientReadFacts
  <2>2. IsOpen(S) => InPhase(C, S, w2, v)
    BY <1>2 DEF InPhase, Authenticated
  <2>3. ~IsOpen(S) => ClientTakes(C.st, w2)
    BY <1>3 DEF ClientTakes
  <2>. QED BY <1>6, <2>1, <2>2, <2>3, ClientIgnores
<1>7. CASE ClosesWell(C, D)
  BY <1>1, <1>7, ClientCloses
<1>. QED BY <1>5, <1>6, <1>7

\* The client waits for the certificate callback: the server says nothing but that it closes.
LEMMA ClientWaits ==
  ASSUME NEW C, NEW D, NEW S, NEW w, NEW v, NEW w2, NEW v2, NEW e, NEW outcome,
         ClientReads(C, D, S, w, v, w2, v2, e, outcome), C.st = "connected"
  PROVE  Sides(D, S, w2, v2) /\ Result(C, D)
<1>0. ClientReading(C, D, S, w, v, w2, v2, e, outcome)
  BY ClientReadFacts
<1>1. /\ Sides(C, S, w, v) /\ Fresh(C) /\ C.site = "client" /\ e \in Units /\ D = Receive(C, e, outcome)
      /\ w \in Seq(Units) /\ v \in Seq(Units) /\ w2 \in Seq(Units) /\ v2 \in Seq(Units)
      /\ Len(w) \in Nat /\ Len(w) > 0 /\ w[1] = e /\ Fewer(w, w2) /\ OwnWord(C, D, v, v2)
      /\ IsOpen(S) => InPhase(C, S, w, v)
      /\ ~IsOpen(S) => ClientTakes(C.st, w)
      /\ IsOpen(C) /\ C.tcp = "connected"
  BY <1>0 DEF ClientReading
<1>2. e.k \in {"bye", "fin"}
  BY <1>1 DEF InPhase, Opening1, Encrypting, Authenticating, Authenticated, Empty, ClientTakes, Starts
<1>3. ClosesWell(C, D)
  BY <1>1, <1>2, ReadFin
<1>. QED BY <1>1, <1>3, ClientCloses

LEMMA ClientAuthenticates ==
  ASSUME NEW C, NEW D, NEW S, NEW w, NEW v, NEW w2, NEW v2, NEW e, NEW outcome,
         ClientReads(C, D, S, w, v, w2, v2, e, outcome), C.st = "authenticating"
  PROVE  Sides(D, S, w2, v2) /\ Result(C, D)
<1>0. ClientReading(C, D, S, w, v, w2, v2, e, outcome)
  BY ClientReadFacts
<1>1. /\ Sides(C, S, w, v) /\ Fresh(C) /\ C.site = "client" /\ e \in Units /\ D = Receive(C, e, outcome)
      /\ w \in Seq(Units) /\ v \in Seq(Units) /\ w2 \in Seq(Units) /\ v2 \in Seq(Units)
      /\ Len(w) \in Nat /\ Len(v) \in Nat /\ Len(w2) \in Nat /\ Len(v2) \in Nat
      /\ Len(w) > 0 /\ Len(w2) = Len(w) - 1 /\ \A i \in 1..Len(w2) : w2[i] = w[i + 1]
      /\ w[1] = e /\ Shifted(w, w2) /\ Fewer(w, w2) /\ OwnWord(C, D, v, v2) /\ PolicyOf(C, S, w, v)
      /\ IsOpen(S) => InPhase(C, S, w, v)
      /\ ~IsOpen(S) => ClientTakes(C.st, w)
      /\ C.policy \in Policies /\ C.sasl \in {"none", "idle", "busy"} /\ C.tls \in BOOLEAN
      /\ ~C.wait /\ IsOpen(C) /\ C.tcp = "connected"
  BY <1>0 DEF ClientReading

<1>2. IsOpen(S) => Authenticating(C, S, w, v)
  BY <1>1 DEF InPhase, Opening1, Encrypting, Authenticated
<1>3. IsOpen(S) => /\ e.k \in {"challenge", "failure", "success"} /\ SameTls(C, S)
                   /\ e.k = "challenge" => C.sasl # "busy"
                   /\ e.k = "challenge" /\ C.sasl = "idle" =>
                        Empty(w2) /\ Empty(v) /\ S.st = "authenticating" /\ S.sasl # "busy"
                   /\ e.k = "challenge" /\ C.sasl = "none" =>
                        \/ ServerWaits(C, S, w2, v)
                        \/ Failed(C, S, w2, v)
                   /\ e.k = "failure" => Empty(w2) /\ All(v, {"abort"}) /\ S.st = "initiated"
                   /\ e.k = "success" => Empty(w2) /\ All(v, {"abort"}) /\ S.st = "auth_connected"
  <2>. SUFFICES ASSUME IsOpen(S)
                PROVE  /\ e.k \in {"challenge", "failure", "success"}
                       /\ e.k = "challenge" => C.sasl # "busy"
                       /\ e.k = "challenge" /\ C.sasl = "idle" =>
                            Empty(w2) /\ Empty(v) /\ S.st = "authenticating" /\ S.sasl # "busy"
                       /\ e.k = "challenge" /\ C.sasl = "none" =>
                            \/ ServerWaits(C, S, w2, v)
                            \/ Failed(C, S, w2, v)
                       /\ e.k = "failure" => Empty(w2) /\ All(v, {"abort"}) /\ S.st = "initiated"
                       /\ e.k = "success" => Empty(w2) /\ All(v, {"abort"}) /\ S.st = "auth_connected"
    BY <1>2 DEF Authenticating
  <2>1. C.sasl # "busy"
    BY <1>1, <1>2 DEF Authenticating, Empty
  <2>2. ServerWaits(C, S, w, v) \/ Failed(C, S, w, v) \/ Succeeds(C, S, w, v)
    BY <1>1, <1>2 DEF Authenticating, Empty, ServerBusy, AsksAgain
  <2>3. CASE ServerWaits(C, S, w, v)
    <3>1. C.sasl = "idle" => Only(w, {"challenge"}) /\ Empty(v)
      BY <1>1, <2>3 DEF ServerWaits, Empty
    <3>2. C.sasl = "none" => /\ Only(w, {"challenge"}) /\ All(v, {"abort"})
                             /\ Starts(v, {"abort", "response"}) /\ AllFrom(v, 2, {"abort"})
      BY <1>1, <2>3 DEF ServerWaits, Empty
    <3>3. Only(w, {"challenge"}) => e.k = "challenge" /\ Empty(w2)
      BY <1>1 DEF Only, Empty
    <3>4. C.sasl = "none" => ServerWaits(C, S, w2, v)
      BY <2>3, <3>2, <3>3 DEF ServerWaits
    <3>5. S.st = "authenticating" /\ S.sasl # "busy"
      BY <2>3 DEF ServerWaits
    <3>. QED BY <1>1, <2>1, <3>1, <3>2, <3>3, <3>4, <3>5
  <2>4. CASE Failed(C, S, w, v)
    <3>1. S.st = "initiated" /\ All(v, {"abort"})
      BY <2>4 DEF Failed
    <3>2. CASE Only(w, {"failure"})
      <4>1. e.k = "failure" /\ Empty(w2)
        BY <1>1, <3>2 DEF Only, Empty
      <4>. QED BY <3>1, <4>1
    <3>3. CASE C.sasl = "none" /\ Len(w) = 2 /\ w[1].k = "challenge" /\ w[2].k = "failure"
      <4>1. e.k = "challenge" /\ Only(w2, {"failure"})
        BY <1>1, <3>3 DEF Only
      <4>2. Failed(C, S, w2, v)
        BY <3>1, <4>1 DEF Failed
      <4>. QED BY <2>1, <3>3, <4>1, <4>2
    <3>. QED BY <2>4, <3>2, <3>3 DEF Failed
  <2>5. CASE Succeeds(C, S, w, v)
    <3>1. e.k = "success" /\ Empty(w2) /\ S.st = "auth_connected" /\ All(v, {"abort"})
      BY <1>1, <2>5 DEF Succeeds, Only, Empty
    <3>. QED BY <3>1
  <2>. QED BY <2>2, <2>3, <2>4, <2>5
<1>4. ~IsOpen(S) => /\ NoneFrom(w, 1, {"stream", "half", "msg", "done"})
                    /\ NoneFrom(w2, 1, {"stream", "half", "msg", "done"})
  BY <1>1, ShiftNone DEF ClientTakes
<1>5. ClientReading(C, D, S, w, v, w2, v2, e, outcome)
  BY ClientReadFacts
<1>6. "authenticating" \in ClientStates \ {"connecting"}
  BY DEF ClientStates
<1>7. CASE e.k = "challenge"
  <2>1. \/ C.sasl = "idle" /\ Reaches(C, D, <<>>, "authenticating", C.tls, "busy", C.wait)
        \/ C.sasl = "none" /\ Same(C, D)
        \/ C.sasl = "busy" /\ ClosesLate(C, D)
    BY <1>1, <1>7, ReadAuthenticatingClient
  <2>2. CASE C.sasl = "idle" /\ Reaches(C, D, <<>>, "authenticating", C.tls, "busy", C.wait)
    <3>1. /\ D.st = "authenticating" /\ D.tls = C.tls /\ D.sasl = "busy" /\ ~D.wait /\ IsSilent(C, D)
      BY <1>1, <2>2 DEF Reaches, IsSilent
    <3>2. Continues(C, D) /\ D.policy = C.policy /\ v2 = v
      BY <1>1, <3>1, SaysNothing
    <3>3. PolicyOf(D, S, w2, v2)
      <4>1. ClientKeeps(C, D)
        BY <3>1, <3>2 DEF ClientKeeps, ClientPast, ClientEarly
      <4>2. Fewer(v, v2)
        BY <1>1, <3>2, FewerWords
      <4>. QED BY <1>1, <4>1, <4>2, PolicyKept, Keeps
    <3>4. ASSUME IsOpen(S) PROVE InPhase(D, S, w2, v2)
      <4>1. ServerWaits(D, S, w2, v2)
        BY <1>3, <1>7, <2>2, <3>1, <3>4 DEF ServerWaits
      <4>2. SameTls(D, S) /\ Empty(w2) /\ Empty(v2) /\ S.st = "authenticating" /\ S.sasl # "busy"
        BY <1>3, <1>7, <2>2, <3>1, <3>2, <3>4 DEF SameTls
      <4>. QED BY <3>1, <4>1, <4>2 DEF InPhase, Authenticating
    <3>5. ASSUME ~IsOpen(S) PROVE ClientTakes(D.st, w2)
      BY <1>4, <3>1, <3>5 DEF ClientTakes
    <3>. QED BY <1>1, <1>6, <3>1, <3>2, <3>3, <3>4, <3>5, ClientMoves
  <2>3. CASE C.sasl = "none" /\ Same(C, D)
    <3>1. ASSUME IsOpen(S) PROVE InPhase(C, S, w2, v)
      BY <1>3, <1>7, <2>3, <3>1 DEF InPhase, Authenticating
    <3>2. ASSUME ~IsOpen(S) PROVE ClientTakes(C.st, w2)
      BY <1>4, <3>2 DEF ClientTakes
    <3>. QED BY <1>5, <2>3, <3>1, <3>2, ClientIgnores
  <2>4. CASE C.sasl = "busy" /\ ClosesLate(C, D)
    BY <1>1, <2>4, ClientCloses
  <2>. QED BY <2>1, <2>2, <2>3, <2>4
<1>8. CASE e.k = "failure"
  <2>1. \/ ClosesLate(C, D)
        \/ Reaches(C, D, <<"auth">>, "authenticating", C.tls, "idle", C.wait)
    BY <1>1, <1>8, ReadAuthenticatingClient
  <2>2. CASE ClosesLate(C, D)
    BY <1>1, <1>8, <2>2, ClientCloses
  <2>3. CASE Reaches(C, D, <<"auth">>, "authenticating", C.tls, "idle", C.wait)
    <3>1. /\ D.st = "authenticating" /\ D.tls = C.tls /\ D.sasl = "idle" /\ ~D.wait /\ Says(C, D, "auth")
      BY <1>1, <2>3 DEF Reaches, Says
    <3>2. "auth" \in Kinds
      BY DEF Kinds
    <3>3. Continues(C, D) /\ D.policy = C.policy /\ One(v, v2, "auth")
      BY <1>1, <3>1, <3>2, SaysOne
    <3>4. PolicyOf(D, S, w2, v2)
      <4>1. Has(v2, "starttls") => Has(v, "starttls")
        <5>1. \A i \in 1..Len(v2) : i \in 1..Len(v) \/ i = Len(v) + 1
          BY <1>1, <3>3 DEF One
        <5>. QED BY <3>3, <5>1 DEF Has, One
      <4>2. Has(w2, "proceed") => Has(w, "proceed")
        BY <1>1, ShiftHas
      <4>3. ~C.tls => C.policy # "only_tls" /\ S.policy # "only_tls"
        BY <1>1 DEF PolicyOf, ClientPast
      <4>4. PolicyOf(C, S, w, v)
        BY <1>1
      <4>5. IsOpen(S) /\ ~S.tls => C.policy # "only_tls"
        BY <1>3, <4>3 DEF SameTls
      <4>. QED BY <3>1, <3>3, <4>1, <4>2, <4>3, <4>4, <4>5 DEF PolicyOf
    <3>5. ASSUME IsOpen(S) PROVE InPhase(D, S, w2, v2)
      <4>1. Empty(w2) /\ S.st = "initiated" /\ SameTls(D, S) /\ All(v, {"abort"})
        BY <1>3, <1>8, <3>1, <3>5 DEF SameTls
      <4>2. AsksAgain(D, S, w2, v2)
        <5>1. Len(v2) \in 1..Len(v2) /\ v2[Len(v2)].k = "auth"
          BY <1>1, <3>3 DEF One
        <5>2. \A i \in 1..Len(v2) : i # Len(v2) => i \in 1..Len(v)
          BY <1>1, <3>3 DEF One
        <5>3. \A i \in 1..Len(v2) : i # Len(v2) => v2[i].k = "abort"
          BY <3>3, <4>1, <5>2 DEF One, All
        <5>. QED BY <4>1, <5>1, <5>3 DEF AsksAgain
      <4>. QED BY <3>1, <4>1, <4>2 DEF InPhase, Authenticating
    <3>6. ASSUME ~IsOpen(S) PROVE ClientTakes(D.st, w2)
      BY <1>4, <3>1, <3>6 DEF ClientTakes
    <3>. QED BY <1>1, <1>6, <3>1, <3>3, <3>4, <3>5, <3>6, ClientMoves
  <2>. QED BY <2>1, <2>2, <2>3
<1>9. CASE e.k = "success"
  <2>1. Reaches(C, D, <<"stream">>, "auth_initiated", C.tls, "none", C.wait)
    BY <1>1, <1>9, ReadAuthenticatingClient
  <2>2. /\ D.st = "auth_initiated" /\ D.tls = C.tls /\ D.sasl = "none" /\ ~D.wait /\ Says(C, D, "stream")
    BY <1>1, <2>1 DEF Reaches, Says
  <2>3. "stream" \in Kinds /\ "stream" \in Quiet /\ "auth_initiated" \in ClientStates \ {"connecting"}
    BY DEF Kinds, Quiet, ClientStates
  <2>4. Continues(C, D) /\ D.policy = C.policy /\ One(v, v2, "stream")
    BY <1>1, <2>2, <2>3, SaysOne
  <2>5. PolicyOf(D, S, w2, v2)
    <3>1. ClientKeeps(C, D)
      BY <2>2, <2>4 DEF ClientKeeps, ClientPast, ClientEarly
    <3>2. Fewer(v, v2)
      BY <1>1, <2>3, <2>4, FewerWords
    <3>. QED BY <1>1, <3>1, <3>2, PolicyKept, Keeps
  <2>6. ASSUME IsOpen(S) PROVE InPhase(D, S, w2, v2)
    <3>1. Empty(w2) /\ S.st = "auth_connected" /\ SameTls(D, S) /\ All(v, {"abort"})
      BY <1>3, <1>9, <2>2, <2>6 DEF SameTls
    <3>2. Len(v2) > 0 /\ v2[Len(v2)].k = "stream"
      BY <1>1, <2>4 DEF One
    <3>3. \A i \in 1..Len(v2) - 1 : i \in 1..Len(v)
      BY <1>1, <2>4 DEF One
    <3>4. \A i \in 1..Len(v2) - 1 : v2[i].k = "abort"
      BY <2>4, <3>1, <3>3 DEF One, All
    <3>. QED BY <2>2, <3>1, <3>2, <3>4 DEF InPhase, Authenticated
  <2>7. ASSUME ~IsOpen(S) PROVE ClientTakes(D.st, w2)
    <3>1. Len(w2) > 0 => 1 \in 1..Len(w2)
      BY <1>1
    <3>2. Len(w2) > 0 => w2[1].k \notin {"stream", "half"}
      BY <1>4, <2>7, <3>1 DEF NoneFrom
    <3>3. Len(w2) = 0 \/ ~Starts(w2, {"stream"})
      BY <1>1, <3>2 DEF Starts
    <3>4. Len(w2) = 0 => NoneFrom(w2, 2, {"stream"}) /\ ~Has(w2, "msg")
      BY DEF NoneFrom, Has
    <3>5. Len(w2) = 0 \/ w2[1].k # "half"
      BY <1>1, <3>2
    <3>. QED BY <2>2, <3>3, <3>4, <3>5 DEF ClientTakes
  <2>. QED BY <1>1, <2>2, <2>3, <2>4, <2>5, <2>6, <2>7, ClientMoves
<1>10. CASE e.k \notin {"challenge", "failure", "success"}
  <2>1. ~IsOpen(S)
    BY <1>3, <1>10
  <2>2. e.k \notin {"challenge", "failure", "success", "stream", "msg"}
    BY <1>1, <1>4, <1>10, <2>1 DEF NoneFrom
  <2>3. Same(C, D) \/ ClosesWell(C, D)
    BY <1>1, <2>2, ReadAuthenticatingClient
  <2>4. ClientTakes(C.st, w2)
    BY <1>4, <2>1 DEF ClientTakes
  <2>5. CASE Same(C, D)
    BY <1>5, <2>1, <2>4, <2>5, ClientIgnores
  <2>6. CASE ClosesWell(C, D)
    BY <1>1, <2>6, ClientCloses
  <2>. QED BY <2>3, <2>5, <2>6
<1>. QED BY <1>7, <1>8, <1>9, <1>10

LEMMA ClientReadsWell ==
  ASSUME NEW C, NEW D, NEW S, NEW w, NEW v, NEW w2, NEW v2, NEW e, NEW outcome,
         ClientReads(C, D, S, w, v, w2, v2, e, outcome)
  PROVE  Sides(D, S, w2, v2) /\ Result(C, D)
<1>1. C.st \in ClientStates \ {"connecting"}
  BY DEF ClientReads, Sides, EndOK, IsOpen
<1>. QED
  BY <1>1, ClientReadsStream, ClientReadsAuthStream, ClientReadsFeatures, ClientReadsOffer, ClientReadsProceed,
     ClientShakesHands, ClientReadsMessages, ClientWaits, ClientAuthenticates DEF ClientStates

(***************************************************************************)
(* What the server reads                                                   *)
(***************************************************************************)
ServerReads(C, S, T, w, v, w2, v2, e, outcome) ==
  /\ Sides(C, S, w, v) /\ IsOpen(S) /\ S.tcp = "connected" /\ e \in Units
  /\ w2 \in Seq(Units) /\ v2 \in Seq(Units) /\ Shifted(v, v2) /\ v[1] = e
  /\ T = Receive(S, e, outcome) /\ OwnWord(S, T, w, w2)

ServerReading(C, S, T, w, v, w2, v2, e, outcome) ==
  /\ Sides(C, S, w, v) /\ Fresh(S) /\ S.site = "server" /\ e \in Units /\ T = Receive(S, e, outcome)
  /\ w \in Seq(Units) /\ v \in Seq(Units) /\ w2 \in Seq(Units) /\ v2 \in Seq(Units)
  /\ Len(w) \in Nat /\ Len(v) \in Nat /\ Len(w2) \in Nat /\ Len(v2) \in Nat
  /\ Len(v) > 0 /\ Len(v2) = Len(v) - 1 /\ \A i \in 1..Len(v2) : v2[i] = v[i + 1]
  /\ v[1] = e /\ Shifted(v, v2) /\ Fewer(v, v2) /\ OwnWord(S, T, w, w2) /\ PolicyOf(C, S, w, v)
  /\ IsOpen(C) => InPhase(C, S, w, v)
  /\ ~IsOpen(C) => ServerTakes(S.st, S.sasl = "busy", v)
  /\ S.policy \in Policies /\ S.sasl \in {"none", "idle", "busy"} /\ S.tls \in BOOLEAN
  /\ C.sasl \in {"none", "idle", "busy"} /\ C.tls \in BOOLEAN
  /\ ~S.wait
  /\ S.st # "authenticating" => S.sasl = "none"
  /\ S.st = "handshaking" => S.tls
  /\ IsOpen(S)

LEMMA ServerReadFacts ==
  ASSUME NEW C, NEW S, NEW T, NEW w, NEW v, NEW w2, NEW v2, NEW e, NEW outcome,
         ServerReads(C, S, T, w, v, w2, v2, e, outcome)
  PROVE  ServerReading(C, S, T, w, v, w2, v2, e, outcome)
<1>1. /\ C \in Ends /\ S \in Ends /\ S.site = "server" /\ EndOK(S) /\ w \in Seq(Units) /\ v \in Seq(Units)
      /\ w2 \in Seq(Units) /\ v2 \in Seq(Units) /\ IsOpen(S) /\ S.tcp = "connected" /\ Shifted(v, v2)
      /\ JointOf(C, S, w, v) /\ PolicyOf(C, S, w, v)
  BY DEF ServerReads, Sides
<1>2. Len(w) \in Nat /\ Len(v) \in Nat /\ Len(w2) \in Nat /\ Len(v2) \in Nat
  BY <1>1, LenProperties
<1>3. Fresh(S)
  BY <1>1 DEF Fresh
<1>4. Fewer(v, v2)
  BY <1>1, FewerWords
<1>5. /\ S.policy \in Policies /\ S.sasl \in {"none", "idle", "busy"} /\ S.tls \in BOOLEAN
      /\ C.sasl \in {"none", "idle", "busy"} /\ C.tls \in BOOLEAN
  BY <1>1, EndFields
<1>6. (IsOpen(C) => InPhase(C, S, w, v)) /\ (~IsOpen(C) => ServerTakes(S.st, S.sasl = "busy", v))
  BY <1>1 DEF JointOf
<1>7. ~S.wait /\ (S.st # "authenticating" => S.sasl = "none") /\ (S.st = "handshaking" => S.tls)
  BY <1>1 DEF EndOK
<1>. QED BY <1>1, <1>2, <1>3, <1>4, <1>5, <1>6, <1>7 DEF ServerReads, Shifted, ServerReading

\* A step after which the server is open.
LEMMA ServerMoves ==
  ASSUME NEW C, NEW S, NEW T, NEW w, NEW v, NEW w2 \in Seq(Units), NEW v2 \in Seq(Units), Sides(C, S, w, v),
         IsOpen(S), Continues(S, T), T.st \in ServerStates,
         T.sasl # "none" => T.st = "authenticating", ~T.wait, T.st = "handshaking" => T.tls,
         PolicyOf(C, T, w2, v2), IsOpen(C) => InPhase(C, T, w2, v2),
         ~IsOpen(C) => ServerTakes(T.st, T.sasl = "busy", v2)
  PROVE  Sides(C, T, w2, v2) /\ Result(S, T)
<1>1. /\ C \in Ends /\ S \in Ends /\ C.site = "client" /\ S.site = "server" /\ EndOK(C) /\ EndOK(S)
  BY DEF Sides
<1>2. T.st # "connecting" /\ S.tcp # "connecting" /\ T.st # "encryption_requested"
  BY <1>1 DEF EndOK, ServerStates, IsOpen, Over
<1>3. EndOK(T) /\ T \in Ends /\ IsOpen(T) /\ T.site = "server" /\ Result(S, T)
  BY <1>1, <1>2, ContinuesOK
<1>. QED BY <1>1, <1>3 DEF Sides, JointOf

\* An element that the server ignores.
LEMMA ServerIgnores ==
  ASSUME NEW C, NEW S, NEW T, NEW w, NEW v, NEW w2, NEW v2, NEW e, NEW outcome,
         ServerReading(C, S, T, w, v, w2, v2, e, outcome), Same(S, T),
         IsOpen(C) => InPhase(C, S, w, v2), ~IsOpen(C) => ServerTakes(S.st, S.sasl = "busy", v2)
  PROVE  Sides(C, T, w2, v2) /\ Result(S, T)
<1>1. /\ T.st = S.st /\ T.tls = S.tls /\ T.sasl = S.sasl /\ T.wait = S.wait /\ IsSilent(S, T)
  BY DEF Same, Reaches, IsSilent
<1>2. /\ Sides(C, S, w, v) /\ w \in Seq(Units) /\ v \in Seq(Units) /\ w2 \in Seq(Units) /\ v2 \in Seq(Units)
      /\ Fewer(v, v2) /\ OwnWord(S, T, w, w2) /\ IsOpen(S) /\ PolicyOf(C, S, w, v)
  BY DEF ServerReading
<1>3. Continues(S, T) /\ T.policy = S.policy /\ w2 = w
  BY <1>1, <1>2, SaysNothing
<1>4. PolicyOf(C, T, w2, v2)
  <2>1. ServerKeeps(S, T) /\ Fewer(w, w2)
    BY <1>1, <1>2, <1>3, FewerWords DEF ServerKeeps, IsOpen
  <2>. QED BY <1>2, <2>1, PolicyKept, Keeps
<1>5. IsOpen(C) => InPhase(C, T, w2, v2)
  BY <1>1, <1>3 DEF InPhase, Opening1, Encrypting, Authenticating, Authenticated, ServerBusy, ServerWaits,
     Failed, AsksAgain, Succeeds, SameTls
<1>6. /\ S.st \in ServerStates /\ (S.sasl # "none" => S.st = "authenticating") /\ ~S.wait
      /\ (S.st = "handshaking" => S.tls)
  BY <1>2 DEF Sides, EndOK, IsOpen
<1>7. ~IsOpen(C) => ServerTakes(T.st, T.sasl = "busy", v2)
  BY <1>1
<1>. QED BY <1>1, <1>2, <1>3, <1>4, <1>5, <1>6, <1>7, ServerMoves

LEMMA ServerOffers ==
  ASSUME NEW C, NEW S, NEW T, NEW w, NEW v, NEW w2, NEW v2, NEW e, NEW outcome,
         ServerReads(C, S, T, w, v, w2, v2, e, outcome), S.st = "connected"
  PROVE  Sides(C, T, w2, v2) /\ Result(S, T)
<1>0. ServerReading(C, S, T, w, v, w2, v2, e, outcome)
  BY ServerReadFacts
<1>1. /\ Sides(C, S, w, v) /\ Fresh(S) /\ S.site = "server" /\ e \in Units /\ T = Receive(S, e, outcome)
      /\ w \in Seq(Units) /\ v \in Seq(Units) /\ w2 \in Seq(Units) /\ v2 \in Seq(Units)
      /\ Len(w) \in Nat /\ Len(v) \in Nat /\ Len(w2) \in Nat /\ Len(v2) \in Nat
      /\ Len(v) > 0 /\ Len(v2) = Len(v) - 1 /\ \A i \in 1..Len(v2) : v2[i] = v[i + 1]
      /\ v[1] = e /\ Shifted(v, v2) /\ Fewer(v, v2) /\ OwnWord(S, T, w, w2) /\ PolicyOf(C, S, w, v)
      /\ IsOpen(C) => InPhase(C, S, w, v)
      /\ ~IsOpen(C) => ServerTakes(S.st, S.sasl = "busy", v)
      /\ S.policy \in Policies /\ S.sasl \in {"none", "idle", "busy"} /\ S.tls \in BOOLEAN
      /\ C.sasl \in {"none", "idle", "busy"} /\ C.tls \in BOOLEAN
      /\ ~S.wait /\ IsOpen(S)
  BY <1>0 DEF ServerReading

<1>2. S.sasl = "none"
  BY <1>1 DEF Fresh, EndOK
<1>3. IsOpen(C) => /\ C.st = "initiated" /\ Len(w) = 0 /\ Len(v2) = 0 /\ e.k = "stream" /\ C.tls = S.tls
  BY <1>1 DEF InPhase, Opening1, Encrypting, Authenticating, Authenticated, ServerBusy, ServerWaits,
     Failed, AsksAgain, Succeeds, Empty, Only, SameTls
<1>4. ~IsOpen(C) => e.k \in {"stream", "abort", "bye", "fin"}
  BY <1>1 DEF ServerTakes, Starts
<1>5. CASE e.k = "stream"
  <2>1. PICK offer \in FeatureKinds :
          /\ Reaches(S, T, <<"stream">> \o <<offer>>, "initiated", S.tls, S.sasl, S.wait)
          /\ ~S.tls /\ S.policy = "only_tls" => offer = "features_required"
    <3>1. Offers(S, T, "initiated")
      BY <1>1, <1>5, ReadConnected
    <3>. QED BY <3>1 DEF Offers
  <2>2. /\ T.st = "initiated" /\ T.tls = S.tls /\ T.sasl = "none" /\ ~T.wait /\ SaysBoth(S, T, "stream", offer)
    BY <1>1, <1>2, <2>1 DEF Reaches, SaysBoth
  <2>3. "stream" \in Kinds /\ offer \in Kinds /\ "initiated" \in ServerStates
    BY <2>1 DEF Kinds, ServerStates, FeatureKinds
  <2>4. Continues(S, T) /\ T.policy = S.policy /\ Two(w, w2, "stream", offer)
    BY <1>1, <2>2, <2>3, SaysTwo
  <2>5. \A i \in 1..Len(w2) : i \in 1..Len(w) \/ i = Len(w) + 1 \/ i = Len(w) + 2
    BY <1>1, <2>4 DEF Two
  <2>6. PolicyOf(C, T, w2, v2)
    <3>1. Has(w2, "proceed") => Has(w, "proceed")
      BY <2>1, <2>4, <2>5 DEF Has, Two, FeatureKinds
    <3>2. (Has(v2, "starttls") => Has(v, "starttls")) /\ (Has(v2, "auth") => Has(v, "auth"))
      BY <1>1, ShiftHas
    <3>3. C.st \in {"connecting", "initiated", "awaiting_features"} => IsOpen(C)
      BY DEF IsOpen, Over, Closing
    <3>4. ASSUME C.st \in {"connecting", "initiated", "awaiting_features"}, ~C.tls, S.policy = "only_tls"
          PROVE  NoneFrom(w2, 1, {"features", "features_tls"})
      <4>1. ~S.tls /\ Len(w) = 0
        BY <1>3, <3>3, <3>4
      <4>2. offer = "features_required"
        BY <2>1, <3>4, <4>1
      <4>. QED BY <2>4, <2>5, <4>1, <4>2 DEF NoneFrom, Two
    <3>5. T.st \notin ServerPast
      BY <2>2 DEF ServerPast
    <3>6. PolicyOf(C, S, w, v)
      BY <1>1
    <3>. QED BY <1>1, <2>2, <2>4, <3>1, <3>2, <3>4, <3>5, <3>6 DEF PolicyOf
  <2>7. ASSUME IsOpen(C) PROVE InPhase(C, T, w2, v2)
    <3>1. Empty(v2) /\ C.st = "initiated" /\ C.tls = T.tls
      BY <1>3, <2>2, <2>7 DEF Empty
    <3>2. Len(w2) = 2 /\ w2[1].k = "stream" /\ w2[2].k \in FeatureKinds
      BY <1>3, <2>1, <2>4, <2>7 DEF Two
    <3>. QED BY <2>2, <3>1, <3>2 DEF InPhase, Opening1, SameTls
  <2>8. ASSUME ~IsOpen(C) PROVE ServerTakes(T.st, T.sasl = "busy", v2)
    <3>1. NoneFrom(v, 2, {"stream", "msg"}) /\ Followed(v, 2, Answered, {"abort", "bye", "fin"})
      BY <1>1, <1>5, <2>8 DEF ServerTakes, Starts
    <3>2. NoneFrom(v2, 1, {"stream", "msg"}) /\ Followed(v2, 1, Answered, {"abort", "bye", "fin"})
      BY <1>1, <3>1, ShiftNone, ShiftFollowed
    <3>. QED BY <2>2, <3>2 DEF ServerTakes
  <2>. QED BY <1>1, <2>2, <2>3, <2>4, <2>6, <2>7, <2>8, ServerMoves
<1>6. CASE e.k # "stream"
  <2>1. e.k \notin {"stream", "half", "end"}
    BY <1>3, <1>4, <1>6
  <2>2. ClosesWell(S, T)
    BY <1>1, <2>1, ReadConnected
  <2>. QED BY <1>1, <2>2, ServerCloses
<1>. QED BY <1>5, <1>6

LEMMA ServerOffersAgain ==
  ASSUME NEW C, NEW S, NEW T, NEW w, NEW v, NEW w2, NEW v2, NEW e, NEW outcome,
         ServerReads(C, S, T, w, v, w2, v2, e, outcome), S.st = "auth_connected"
  PROVE  Sides(C, T, w2, v2) /\ Result(S, T)
<1>0. ServerReading(C, S, T, w, v, w2, v2, e, outcome)
  BY ServerReadFacts
<1>1. /\ Sides(C, S, w, v) /\ Fresh(S) /\ S.site = "server" /\ e \in Units /\ T = Receive(S, e, outcome)
      /\ w \in Seq(Units) /\ v \in Seq(Units) /\ w2 \in Seq(Units) /\ v2 \in Seq(Units)
      /\ Len(w) \in Nat /\ Len(v) \in Nat /\ Len(w2) \in Nat /\ Len(v2) \in Nat
      /\ Len(v) > 0 /\ Len(v2) = Len(v) - 1 /\ \A i \in 1..Len(v2) : v2[i] = v[i + 1]
      /\ v[1] = e /\ Shifted(v, v2) /\ Fewer(v, v2) /\ OwnWord(S, T, w, w2) /\ PolicyOf(C, S, w, v)
      /\ IsOpen(C) => InPhase(C, S, w, v)
      /\ ~IsOpen(C) => ServerTakes(S.st, S.sasl = "busy", v)
      /\ S.policy \in Policies /\ S.sasl \in {"none", "idle", "busy"} /\ S.tls \in BOOLEAN
      /\ C.sasl \in {"none", "idle", "busy"} /\ C.tls \in BOOLEAN
      /\ ~S.wait /\ IsOpen(S)
  BY <1>0 DEF ServerReading

<1>2. S.sasl = "none"
  BY <1>1 DEF Fresh, EndOK
<1>3. IsOpen(C) => /\ e.k \in {"stream", "abort"}
                   /\ e.k = "stream" => C.st = "auth_initiated" /\ Len(w) = 0 /\ Len(v2) = 0 /\ C.tls = S.tls
  <2>. SUFFICES ASSUME IsOpen(C)
                PROVE  /\ e.k \in {"stream", "abort"}
                       /\ e.k = "stream" => C.st = "auth_initiated" /\ Len(w) = 0 /\ Len(v2) = 0 /\ C.tls = S.tls
    OBVIOUS
  <2>1. \/ All(v, {"abort"})
        \/ /\ C.st = "auth_initiated" /\ Empty(w) /\ v[Len(v)].k = "stream" /\ C.tls = S.tls
           /\ \A i \in 1..Len(v) - 1 : v[i].k = "abort"
    BY <1>1 DEF InPhase, Opening1, Encrypting, Authenticating, Authenticated, ServerBusy, ServerWaits,
       Failed, AsksAgain, Succeeds, SameTls
  <2>2. CASE All(v, {"abort"})
    <3>1. 1 \in 1..Len(v)
      BY <1>1
    <3>. QED BY <1>1, <2>2, <3>1 DEF All
  <2>3. CASE /\ C.st = "auth_initiated" /\ Empty(w) /\ v[Len(v)].k = "stream" /\ C.tls = S.tls
             /\ \A i \in 1..Len(v) - 1 : v[i].k = "abort"
    <3>1. CASE Len(v) = 1
      BY <1>1, <2>3, <3>1 DEF Empty
    <3>2. CASE Len(v) # 1
      <4>1. 1 \in 1..Len(v) - 1
        BY <1>1, <3>2
      <4>. QED BY <1>1, <2>3, <4>1
    <3>. QED BY <3>1, <3>2
  <2>. QED BY <2>1, <2>2, <2>3
<1>4. ~IsOpen(C) => e.k \in {"stream", "abort", "bye", "fin"}
  BY <1>1 DEF ServerTakes, Starts
<1>5. CASE e.k = "stream"
  <2>1. PICK offer \in FeatureKinds :
          Reaches(S, T, <<"stream">> \o <<offer>>, "ready", S.tls, S.sasl, S.wait)
    <3>1. Offers(S, T, "ready")
      BY <1>1, <1>5, ReadConnected
    <3>. QED BY <3>1 DEF Offers
  <2>2. /\ T.st = "ready" /\ T.tls = S.tls /\ T.sasl = "none" /\ ~T.wait /\ SaysBoth(S, T, "stream", offer)
    BY <1>1, <1>2, <2>1 DEF Reaches, SaysBoth
  <2>3. "stream" \in Kinds /\ offer \in Kinds /\ "ready" \in ServerStates
    BY <2>1 DEF Kinds, ServerStates, FeatureKinds
  <2>4. Continues(S, T) /\ T.policy = S.policy /\ Two(w, w2, "stream", offer)
    BY <1>1, <2>2, <2>3, SaysTwo
  <2>5. \A i \in 1..Len(w2) : i \in 1..Len(w) \/ i = Len(w) + 1 \/ i = Len(w) + 2
    BY <1>1, <2>4 DEF Two
  <2>6. PolicyOf(C, T, w2, v2)
    <3>1. Has(w2, "proceed") => Has(w, "proceed")
      BY <2>1, <2>4, <2>5 DEF Has, Two, FeatureKinds
    <3>2. (Has(v2, "starttls") => Has(v, "starttls")) /\ (Has(v2, "auth") => Has(v, "auth"))
      BY <1>1, ShiftHas
    <3>3. C.st \notin {"connecting", "initiated", "awaiting_features"}
      BY <1>3, <1>5 DEF IsOpen, Over, Closing
    <3>4. ~S.tls => C.policy # "only_tls" /\ S.policy # "only_tls"
      BY <1>1 DEF PolicyOf, ServerPast
    <3>5. PolicyOf(C, S, w, v)
      BY <1>1
    <3>. QED BY <1>1, <2>2, <2>4, <3>1, <3>2, <3>3, <3>4, <3>5 DEF PolicyOf
  <2>7. ASSUME IsOpen(C) PROVE InPhase(C, T, w2, v2)
    <3>1. Empty(v2) /\ C.st = "auth_initiated" /\ C.tls = T.tls
      BY <1>3, <1>5, <2>2, <2>7 DEF Empty
    <3>2. Len(w2) = 2 /\ w2[1].k = "stream" /\ w2[2].k \in FeatureKinds
      BY <1>3, <1>5, <2>1, <2>4, <2>7 DEF Two
    <3>3. AllFrom(w2, 3, MessageKinds)
      BY <3>2 DEF AllFrom
    <3>. QED BY <2>2, <3>1, <3>2, <3>3 DEF InPhase, Authenticated, SameTls
  <2>8. ASSUME ~IsOpen(C) PROVE ServerTakes(T.st, T.sasl = "busy", v2)
    <3>1. NoneFrom(v, 2, {"stream"})
      BY <1>1, <1>5, <2>8 DEF ServerTakes, Starts
    <3>2. NoneFrom(v2, 1, {"stream"})
      BY <1>1, <3>1, ShiftNone
    <3>. QED BY <2>2, <3>2 DEF ServerTakes
  <2>. QED BY <1>1, <2>2, <2>3, <2>4, <2>6, <2>7, <2>8, ServerMoves
<1>6. CASE e.k # "stream"
  <2>1. e.k \notin {"stream", "half", "end"}
    BY <1>3, <1>4, <1>6
  <2>2. ClosesWell(S, T)
    BY <1>1, <2>1, ReadConnected
  <2>. QED BY <1>1, <2>2, ServerCloses
<1>. QED BY <1>5, <1>6

LEMMA ServerReadsMessages ==
  ASSUME NEW C, NEW S, NEW T, NEW w, NEW v, NEW w2, NEW v2, NEW e, NEW outcome,
         ServerReads(C, S, T, w, v, w2, v2, e, outcome), S.st = "ready"
  PROVE  Sides(C, T, w2, v2) /\ Result(S, T)
<1>0. ServerReading(C, S, T, w, v, w2, v2, e, outcome)
  BY ServerReadFacts
<1>1. /\ Sides(C, S, w, v) /\ Fresh(S) /\ S.site = "server" /\ e \in Units /\ T = Receive(S, e, outcome)
      /\ w \in Seq(Units) /\ v \in Seq(Units) /\ w2 \in Seq(Units) /\ v2 \in Seq(Units)
      /\ Len(w) \in Nat /\ Len(v) \in Nat /\ Len(w2) \in Nat /\ Len(v2) \in Nat
      /\ Len(v) > 0 /\ Len(v2) = Len(v) - 1 /\ \A i \in 1..Len(v2) : v2[i] = v[i + 1]
      /\ v[1] = e /\ Shifted(v, v2) /\ Fewer(v, v2) /\ OwnWord(S, T, w, w2) /\ PolicyOf(C, S, w, v)
      /\ IsOpen(C) => InPhase(C, S, w, v)
      /\ ~IsOpen(C) => ServerTakes(S.st, S.sasl = "busy", v)
      /\ S.policy \in Policies /\ S.sasl \in {"none", "idle", "busy"} /\ S.tls \in BOOLEAN
      /\ C.sasl \in {"none", "idle", "busy"} /\ C.tls \in BOOLEAN
      /\ ~S.wait /\ IsOpen(S)
  BY <1>0 DEF ServerReading

<1>2. IsOpen(C) => /\ AllFrom(v, 1, MessageKinds) /\ AllFrom(v2, 1, MessageKinds) /\ C.st = "ready"
                   /\ AllFrom(w, 1, MessageKinds) /\ SameTls(C, S)
  <2>1. IsOpen(C) => /\ AllFrom(v, 1, MessageKinds) /\ C.st = "ready"
                     /\ AllFrom(w, 1, MessageKinds) /\ SameTls(C, S)
    BY <1>1 DEF InPhase, Opening1, Encrypting, Authenticating, Authenticated, ServerBusy, ServerWaits,
       Failed, AsksAgain, Succeeds, Empty
  <2>. QED BY <1>1, <2>1, ShiftAll
<1>3. ~IsOpen(C) => NoneFrom(v, 1, {"stream"}) /\ NoneFrom(v2, 1, {"stream"})
  BY <1>1, ShiftNone DEF ServerTakes
<1>4. e.k # "stream"
  <2>1. 1 \in 1..Len(v) /\ v[1].k = e.k
    BY <1>1
  <2>2. IsOpen(C) => e.k \in MessageKinds
    BY <1>2, <2>1 DEF AllFrom
  <2>3. ~IsOpen(C) => e.k # "stream"
    BY <1>3, <2>1 DEF NoneFrom
  <2>. QED BY <2>2, <2>3 DEF MessageKinds
<1>5. Same(S, T) \/ ClosesWell(S, T)
  BY <1>1, <1>4, ReadReady
<1>6. CASE Same(S, T)
  <2>1. IsOpen(C) => InPhase(C, S, w, v2)
    BY <1>2 DEF InPhase, Authenticated
  <2>2. ~IsOpen(C) => ServerTakes(S.st, S.sasl = "busy", v2)
    BY <1>3 DEF ServerTakes
  <2>. QED BY <1>0, <1>6, <2>1, <2>2, ServerIgnores
<1>7. CASE ClosesWell(S, T)
  BY <1>1, <1>7, ServerCloses
<1>. QED BY <1>5, <1>6, <1>7

LEMMA ServerShakesHands ==
  ASSUME NEW C, NEW S, NEW T, NEW w, NEW v, NEW w2, NEW v2, NEW e, NEW outcome,
         ServerReads(C, S, T, w, v, w2, v2, e, outcome), S.st = "handshaking"
  PROVE  Sides(C, T, w2, v2) /\ Result(S, T)
<1>0. ServerReading(C, S, T, w, v, w2, v2, e, outcome)
  BY ServerReadFacts
<1>1. /\ Sides(C, S, w, v) /\ Fresh(S) /\ S.site = "server" /\ e \in Units /\ T = Receive(S, e, outcome)
      /\ w \in Seq(Units) /\ v \in Seq(Units) /\ w2 \in Seq(Units) /\ v2 \in Seq(Units)
      /\ Len(w) \in Nat /\ Len(v) \in Nat /\ Len(w2) \in Nat /\ Len(v2) \in Nat
      /\ Len(v) > 0 /\ Len(v2) = Len(v) - 1 /\ \A i \in 1..Len(v2) : v2[i] = v[i + 1]
      /\ v[1] = e /\ Shifted(v, v2) /\ Fewer(v, v2) /\ OwnWord(S, T, w, w2) /\ PolicyOf(C, S, w, v)
      /\ IsOpen(C) => InPhase(C, S, w, v)
      /\ ~IsOpen(C) => ServerTakes(S.st, S.sasl = "busy", v)
      /\ S.policy \in Policies /\ S.sasl \in {"none", "idle", "busy"} /\ S.tls \in BOOLEAN
      /\ C.sasl \in {"none", "idle", "busy"} /\ C.tls \in BOOLEAN
      /\ ~S.wait /\ IsOpen(S)
  BY <1>0 DEF ServerReading

<1>2. S.sasl = "none" /\ S.tls
  BY <1>1 DEF Fresh, EndOK
<1>3. IsOpen(C) => C.st = "handshaking" /\ C.tls /\ Len(w) = 0 /\ Len(v2) = 0
  BY <1>1 DEF InPhase, Opening1, Encrypting, Authenticating, Authenticated, ServerBusy, ServerWaits,
     Failed, AsksAgain, Succeeds, Empty, Only
<1>4. ~IsOpen(C) => /\ NoneFrom(v2, 1, {"stream", "msg"})
                    /\ Followed(v, 1, Answered, {"abort", "bye", "fin"})
                    /\ Followed(v2, 1, Answered, {"abort", "bye", "fin"})
  BY <1>1, ShiftNone, ShiftFollowed DEF ServerTakes
<1>5. \/ ClosesWell(S, T)
      \/ /\ e.k = "finished"
         /\ \E ks \in {<<>>, <<"bye">>} : Closes(S, T, <<"done">> \o ks)
      \/ /\ e.k = "hello"
         /\ Reaches(S, T, <<"server_hello">>, "handshaking", S.tls, S.sasl, S.wait)
      \/ /\ e.k = "finished"
         /\ Reaches(S, T, <<"done">>, "connected", S.tls, S.sasl, S.wait)
  BY <1>1, ReadHandshakingServer
<1>6. CASE ClosesWell(S, T)
  BY <1>1, <1>6, ServerCloses
<1>7. CASE e.k = "finished" /\ \E ks \in {<<>>, <<"bye">>} : Closes(S, T, <<"done">> \o ks)
  <2>1. Refuses(S, T)
    BY <1>7 DEF Refuses
  <2>2. /\ w2 \in Seq(Units) /\ v2 \in Seq(Units) /\ Sides(C, S, w, v) /\ S.st = "handshaking"
        /\ Len(v) > 0 /\ v[1].k = "finished" /\ OwnWord(S, T, w, w2) /\ Fewer(v, v2)
    BY <1>1, <1>7
  <2>. QED BY <2>1, <2>2, ServerRefuses
<1>8. CASE e.k = "hello" /\ Reaches(S, T, <<"server_hello">>, "handshaking", S.tls, S.sasl, S.wait)
  <2>1. T.st = "handshaking" /\ T.tls /\ T.sasl = "none" /\ ~T.wait /\ Says(S, T, "server_hello")
    BY <1>1, <1>2, <1>8 DEF Reaches, Says
  <2>2. "server_hello" \in Kinds /\ "server_hello" \in Quiet /\ "handshaking" \in ServerStates
    BY DEF Kinds, Quiet, ServerStates
  <2>3. Continues(S, T) /\ T.policy = S.policy /\ One(w, w2, "server_hello")
    <3>1. OwnWord(S, T, w, w2) /\ w \in Seq(Units) /\ Says(S, T, "server_hello")
      BY <1>1, <2>1
    <3>. QED BY <2>2, <3>1, SaysOne
  <2>4. PolicyOf(C, T, w2, v2)
    <3>1. ServerKeeps(S, T)
      BY <1>2, <2>1, <2>3 DEF ServerKeeps, ServerPast
    <3>2. Fewer(w, w2)
      BY <1>1, <2>2, <2>3, FewerWords
    <3>. QED BY <1>1, <3>1, <3>2, PolicyKept, Keeps
  <2>5. ASSUME IsOpen(C) PROVE InPhase(C, T, w2, v2)
    <3>1. Only(w2, {"server_hello"}) /\ Empty(v2)
      BY <1>3, <2>3, <2>5 DEF Only, Empty, One
    <3>. QED BY <1>3, <2>1, <2>5, <3>1 DEF InPhase, Encrypting
  <2>6. ASSUME ~IsOpen(C) PROVE ServerTakes(T.st, T.sasl = "busy", v2)
    BY <1>4, <2>1, <2>6 DEF ServerTakes
  <2>. QED BY <1>1, <2>1, <2>2, <2>3, <2>4, <2>5, <2>6, ServerMoves
<1>9. CASE e.k = "finished" /\ Reaches(S, T, <<"done">>, "connected", S.tls, S.sasl, S.wait)
  <2>1. T.st = "connected" /\ T.tls /\ T.sasl = "none" /\ ~T.wait /\ Says(S, T, "done")
    BY <1>1, <1>2, <1>9 DEF Reaches, Says
  <2>2. "done" \in Kinds /\ "done" \in Quiet /\ "connected" \in ServerStates
    BY DEF Kinds, Quiet, ServerStates
  <2>3. Continues(S, T) /\ T.policy = S.policy /\ One(w, w2, "done")
    BY <1>1, <2>1, <2>2, SaysOne
  <2>4. PolicyOf(C, T, w2, v2)
    <3>1. ServerKeeps(S, T)
      BY <1>2, <2>1, <2>3 DEF ServerKeeps, ServerPast
    <3>2. Fewer(w, w2)
      BY <1>1, <2>2, <2>3, FewerWords
    <3>. QED BY <1>1, <3>1, <3>2, PolicyKept, Keeps
  <2>5. ASSUME IsOpen(C) PROVE InPhase(C, T, w2, v2)
    <3>1. Only(w2, {"done"}) /\ Empty(v2)
      BY <1>3, <2>3, <2>5 DEF Only, Empty, One
    <3>. QED BY <1>3, <2>1, <2>5, <3>1 DEF InPhase, Encrypting
  <2>6. ASSUME ~IsOpen(C) PROVE ServerTakes(T.st, T.sasl = "busy", v2)
    <3>1. Len(v2) > 0 => 1 \in 1..Len(v) - 1 /\ v2[1] = v[1 + 1]
      BY <1>1
    <3>2. Len(v2) > 0 => v[1 + 1].k \in {"abort", "bye", "fin"}
      <4>1. v[1].k \in Answered
        BY <1>1, <1>9 DEF Answered
      <4>. QED BY <1>4, <2>6, <3>1, <4>1 DEF Followed
    <3>3. CASE Len(v2) = 0
      <4>1. Starts(v2, {"stream", "abort", "bye", "fin"}) /\ NoneFrom(v2, 2, {"stream", "msg"})
            /\ Followed(v2, 2, Answered, {"abort", "bye", "fin"})
        BY <3>3 DEF Starts, NoneFrom, Followed
      <4>. QED BY <2>1, <4>1 DEF ServerTakes
    <3>4. CASE Len(v2) > 0
      <4>1. Starts(v2, {"stream", "abort", "bye", "fin"}) /\ ~Starts(v2, {"stream"})
        BY <3>1, <3>2, <3>4 DEF Starts
      <4>. QED BY <2>1, <4>1 DEF ServerTakes
    <3>. QED BY <1>1, <3>3, <3>4
  <2>. QED BY <1>1, <2>1, <2>2, <2>3, <2>4, <2>5, <2>6, ServerMoves
<1>. QED BY <1>5, <1>6, <1>7, <1>8, <1>9

LEMMA ServerNegotiates ==
  ASSUME NEW C, NEW S, NEW T, NEW w, NEW v, NEW w2, NEW v2, NEW e, NEW outcome,
         ServerReads(C, S, T, w, v, w2, v2, e, outcome), S.st = "initiated"
  PROVE  Sides(C, T, w2, v2) /\ Result(S, T)
<1>0. ServerReading(C, S, T, w, v, w2, v2, e, outcome)
  BY ServerReadFacts
<1>1. /\ Sides(C, S, w, v) /\ Fresh(S) /\ S.site = "server" /\ e \in Units /\ T = Receive(S, e, outcome)
      /\ w \in Seq(Units) /\ v \in Seq(Units) /\ w2 \in Seq(Units) /\ v2 \in Seq(Units)
      /\ Len(w) \in Nat /\ Len(v) \in Nat /\ Len(w2) \in Nat /\ Len(v2) \in Nat
      /\ Len(v) > 0 /\ Len(v2) = Len(v) - 1 /\ \A i \in 1..Len(v2) : v2[i] = v[i + 1]
      /\ v[1] = e /\ Shifted(v, v2) /\ Fewer(v, v2) /\ OwnWord(S, T, w, w2) /\ PolicyOf(C, S, w, v)
      /\ IsOpen(C) => InPhase(C, S, w, v)
      /\ ~IsOpen(C) => ServerTakes(S.st, S.sasl = "busy", v)
      /\ S.policy \in Policies /\ S.sasl \in {"none", "idle", "busy"} /\ S.tls \in BOOLEAN
      /\ C.sasl \in {"none", "idle", "busy"} /\ C.tls \in BOOLEAN
      /\ ~S.wait /\ IsOpen(S)
  BY <1>0 DEF ServerReading

<1>2. S.sasl = "none"
  BY <1>1 DEF Fresh, EndOK
<1>3. ASSUME IsOpen(C)
      PROVE  \/ /\ e.k = "starttls" /\ C.st = "encryption_requested" /\ Len(w) = 0 /\ Len(v2) = 0
                /\ ~C.tls /\ ~S.tls
             \/ C.st = "authenticating" /\ C.sasl # "busy" /\ SameTls(C, S)
                /\ \/ e.k = "abort" /\ Failed(C, S, w, v2)
                   \/ e.k = "abort" /\ AsksAgain(C, S, w, v2)
                   \/ e.k = "auth" /\ Empty(w) /\ All(v2, {"abort"}) /\ (C.sasl = "idle" => Empty(v2))
  <2>1. \/ Encrypting(C, S, w, v) /\ C.st = "encryption_requested"
        \/ Authenticating(C, S, w, v) /\ (Failed(C, S, w, v) \/ AsksAgain(C, S, w, v))
    BY <1>1, <1>3 DEF InPhase, Opening1, Encrypting, Authenticating, Authenticated, ServerBusy, ServerWaits,
       Succeeds, Empty
  <2>2. CASE Encrypting(C, S, w, v) /\ C.st = "encryption_requested"
    BY <1>1, <2>2 DEF Encrypting, Empty, Only
  <2>3. CASE Authenticating(C, S, w, v) /\ Failed(C, S, w, v)
    <3>1. All(v, {"abort"}) /\ All(v2, {"abort"})
      BY <1>1, <2>3, ShiftAll DEF Failed
    <3>2. e.k = "abort"
      <4>1. 1 \in 1..Len(v)
        BY <1>1
      <4>. QED BY <1>1, <3>1, <4>1 DEF All
    <3>3. Failed(C, S, w, v2)
      BY <2>3, <3>1 DEF Failed
    <3>. QED BY <1>1, <2>3, <3>2, <3>3 DEF Authenticating
  <2>4. CASE Authenticating(C, S, w, v) /\ AsksAgain(C, S, w, v)
    <3>1. PICK p \in 1..Len(v) : /\ v[p].k = "auth" /\ (C.sasl = "idle" => p = Len(v))
                                 /\ \A i \in 1..Len(v) : i # p => v[i].k = "abort"
      BY <2>4 DEF AsksAgain
    <3>2. Empty(w) /\ C.st = "authenticating" /\ C.sasl # "busy" /\ SameTls(C, S)
      BY <1>1, <2>4 DEF AsksAgain, Authenticating
    <3>3. \A i \in 1..Len(v2) : i + 1 \in 1..Len(v) /\ v2[i] = v[i + 1]
      BY <1>1
    <3>4. CASE p = 1
      <4>1. e.k = "auth"
        BY <1>1, <3>1, <3>4
      <4>2. \A i \in 1..Len(v2) : v2[i].k = "abort"
        BY <1>1, <3>1, <3>3, <3>4
      <4>3. C.sasl = "idle" => Len(v2) = 0
        BY <1>1, <3>1, <3>4
      <4>. QED BY <3>2, <4>1, <4>2, <4>3 DEF All, Empty
    <3>5. CASE p # 1
      <4>1. 1 \in 1..Len(v) /\ p - 1 \in 1..Len(v2)
        BY <1>1, <3>5
      <4>2. e.k = "abort"
        BY <1>1, <3>1, <3>5, <4>1
      <4>3. v2[p - 1].k = "auth"
        BY <1>1, <3>1, <3>3, <4>1
      <4>4. ASSUME NEW i \in 1..Len(v2), i # p - 1 PROVE v2[i].k = "abort"
        <5>1. i + 1 \in 1..Len(v) /\ v2[i] = v[i + 1]
          BY <3>3
        <5>2. i + 1 # p
          BY <4>4
        <5>. QED BY <3>1, <5>1, <5>2
      <4>5. C.sasl = "idle" => p - 1 = Len(v2)
        BY <1>1, <3>1
      <4>6. AsksAgain(C, S, w, v2)
        BY <2>4, <3>2, <4>1, <4>3, <4>4, <4>5 DEF AsksAgain
      <4>. QED BY <3>2, <4>2, <4>6
    <3>. QED BY <3>4, <3>5
  <2>. QED BY <2>1, <2>2, <2>3, <2>4
<1>4. ~IsOpen(C) => /\ NoneFrom(v, 1, {"stream", "msg"}) /\ NoneFrom(v2, 1, {"stream", "msg"})
                    /\ Followed(v, 1, Answered, {"abort", "bye", "fin"})
                    /\ Followed(v2, 1, Answered, {"abort", "bye", "fin"})
  BY <1>1, ShiftNone, ShiftFollowed DEF ServerTakes
<1>5. e.k \notin {"stream", "msg"}
  <2>1. IsOpen(C) => e.k \notin {"stream", "msg"}
    BY <1>3
  <2>2. 1 \in 1..Len(v)
    BY <1>1
  <2>3. ~IsOpen(C) => v[1].k \notin {"stream", "msg"}
    BY <1>4, <2>2 DEF NoneFrom
  <2>. QED BY <1>1, <2>1, <2>3
<1>6. \/ Same(S, T) /\ e.k \notin {"starttls", "auth"}
      \/ ClosesWell(S, T)
      \/ /\ e.k = "starttls" /\ ~S.tls /\ S.policy # "only_unsecured"
         /\ Reaches(S, T, <<"proceed">>, "handshaking", TRUE, S.sasl, S.wait)
      \/ /\ e.k = "auth" /\ (~S.tls => S.policy # "only_tls")
         /\ Reaches(S, T, <<>>, "authenticating", S.tls, "busy", S.wait)
  BY <1>1, <1>5, ReadServerInitiated
<1>7. CASE Same(S, T) /\ e.k \notin {"starttls", "auth"}
  <2>1. ASSUME IsOpen(C) PROVE InPhase(C, S, w, v2)
    <3>1. C.st = "authenticating" /\ C.sasl # "busy" /\ SameTls(C, S) /\ (Failed(C, S, w, v2) \/ AsksAgain(C, S, w, v2))
      BY <1>3, <1>7, <2>1
    <3>. QED BY <3>1 DEF InPhase, Authenticating
  <2>2. ASSUME ~IsOpen(C) PROVE ServerTakes(S.st, S.sasl = "busy", v2)
    BY <1>2, <1>4, <2>2 DEF ServerTakes
  <2>. QED BY <1>0, <1>7, <2>1, <2>2, ServerIgnores
<1>8. CASE ClosesWell(S, T)
  BY <1>1, <1>8, ServerCloses
<1>9. CASE /\ e.k = "starttls" /\ ~S.tls /\ S.policy # "only_unsecured"
           /\ Reaches(S, T, <<"proceed">>, "handshaking", TRUE, S.sasl, S.wait)
  <2>1. T.st = "handshaking" /\ T.tls /\ T.sasl = "none" /\ ~T.wait /\ Says(S, T, "proceed")
    BY <1>1, <1>2, <1>9 DEF Reaches, Says
  <2>2. "proceed" \in Kinds /\ "handshaking" \in ServerStates
    BY DEF Kinds, ServerStates
  <2>3. Continues(S, T) /\ T.policy = S.policy /\ One(w, w2, "proceed")
    BY <1>1, <2>1, <2>2, SaysOne
  <2>4. PolicyOf(C, T, w2, v2)
    <3>1. (Has(v2, "starttls") => Has(v, "starttls")) /\ (Has(v2, "auth") => Has(v, "auth"))
      BY <1>1, ShiftHas
    <3>2. Has(v, "starttls")
      <4>1. 1 \in 1..Len(v) /\ v[1].k = "starttls"
        BY <1>1, <1>9
      <4>. QED BY <4>1 DEF Has
    <3>3. C.st \notin {"connecting", "initiated", "awaiting_features"}
      BY <1>3 DEF IsOpen, Over, Closing
    <3>4. T.st \notin ServerPast
      BY <2>1 DEF ServerPast
    <3>5. PolicyOf(C, S, w, v)
      BY <1>1
    <3>. QED BY <1>9, <2>1, <2>3, <3>1, <3>2, <3>3, <3>4, <3>5 DEF PolicyOf
  <2>5. ASSUME IsOpen(C) PROVE InPhase(C, T, w2, v2)
    <3>1. C.st = "encryption_requested" /\ Len(w) = 0 /\ Len(v2) = 0 /\ ~C.tls
      BY <1>3, <1>9, <2>5
    <3>2. Only(w2, {"proceed"}) /\ Empty(v2)
      BY <2>3, <3>1 DEF Only, Empty, One
    <3>. QED BY <2>1, <3>1, <3>2 DEF InPhase, Encrypting
  <2>6. ASSUME ~IsOpen(C) PROVE ServerTakes(T.st, T.sasl = "busy", v2)
    BY <1>4, <2>1, <2>6 DEF ServerTakes
  <2>. QED BY <1>1, <2>1, <2>2, <2>3, <2>4, <2>5, <2>6, ServerMoves
<1>10. CASE /\ e.k = "auth" /\ (~S.tls => S.policy # "only_tls")
            /\ Reaches(S, T, <<>>, "authenticating", S.tls, "busy", S.wait)
  <2>1. T.st = "authenticating" /\ T.tls = S.tls /\ T.sasl = "busy" /\ ~T.wait /\ IsSilent(S, T)
    BY <1>1, <1>10 DEF Reaches, IsSilent
  <2>2. "authenticating" \in ServerStates
    BY DEF ServerStates
  <2>3. Continues(S, T) /\ T.policy = S.policy /\ w2 = w
    BY <1>1, <2>1, SaysNothing
  <2>4. PolicyOf(C, T, w2, v2)
    <3>1. (Has(v2, "starttls") => Has(v, "starttls")) /\ (Has(v2, "auth") => Has(v, "auth"))
      BY <1>1, ShiftHas
    <3>2. Has(v, "auth")
      <4>1. 1 \in 1..Len(v) /\ v[1].k = "auth"
        BY <1>1, <1>10
      <4>. QED BY <4>1 DEF Has
    <3>3. IsOpen(S)
      BY <1>1
    <3>4. PolicyOf(C, S, w, v)
      BY <1>1
    <3>. QED BY <1>10, <2>1, <2>3, <3>1, <3>2, <3>3, <3>4 DEF PolicyOf
  <2>5. ASSUME IsOpen(C) PROVE InPhase(C, T, w2, v2)
    <3>1. /\ C.st = "authenticating" /\ C.sasl # "busy" /\ SameTls(C, T) /\ Empty(w2) /\ All(v2, {"abort"})
          /\ C.sasl = "idle" => Empty(v2)
      BY <1>3, <1>10, <2>1, <2>3, <2>5 DEF SameTls
    <3>2. ServerBusy(C, T, w2, v2)
      BY <2>1, <3>1 DEF ServerBusy
    <3>. QED BY <3>1, <3>2 DEF InPhase, Authenticating
  <2>6. ASSUME ~IsOpen(C) PROVE ServerTakes(T.st, T.sasl = "busy", v2)
    <3>1. Len(v2) > 0 => 1 \in 1..Len(v) - 1 /\ v2[1] = v[1 + 1]
      BY <1>1
    <3>2. Len(v2) > 0 => v[1 + 1].k \in {"abort", "bye", "fin"}
      <4>1. v[1].k \in Answered
        BY <1>1, <1>10 DEF Answered
      <4>. QED BY <1>4, <2>6, <3>1, <4>1 DEF Followed
    <3>3. Starts(v2, {"abort", "bye", "fin"})
      BY <3>1, <3>2 DEF Starts
    <3>. QED BY <1>4, <2>1, <2>6, <3>3 DEF ServerTakes
  <2>. QED BY <1>1, <2>1, <2>2, <2>3, <2>4, <2>5, <2>6, ServerMoves
<1>. QED BY <1>6, <1>7, <1>8, <1>9, <1>10

LEMMA ServerAuthenticates ==
  ASSUME NEW C, NEW S, NEW T, NEW w, NEW v, NEW w2, NEW v2, NEW e, NEW outcome,
         ServerReads(C, S, T, w, v, w2, v2, e, outcome), S.st = "authenticating"
  PROVE  Sides(C, T, w2, v2) /\ Result(S, T)
<1>0. ServerReading(C, S, T, w, v, w2, v2, e, outcome)
  BY ServerReadFacts
<1>1. /\ Sides(C, S, w, v) /\ Fresh(S) /\ S.site = "server" /\ e \in Units /\ T = Receive(S, e, outcome)
      /\ w \in Seq(Units) /\ v \in Seq(Units) /\ w2 \in Seq(Units) /\ v2 \in Seq(Units)
      /\ Len(w) \in Nat /\ Len(v) \in Nat /\ Len(w2) \in Nat /\ Len(v2) \in Nat
      /\ Len(v) > 0 /\ Len(v2) = Len(v) - 1 /\ \A i \in 1..Len(v2) : v2[i] = v[i + 1]
      /\ v[1] = e /\ Shifted(v, v2) /\ Fewer(v, v2) /\ OwnWord(S, T, w, w2) /\ PolicyOf(C, S, w, v)
      /\ IsOpen(C) => InPhase(C, S, w, v)
      /\ ~IsOpen(C) => ServerTakes(S.st, S.sasl = "busy", v)
      /\ S.policy \in Policies /\ S.sasl \in {"none", "idle", "busy"} /\ S.tls \in BOOLEAN
      /\ C.sasl \in {"none", "idle", "busy"} /\ C.tls \in BOOLEAN
      /\ ~S.wait /\ IsOpen(S)
  BY <1>0 DEF ServerReading

<1>2. ASSUME IsOpen(C)
      PROVE  /\ C.st = "authenticating" /\ C.sasl # "busy" /\ SameTls(C, S)
             /\ All(v2, {"abort"}) /\ (C.sasl = "idle" => Empty(v2)) /\ e.k \in {"abort", "response"}
             /\ Empty(w) \/ (C.sasl = "none" /\ Only(w, {"challenge"}) /\ e.k = "abort")
             /\ S.sasl = "busy" => e.k = "abort"
  <2>1. Authenticating(C, S, w, v)
    BY <1>1, <1>2 DEF InPhase, Opening1, Encrypting, Authenticated
  <2>2. C.st = "authenticating" /\ C.sasl # "busy" /\ SameTls(C, S)
    BY <1>1, <2>1 DEF Authenticating, Empty
  <2>3. C.sasl = "idle" \/ C.sasl = "none"
    BY <1>1, <2>2
  <2>4. 1 \in 1..Len(v) /\ v[1].k = e.k
    BY <1>1
  <2>5. ServerBusy(C, S, w, v) \/ ServerWaits(C, S, w, v)
    BY <1>1, <2>1 DEF Authenticating, Failed, AsksAgain, Succeeds
  <2>6. CASE ServerBusy(C, S, w, v)
    <3>1. All(v, {"abort"}) /\ All(v2, {"abort"}) /\ Empty(w) /\ C.sasl # "idle"
      BY <1>1, <2>6, ShiftAll DEF ServerBusy, Empty
    <3>2. e.k = "abort"
      BY <2>4, <3>1 DEF All
    <3>. QED BY <2>2, <3>1, <3>2
  <2>7. CASE ServerWaits(C, S, w, v)
    <3>1. CASE C.sasl = "idle"
      <4>1. Empty(w) /\ Only(v, {"response"}) /\ S.sasl # "busy"
        BY <1>1, <2>7, <3>1 DEF ServerWaits, Empty
      <4>2. Len(v2) = 0 /\ e.k = "response"
        BY <1>1, <4>1 DEF Only
      <4>3. All(v2, {"abort"}) /\ Empty(v2)
        BY <4>2 DEF All, Empty
      <4>. QED BY <2>2, <4>1, <4>2, <4>3
    <3>2. CASE C.sasl = "none"
      <4>1. /\ Empty(w) \/ (Only(w, {"challenge"}) /\ All(v, {"abort"}))
            /\ Starts(v, {"abort", "response"}) /\ AllFrom(v, 2, {"abort"}) /\ S.sasl # "busy"
        BY <2>7, <3>2 DEF ServerWaits
      <4>2. AllFrom(v2, 1, {"abort"})
        BY <1>1, <4>1, ShiftAll
      <4>3. All(v2, {"abort"})
        BY <4>2 DEF All, AllFrom
      <4>4. e.k \in {"abort", "response"}
        BY <1>1, <4>1 DEF Starts
      <4>5. All(v, {"abort"}) => e.k = "abort"
        BY <2>4 DEF All
      <4>. QED BY <2>2, <3>2, <4>1, <4>3, <4>4, <4>5
    <3>. QED BY <2>3, <3>1, <3>2
  <2>. QED BY <2>5, <2>6, <2>7
<1>3. ~IsOpen(C) => /\ NoneFrom(v, 1, {"stream", "msg"}) /\ NoneFrom(v2, 1, {"stream", "msg"})
                    /\ Followed(v, 1, Answered, {"abort", "bye", "fin"})
                    /\ Followed(v2, 1, Answered, {"abort", "bye", "fin"})
                    /\ S.sasl = "busy" => e.k \in {"abort", "bye", "fin"}
  <2>1. ~IsOpen(C) => /\ NoneFrom(v, 1, {"stream", "msg"})
                      /\ Followed(v, 1, Answered, {"abort", "bye", "fin"})
                      /\ S.sasl = "busy" => Starts(v, {"abort", "bye", "fin"})
    BY <1>1 DEF ServerTakes
  <2>. QED BY <1>1, <2>1, ShiftNone, ShiftFollowed DEF Starts
<1>4. e.k \notin {"stream", "msg"}
  <2>1. IsOpen(C) => e.k \notin {"stream", "msg"}
    BY <1>2
  <2>2. 1 \in 1..Len(v)
    BY <1>1
  <2>3. ~IsOpen(C) => v[1].k \notin {"stream", "msg"}
    BY <1>3, <2>2 DEF NoneFrom
  <2>. QED BY <1>1, <2>1, <2>3
<1>5. CASE e.k \in {"bye", "fin"}
  <2>1. ClosesWell(S, T)
    BY <1>1, <1>5, ReadFin
  <2>. QED BY <1>1, <2>1, ServerCloses
<1>6. \/ Same(S, T) /\ e.k \notin {"response", "abort"}
      \/ ClosesWell(S, T) /\ e.k \notin {"response", "abort"}
      \/ /\ e.k \in {"response", "abort"}
         /\ Reaches(S, T, <<"failure">>, "initiated", S.tls, "none", S.wait)
      \/ /\ e.k = "response" /\ S.sasl = "idle"
         /\ Reaches(S, T, <<>>, "authenticating", S.tls, "busy", S.wait)
  BY <1>1, <1>4, ReadAuthenticatingServer
<1>7. CASE Same(S, T) /\ e.k \notin {"response", "abort", "bye", "fin"}
  <2>1. ~IsOpen(C)
    BY <1>2, <1>7
  <2>2. S.sasl # "busy"
    BY <1>3, <1>7, <2>1
  <2>3. ServerTakes(S.st, S.sasl = "busy", v2)
    BY <1>3, <2>1, <2>2 DEF ServerTakes
  <2>. QED BY <1>0, <1>7, <2>1, <2>3, ServerIgnores
<1>8. CASE ClosesWell(S, T)
  BY <1>1, <1>8, ServerCloses
<1>9. CASE /\ e.k \in {"response", "abort"}
           /\ Reaches(S, T, <<"failure">>, "initiated", S.tls, "none", S.wait)
  <2>1. T.st = "initiated" /\ T.tls = S.tls /\ T.sasl = "none" /\ ~T.wait /\ Says(S, T, "failure")
    BY <1>1, <1>9 DEF Reaches, Says
  <2>2. "failure" \in Kinds /\ "failure" \in Quiet /\ "initiated" \in ServerStates
    BY DEF Kinds, Quiet, ServerStates
  <2>3. Continues(S, T) /\ T.policy = S.policy /\ One(w, w2, "failure")
    BY <1>1, <2>1, <2>2, SaysOne
  <2>4. PolicyOf(C, T, w2, v2)
    <3>1. ServerKeeps(S, T)
      BY <1>1, <2>1, <2>3 DEF ServerKeeps, ServerPast
    <3>2. Fewer(w, w2)
      BY <1>1, <2>2, <2>3, FewerWords
    <3>. QED BY <1>1, <3>1, <3>2, PolicyKept, Keeps
  <2>5. ASSUME IsOpen(C) PROVE InPhase(C, T, w2, v2)
    <3>1. \/ Only(w2, {"failure"})
          \/ C.sasl = "none" /\ Len(w2) = 2 /\ w2[1].k = "challenge" /\ w2[2].k = "failure"
      <4>1. CASE Len(w) = 0
        BY <2>3, <4>1 DEF One, Only
      <4>2. CASE C.sasl = "none" /\ Len(w) = 1 /\ w[1].k = "challenge"
        <5>1. 1 \in 1..Len(w) /\ Len(w2) = 2 /\ w2[1] = w[1] /\ w2[2].k = "failure"
          BY <1>1, <2>3, <4>2 DEF One
        <5>. QED BY <4>2, <5>1
      <4>. QED BY <1>2, <2>5, <4>1, <4>2 DEF Only, Empty
    <3>2. C.st = "authenticating" /\ C.sasl # "busy" /\ SameTls(C, T) /\ All(v2, {"abort"})
      BY <1>2, <2>1, <2>5 DEF SameTls
    <3>3. Failed(C, T, w2, v2)
      BY <2>1, <3>1, <3>2 DEF Failed
    <3>. QED BY <3>2, <3>3 DEF InPhase, Authenticating
  <2>6. ASSUME ~IsOpen(C) PROVE ServerTakes(T.st, T.sasl = "busy", v2)
    BY <1>3, <2>1, <2>6 DEF ServerTakes
  <2>. QED BY <1>1, <2>1, <2>2, <2>3, <2>4, <2>5, <2>6, ServerMoves
<1>10. CASE /\ e.k = "response" /\ S.sasl = "idle"
            /\ Reaches(S, T, <<>>, "authenticating", S.tls, "busy", S.wait)
  <2>1. T.st = "authenticating" /\ T.tls = S.tls /\ T.sasl = "busy" /\ ~T.wait /\ IsSilent(S, T)
    BY <1>1, <1>10 DEF Reaches, IsSilent
  <2>2. "authenticating" \in ServerStates
    BY DEF ServerStates
  <2>3. Continues(S, T) /\ T.policy = S.policy /\ w2 = w
    BY <1>1, <2>1, SaysNothing
  <2>4. PolicyOf(C, T, w2, v2)
    <3>1. ServerKeeps(S, T)
      BY <1>1, <2>1, <2>3 DEF ServerKeeps, ServerPast
    <3>2. Fewer(w, w2)
      BY <1>1, <2>3, FewerWords
    <3>. QED BY <1>1, <3>1, <3>2, PolicyKept, Keeps
  <2>5. ASSUME IsOpen(C) PROVE InPhase(C, T, w2, v2)
    <3>1. /\ C.st = "authenticating" /\ C.sasl # "busy" /\ SameTls(C, T) /\ Empty(w2) /\ All(v2, {"abort"})
          /\ C.sasl = "idle" => Empty(v2)
      BY <1>2, <1>10, <2>1, <2>3, <2>5 DEF SameTls
    <3>2. ServerBusy(C, T, w2, v2)
      BY <2>1, <3>1 DEF ServerBusy
    <3>. QED BY <3>1, <3>2 DEF InPhase, Authenticating
  <2>6. ASSUME ~IsOpen(C) PROVE ServerTakes(T.st, T.sasl = "busy", v2)
    <3>1. Len(v2) > 0 => 1 \in 1..Len(v) - 1 /\ v2[1] = v[1 + 1]
      BY <1>1
    <3>2. Len(v2) > 0 => v[1 + 1].k \in {"abort", "bye", "fin"}
      <4>1. v[1].k \in Answered
        BY <1>1, <1>10 DEF Answered
      <4>. QED BY <1>3, <2>6, <3>1, <4>1 DEF Followed
    <3>3. Starts(v2, {"abort", "bye", "fin"})
      BY <3>1, <3>2 DEF Starts
    <3>. QED BY <1>3, <2>1, <2>6, <3>3 DEF ServerTakes
  <2>. QED BY <1>1, <2>1, <2>2, <2>3, <2>4, <2>5, <2>6, ServerMoves
<1>. QED BY <1>5, <1>6, <1>7, <1>8, <1>9, <1>10

LEMMA ServerReadsWell ==
  ASSUME NEW C, NEW S, NEW T, NEW w, NEW v, NEW w2, NEW v2, NEW e, NEW outcome,
         ServerReads(C, S, T, w, v, w2, v2, e, outcome)
  PROVE  Sides(C, T, w2, v2) /\ Result(S, T)
<1>1. S.st \in ServerStates
  BY DEF ServerReads, Sides, EndOK, IsOpen
<1>. QED
  BY <1>1, ServerOffers, ServerOffersAgain, ServerReadsMessages, ServerShakesHands, ServerNegotiates,
     ServerAuthenticates DEF ServerStates

(***************************************************************************)
(* What the ends do of themselves                                          *)
(***************************************************************************)
\* The client's own step.
LEMMA ClientFacts ==
  ASSUME NEW C, NEW S, NEW w, NEW v, Sides(C, S, w, v)
  PROVE  /\ C \in Ends /\ S \in Ends /\ w \in Seq(Units) /\ v \in Seq(Units) /\ Len(w) \in Nat /\ Len(v) \in Nat
         /\ C.site = "client" /\ S.site = "server" /\ EndOK(C) /\ EndOK(S) /\ PolicyOf(C, S, w, v)
         /\ C.sasl \in {"none", "idle", "busy"} /\ C.tls \in BOOLEAN
         /\ S.sasl \in {"none", "idle", "busy"} /\ S.tls \in BOOLEAN
         /\ IsOpen(C) /\ IsOpen(S) => InPhase(C, S, w, v)
         /\ IsOpen(C) /\ ~IsOpen(S) => ClientTakes(C.st, w)
         /\ ~IsOpen(C) /\ IsOpen(S) => ServerTakes(S.st, S.sasl = "busy", v)
         /\ Fewer(w, w) /\ Fewer(v, v)
         /\ IsOpen(C) /\ C.st # "connecting" => Fresh(C)
         /\ IsOpen(S) => Fresh(S)
<1>1. /\ C \in Ends /\ S \in Ends /\ w \in Seq(Units) /\ v \in Seq(Units)
      /\ C.site = "client" /\ S.site = "server" /\ EndOK(C) /\ EndOK(S) /\ PolicyOf(C, S, w, v)
      /\ JointOf(C, S, w, v)
  BY DEF Sides
<1>2. /\ IsOpen(C) /\ IsOpen(S) => InPhase(C, S, w, v)
      /\ IsOpen(C) /\ ~IsOpen(S) => ClientTakes(C.st, w)
      /\ ~IsOpen(C) /\ IsOpen(S) => ServerTakes(S.st, S.sasl = "busy", v)
  BY <1>1 DEF JointOf
<1>3. Len(w) \in Nat /\ Len(v) \in Nat /\ Fewer(w, w) /\ Fewer(v, v)
  BY <1>1, LenProperties, FewerWords
<1>4. /\ C.sasl \in {"none", "idle", "busy"} /\ C.tls \in BOOLEAN
      /\ S.sasl \in {"none", "idle", "busy"} /\ S.tls \in BOOLEAN
      /\ C.tcp \in {"connecting", "connected", "closed"} /\ S.tcp \in {"connecting", "connected", "closed"}
  BY <1>1, EndFields
<1>5. IsOpen(C) /\ C.st # "connecting" => Fresh(C)
  BY <1>1, <1>4 DEF Fresh, EndOK, IsOpen, Over
<1>6. IsOpen(S) => Fresh(S)
  BY <1>1, <1>4 DEF Fresh, EndOK, IsOpen, Over, ServerStates
<1>. QED BY <1>1, <1>2, <1>3, <1>4, <1>5, <1>6

LEMMA ClientAnswers ==
  ASSUME NEW C, NEW D, NEW S, NEW w, NEW v, NEW v2 \in Seq(Units), Sides(C, S, w, v), C.sasl = "busy",
         NEW outcome \in {"more", "done", "error"}, D = SaslResult(C, outcome), OwnWord(C, D, v, v2)
  PROVE  Sides(D, S, w, v2) /\ Result(C, D)
<1>1. /\ C \in Ends /\ w \in Seq(Units) /\ v \in Seq(Units) /\ Len(w) \in Nat /\ Len(v) \in Nat
      /\ C.site = "client" /\ EndOK(C) /\ PolicyOf(C, S, w, v) /\ Fewer(w, w)
  BY ClientFacts
<1>2. C.st = "authenticating" /\ IsOpen(C) /\ ~C.wait
  BY <1>1 DEF EndOK, IsOpen, Over, Closing
<1>3. Fresh(C) /\ C.tcp = "connected"
  BY <1>2, ClientFacts DEF Fresh
<1>4. \/ Reaches(C, D, <<"response">>, "authenticating", C.tls, "idle", C.wait)
      \/ ClosesLate(C, D)
  BY <1>1, <1>3, AnswerReaches
<1>5. CASE ClosesLate(C, D)
  BY <1>1, <1>2, <1>3, <1>5, ClientCloses
<1>6. CASE Reaches(C, D, <<"response">>, "authenticating", C.tls, "idle", C.wait)
  <2>1. /\ D.st = "authenticating" /\ D.tls = C.tls /\ D.sasl = "idle" /\ ~D.wait /\ Says(C, D, "response")
    BY <1>2, <1>6 DEF Reaches, Says
  <2>2. "response" \in Kinds /\ "response" \in Quiet /\ "authenticating" \in ClientStates \ {"connecting"}
    BY DEF Kinds, Quiet, ClientStates
  <2>3. Continues(C, D) /\ D.policy = C.policy /\ One(v, v2, "response")
    BY <1>1, <2>1, <2>2, SaysOne
  <2>4. PolicyOf(D, S, w, v2)
    <3>1. ClientKeeps(C, D)
      BY <1>2, <2>1, <2>3 DEF ClientKeeps, ClientPast, ClientEarly
    <3>2. Fewer(v, v2)
      BY <1>1, <2>2, <2>3, FewerWords
    <3>. QED BY <1>1, <3>1, <3>2, PolicyKept, Keeps
  <2>5. ASSUME IsOpen(S) PROVE InPhase(D, S, w, v2)
    <3>1. InPhase(C, S, w, v)
      BY <1>2, <2>5, ClientFacts
    <3>2. S.st = "authenticating" /\ S.sasl # "busy" /\ Len(w) = 0 /\ Len(v) = 0 /\ SameTls(C, S)
      BY <1>2, <3>1 DEF InPhase, Opening1, Encrypting, Authenticating, Authenticated, Empty
    <3>3. Only(v2, {"response"}) /\ Empty(w) /\ SameTls(D, S)
      BY <2>1, <2>3, <3>2 DEF One, Only, Empty, SameTls
    <3>4. ServerWaits(D, S, w, v2)
      BY <2>1, <3>2, <3>3 DEF ServerWaits
    <3>. QED BY <2>1, <3>3, <3>4 DEF InPhase, Authenticating
  <2>6. ASSUME ~IsOpen(S) PROVE ClientTakes(D.st, w)
    BY <1>2, <2>1, <2>6, ClientFacts
  <2>. QED BY <1>1, <1>2, <1>3, <2>1, <2>2, <2>3, <2>4, <2>5, <2>6, ClientMoves
<1>. QED BY <1>4, <1>5, <1>6

\* The certificate callback has accepted the server, or has refused it.
LEMMA ClientVerifies ==
  ASSUME NEW C, NEW D, NEW S, NEW w, NEW v, NEW v2 \in Seq(Units), Sides(C, S, w, v), C.wait,
         D = VerifyContinue(C) \/ D = VerifyCancel(C), OwnWord(C, D, v, v2)
  PROVE  Sides(D, S, w, v2) /\ Result(C, D)
<1>1. /\ C \in Ends /\ w \in Seq(Units) /\ v \in Seq(Units) /\ Len(w) \in Nat /\ Len(v) \in Nat
      /\ C.site = "client" /\ EndOK(C) /\ PolicyOf(C, S, w, v) /\ Fewer(w, w)
  BY ClientFacts
<1>2. C.st = "connected" /\ C.tls /\ C.sasl = "none" /\ IsOpen(C)
  BY <1>1 DEF EndOK, IsOpen, Over, Closing
<1>3. Fresh(C) /\ C.tcp = "connected"
  BY <1>2, ClientFacts DEF Fresh
<1>4. \/ Reaches(C, D, <<"stream">>, "initiated", C.tls, C.sasl, FALSE)
      \/ ClosesWell(C, D)
  BY <1>3, VerifyReaches
<1>5. CASE ClosesWell(C, D)
  BY <1>1, <1>2, <1>3, <1>5, ClientCloses
<1>6. CASE Reaches(C, D, <<"stream">>, "initiated", C.tls, C.sasl, FALSE)
  <2>1. D.st = "initiated" /\ D.tls = C.tls /\ D.sasl = "none" /\ ~D.wait /\ Says(C, D, "stream")
    BY <1>2, <1>6 DEF Reaches, Says
  <2>2. "stream" \in Kinds /\ "stream" \in Quiet /\ "initiated" \in ClientStates \ {"connecting"}
    BY DEF Kinds, Quiet, ClientStates
  <2>3. Continues(C, D) /\ D.policy = C.policy /\ One(v, v2, "stream")
    BY <1>1, <2>1, <2>2, SaysOne
  <2>4. PolicyOf(D, S, w, v2)
    <3>1. ClientKeeps(C, D)
      BY <1>2, <2>1, <2>3 DEF ClientKeeps, ClientPast, ClientEarly
    <3>2. Fewer(v, v2)
      BY <1>1, <2>2, <2>3, FewerWords
    <3>. QED BY <1>1, <3>1, <3>2, PolicyKept, Keeps
  <2>5. ASSUME IsOpen(S) PROVE InPhase(D, S, w, v2)
    <3>1. InPhase(C, S, w, v)
      BY <1>2, <2>5, ClientFacts
    <3>2. S.st = "connected" /\ S.tls /\ Len(w) = 0 /\ Len(v) = 0
      BY <1>2, <3>1 DEF InPhase, Opening1, Encrypting, Authenticating, Authenticated, Empty
    <3>3. Only(v2, {"stream"}) /\ Empty(w)
      BY <2>3, <3>2 DEF One, Only, Empty
    <3>4. SameTls(D, S)
      <4>1. C.tls \in BOOLEAN /\ S.tls \in BOOLEAN
        BY ClientFacts
      <4>. QED BY <1>2, <2>1, <3>2, <4>1 DEF SameTls
    <3>. QED BY <2>1, <3>2, <3>3, <3>4 DEF InPhase, Opening1
  <2>6. ASSUME ~IsOpen(S) PROVE ClientTakes(D.st, w)
    <3>1. ClientTakes(C.st, w)
      BY <1>2, <2>6, ClientFacts
    <3>2. Len(w) = 0 \/ w[1].k \in {"bye", "fin"}
      BY <1>1, <1>2, <3>1 DEF ClientTakes, Starts
    <3>3. NoneFrom(w, 2, {"stream", "half", "msg", "done"}) \/ ~Starts(w, {"stream"})
      <4>1. CASE Len(w) = 0
        BY <4>1 DEF NoneFrom
      <4>2. CASE w[1].k \in {"bye", "fin"} /\ Len(w) > 0
        BY <4>2 DEF Starts
      <4>. QED BY <1>1, <3>2, <4>1, <4>2
    <3>. QED BY <2>1, <3>2, <3>3 DEF ClientTakes
  <2>. QED BY <1>1, <1>2, <1>3, <2>1, <2>2, <2>3, <2>4, <2>5, <2>6, ClientMoves
<1>. QED BY <1>4, <1>5, <1>6

\* The application gives the exchange up, and the client says so.
LEMMA ClientResets ==
  ASSUME NEW C, NEW D, NEW S, NEW w, NEW v, NEW v2 \in Seq(Units), Sides(C, S, w, v),
         C.st = "authenticating", C.sasl # "none", D = ResetSasl(C), OwnWord(C, D, v, v2)
  PROVE  Sides(D, S, w, v2) /\ Result(C, D)
<1>1. /\ C \in Ends /\ w \in Seq(Units) /\ v \in Seq(Units) /\ Len(w) \in Nat /\ Len(v) \in Nat
      /\ C.site = "client" /\ EndOK(C) /\ PolicyOf(C, S, w, v) /\ Fewer(w, w)
      /\ C.sasl \in {"none", "idle", "busy"}
  BY ClientFacts
<1>2. IsOpen(C) /\ ~C.wait
  BY <1>1 DEF EndOK, IsOpen, Over, Closing
<1>3. Fresh(C) /\ C.tcp = "connected"
  BY <1>2, ClientFacts DEF Fresh
<1>4. Reaches(C, D, <<"abort">>, "authenticating", C.tls, "none", C.wait)
  BY <1>1, <1>3, ResetReaches
<1>5. /\ D.st = "authenticating" /\ D.tls = C.tls /\ D.sasl = "none" /\ ~D.wait /\ Says(C, D, "abort")
  BY <1>2, <1>4 DEF Reaches, Says
<1>6. "abort" \in Kinds /\ "abort" \in Quiet /\ "authenticating" \in ClientStates \ {"connecting"}
  BY DEF Kinds, Quiet, ClientStates
<1>7. Continues(C, D) /\ D.policy = C.policy /\ One(v, v2, "abort")
  BY <1>1, <1>5, <1>6, SaysOne
<1>8. PolicyOf(D, S, w, v2)
  <2>1. ClientKeeps(C, D)
    BY <1>5, <1>7 DEF ClientKeeps, ClientPast, ClientEarly
  <2>2. Fewer(v, v2)
    BY <1>1, <1>6, <1>7, FewerWords
  <2>. QED BY <1>1, <2>1, <2>2, PolicyKept, Keeps
<1>9. ASSUME IsOpen(S) PROVE InPhase(D, S, w, v2)
  <2>1. InPhase(C, S, w, v)
    BY <1>2, <1>9, ClientFacts
  <2>2. Authenticating(C, S, w, v)
    BY <1>2, <2>1 DEF InPhase, Opening1, Encrypting, Authenticated
  <2>3. \A i \in 1..Len(v2) : i \in 1..Len(v) \/ (i = Len(v) + 1 /\ v2[i].k = "abort")
    BY <1>1, <1>7 DEF One
  <2>4. All(v, {"abort"}) => All(v2, {"abort"})
    BY <1>7, <2>3 DEF All, One
  <2>5. Empty(v) => All(v2, {"abort"}) /\ Starts(v2, {"abort", "response"}) /\ AllFrom(v2, 2, {"abort"})
    BY <1>7 DEF Empty, All, Starts, AllFrom, One
  <2>6. Only(v, {"response"}) => Starts(v2, {"abort", "response"}) /\ AllFrom(v2, 2, {"abort"})
    <3>. SUFFICES ASSUME Len(v) = 1, v[1].k = "response"
                  PROVE  Starts(v2, {"abort", "response"}) /\ AllFrom(v2, 2, {"abort"})
      BY DEF Only
    <3>1. Len(v2) = 2 /\ 1 \in 1..Len(v) /\ v2[1] = v[1] /\ v2[2].k = "abort"
      BY <1>7 DEF One
    <3>2. \A i \in 2..Len(v2) : i = 2
      BY <3>1
    <3>. QED BY <3>1, <3>2 DEF Starts, AllFrom
  <2>7. CASE ServerBusy(C, S, w, v)
    <3>1. ServerBusy(D, S, w, v2)
      BY <1>5, <2>4, <2>7 DEF ServerBusy
    <3>. QED BY <1>5, <2>2, <3>1 DEF InPhase, Authenticating, SameTls
  <2>8. CASE ServerWaits(C, S, w, v)
    <3>1. S.st = "authenticating" /\ S.sasl # "busy"
      BY <2>8 DEF ServerWaits
    <3>2. \/ Empty(w) /\ Empty(v)
          \/ Only(w, {"challenge"}) /\ Empty(v)
          \/ Empty(w) /\ Only(v, {"response"})
      BY <1>1, <2>2, <2>8 DEF ServerWaits, Authenticating
    <3>3. ServerWaits(D, S, w, v2)
      BY <1>5, <2>5, <2>6, <3>1, <3>2 DEF ServerWaits
    <3>. QED BY <1>5, <2>2, <3>3 DEF InPhase, Authenticating, SameTls
  <2>9. CASE Failed(C, S, w, v)
    <3>1. Failed(D, S, w, v2)
      BY <1>5, <2>4, <2>9 DEF Failed
    <3>. QED BY <1>5, <2>2, <3>1 DEF InPhase, Authenticating, SameTls
  <2>10. CASE AsksAgain(C, S, w, v)
    <3>1. PICK p \in 1..Len(v) : v[p].k = "auth" /\ \A i \in 1..Len(v) : i # p => v[i].k = "abort"
      BY <2>10 DEF AsksAgain
    <3>2. p \in 1..Len(v2) /\ v2[p].k = "auth"
      BY <1>1, <1>7, <3>1 DEF One
    <3>3. \A i \in 1..Len(v2) : i # p => v2[i].k = "abort"
      BY <1>7, <2>3, <3>1 DEF One
    <3>4. AsksAgain(D, S, w, v2)
      BY <1>5, <2>10, <3>2, <3>3 DEF AsksAgain
    <3>. QED BY <1>5, <2>2, <3>4 DEF InPhase, Authenticating, SameTls
  <2>11. CASE Succeeds(C, S, w, v)
    <3>1. Succeeds(D, S, w, v2)
      BY <2>4, <2>11 DEF Succeeds
    <3>. QED BY <1>5, <2>2, <3>1 DEF InPhase, Authenticating, SameTls
  <2>. QED BY <2>2, <2>7, <2>8, <2>9, <2>10, <2>11 DEF Authenticating
<1>10. ASSUME ~IsOpen(S) PROVE ClientTakes(D.st, w)
  BY <1>2, <1>5, <1>10, ClientFacts
<1>. QED BY <1>1, <1>2, <1>3, <1>5, <1>6, <1>7, <1>8, <1>9, <1>10, ClientMoves

\* The server's SASL context has an answer.
LEMMA ServerAnswers ==
  ASSUME NEW C, NEW S, NEW T, NEW w, NEW v, NEW w2 \in Seq(Units), Sides(C, S, w, v), S.sasl = "busy",
         NEW outcome \in {"more", "done", "error"}, T = SaslResult(S, outcome), OwnWord(S, T, w, w2)
  PROVE  Sides(C, T, w2, v) /\ Result(S, T)
<1>1. /\ S \in Ends /\ w \in Seq(Units) /\ v \in Seq(Units) /\ Len(w) \in Nat /\ Len(v) \in Nat
      /\ S.site = "server" /\ EndOK(S) /\ PolicyOf(C, S, w, v) /\ Fewer(v, v)
      /\ C.sasl \in {"none", "idle", "busy"}
  BY ClientFacts
<1>2. S.st = "authenticating" /\ IsOpen(S) /\ ~S.wait
  BY <1>1 DEF EndOK, IsOpen, Over, Closing
<1>3. Fresh(S)
  BY <1>2, ClientFacts
<1>4. \/ Reaches(S, T, <<"challenge">>, "authenticating", S.tls, "idle", S.wait)
      \/ Reaches(S, T, <<"success">>, "auth_connected", S.tls, "none", S.wait)
      \/ Reaches(S, T, <<"failure">>, "initiated", S.tls, "none", S.wait)
  BY <1>1, <1>3, AnswerReaches
<1>5. PICK k \in {"challenge", "success", "failure"} :
        /\ Says(S, T, k) /\ T.tls = S.tls /\ ~T.wait
        /\ k = "challenge" => T.st = "authenticating" /\ T.sasl = "idle"
        /\ k = "success" => T.st = "auth_connected" /\ T.sasl = "none"
        /\ k = "failure" => T.st = "initiated" /\ T.sasl = "none"
  <2>1. CASE Reaches(S, T, <<"challenge">>, "authenticating", S.tls, "idle", S.wait)
    BY <1>2, <2>1 DEF Reaches, Says
  <2>2. CASE Reaches(S, T, <<"success">>, "auth_connected", S.tls, "none", S.wait)
    BY <1>2, <2>2 DEF Reaches, Says
  <2>3. CASE Reaches(S, T, <<"failure">>, "initiated", S.tls, "none", S.wait)
    BY <1>2, <2>3 DEF Reaches, Says
  <2>. QED BY <1>4, <2>1, <2>2, <2>3
<1>6. k \in Kinds /\ k \in Quiet
  BY DEF Kinds, Quiet
<1>7. Continues(S, T) /\ T.policy = S.policy /\ One(w, w2, k)
  BY <1>1, <1>5, <1>6, SaysOne
<1>8. PolicyOf(C, T, w2, v)
  <2>1. ServerKeeps(S, T)
    BY <1>2, <1>5, <1>7 DEF ServerKeeps, ServerPast
  <2>2. Fewer(w, w2)
    BY <1>1, <1>6, <1>7, FewerWords
  <2>. QED BY <1>1, <2>1, <2>2, PolicyKept, Keeps
<1>9. ASSUME IsOpen(C) PROVE InPhase(C, T, w2, v)
  <2>1. InPhase(C, S, w, v)
    BY <1>2, <1>9, ClientFacts
  <2>2. Authenticating(C, S, w, v)
    BY <1>2, <2>1 DEF InPhase, Opening1, Encrypting, Authenticated
  <2>3. /\ C.st = "authenticating" /\ SameTls(C, T) /\ C.sasl # "busy" /\ Len(w) = 0 /\ All(v, {"abort"})
        /\ C.sasl = "idle" => Empty(v)
    BY <1>2, <1>5, <2>2 DEF Authenticating, ServerBusy, ServerWaits, Failed, AsksAgain, Succeeds, SameTls, Empty
  <2>4. Only(w2, {k})
    BY <1>7, <2>3 DEF One, Only
  <2>5. CASE k = "challenge"
    <3>1. Starts(v, {"abort", "response"}) /\ AllFrom(v, 2, {"abort"})
      BY <1>1, <2>3 DEF Starts, AllFrom, All
    <3>2. ServerWaits(C, T, w2, v)
      BY <1>5, <2>3, <2>4, <2>5, <3>1 DEF ServerWaits
    <3>. QED BY <2>3, <3>2 DEF InPhase, Authenticating
  <2>6. CASE k = "success"
    <3>1. Succeeds(C, T, w2, v)
      BY <1>5, <2>3, <2>4, <2>6 DEF Succeeds
    <3>. QED BY <2>3, <3>1 DEF InPhase, Authenticating
  <2>7. CASE k = "failure"
    <3>1. Failed(C, T, w2, v)
      BY <1>5, <2>3, <2>4, <2>7 DEF Failed
    <3>. QED BY <2>3, <3>1 DEF InPhase, Authenticating
  <2>. QED BY <1>5, <2>5, <2>6, <2>7
<1>10. ASSUME ~IsOpen(C) PROVE ServerTakes(T.st, T.sasl = "busy", v)
  <2>1. /\ NoneFrom(v, 1, {"stream", "msg"}) /\ Followed(v, 1, Answered, {"abort", "bye", "fin"})
        /\ Starts(v, {"abort", "bye", "fin"})
    <3>1. ServerTakes(S.st, S.sasl = "busy", v)
      BY <1>2, <1>10, ClientFacts
    <3>. QED BY <1>2, <3>1 DEF ServerTakes
  <2>2. Starts(v, {"stream", "abort", "bye", "fin"}) /\ (Starts(v, {"stream"}) => NoneFrom(v, 2, {"stream"}))
    BY <1>1, <2>1 DEF Starts, NoneFrom
  <2>. QED BY <1>5, <2>1, <2>2 DEF ServerTakes
<1>11. /\ T.st \in ServerStates /\ (T.sasl # "none" => T.st = "authenticating") /\ ~T.wait
       /\ T.st = "handshaking" => T.tls
  BY <1>5 DEF ServerStates
<1>. QED BY <1>1, <1>2, <1>7, <1>8, <1>9, <1>10, <1>11, ServerMoves

\* The application gives the exchange up, and the server says so when the client goes on.
LEMMA ServerResets ==
  ASSUME NEW C, NEW S, NEW T, NEW w, NEW v, NEW w2 \in Seq(Units), Sides(C, S, w, v),
         S.st = "authenticating", S.sasl = "idle", T = ResetSasl(S), OwnWord(S, T, w, w2)
  PROVE  Sides(C, T, w2, v) /\ Result(S, T)
<1>1. /\ S \in Ends /\ w \in Seq(Units) /\ v \in Seq(Units) /\ Len(w) \in Nat /\ Len(v) \in Nat
      /\ S.site = "server" /\ EndOK(S) /\ PolicyOf(C, S, w, v) /\ Fewer(v, v)
      /\ C.sasl \in {"none", "idle", "busy"}
  BY ClientFacts
<1>2. IsOpen(S) /\ ~S.wait
  BY <1>1 DEF EndOK, IsOpen, Over, Closing
<1>3. Fresh(S)
  BY <1>2, ClientFacts
<1>4. Reaches(S, T, <<>>, "authenticating", S.tls, "none", S.wait)
  BY <1>1, <1>3, ResetReaches
<1>5. T.st = "authenticating" /\ T.tls = S.tls /\ T.sasl = "none" /\ ~T.wait /\ IsSilent(S, T)
  BY <1>2, <1>4 DEF Reaches, IsSilent
<1>6. Continues(S, T) /\ T.policy = S.policy /\ w2 = w
  BY <1>1, <1>5, SaysNothing
<1>7. PolicyOf(C, T, w2, v)
  <2>1. ServerKeeps(S, T)
    BY <1>2, <1>5, <1>6 DEF ServerKeeps, ServerPast
  <2>2. Fewer(w, w2)
    BY <1>6, ClientFacts
  <2>. QED BY <1>1, <2>1, <2>2, PolicyKept, Keeps
<1>8. ASSUME IsOpen(C) PROVE InPhase(C, T, w2, v)
  <2>1. InPhase(C, S, w, v)
    BY <1>2, <1>8, ClientFacts
  <2>2. Authenticating(C, S, w, v)
    BY <1>2, <2>1 DEF InPhase, Opening1, Encrypting, Authenticated
  <2>3. ServerWaits(C, S, w, v)
    BY <2>2 DEF Authenticating, ServerBusy, Failed, AsksAgain, Succeeds
  <2>4. ServerWaits(C, T, w2, v)
    BY <1>5, <1>6, <2>3 DEF ServerWaits
  <2>. QED BY <1>5, <1>6, <2>2, <2>4 DEF InPhase, Authenticating, SameTls
<1>9. ASSUME ~IsOpen(C) PROVE ServerTakes(T.st, T.sasl = "busy", v)
  <2>1. ServerTakes(S.st, S.sasl = "busy", v)
    BY <1>2, <1>9, ClientFacts
  <2>. QED BY <1>5, <2>1 DEF ServerTakes
<1>10. T.st \in ServerStates /\ (T.sasl # "none" => T.st = "authenticating") /\ ~T.wait
       /\ (T.st = "handshaking" => T.tls)
  BY <1>5 DEF ServerStates
<1>. QED BY <1>1, <1>2, <1>6, <1>7, <1>8, <1>9, <1>10, ServerMoves

\* An end whose TCP connection has just been made.
Joined(C) == [C EXCEPT !.tcp = "connected", !.st = "connected"]

LEMMA ClientConnects ==
  ASSUME NEW C, NEW D, NEW S, NEW w, NEW v, NEW v2 \in Seq(Units), Sides(C, S, w, v), C.tcp = "connecting",
         D = Connected(C), OwnWord(Joined(C), D, v, v2)
  PROVE  Sides(D, S, w, v2) /\ Result(Joined(C), D)
<1>. DEFINE Z == Joined(C)
<1>1. /\ C \in Ends /\ w \in Seq(Units) /\ v \in Seq(Units) /\ Len(w) \in Nat /\ Len(v) \in Nat
      /\ C.site = "client" /\ EndOK(C) /\ PolicyOf(C, S, w, v) /\ Fewer(w, w) /\ C.tls \in BOOLEAN
  BY ClientFacts
<1>2. C.st = "connecting" /\ IsOpen(C) /\ ~C.wait /\ C.sasl = "none" /\ ~C.nested
  BY <1>1 DEF EndOK, IsOpen, Over, Closing
<1>3. /\ Z \in Ends /\ SameSetup(C, Z) /\ Z.bad = C.bad /\ Z.nested = C.nested /\ Z.tcp = "connected"
      /\ Reaches(Z, D, <<"stream">>, "initiated", C.tls, C.sasl, C.wait)
  BY <1>1, ConnectedReaches DEF Joined
<1>4. /\ Z.st = "connected" /\ Z.sasl = C.sasl /\ Z.wait = C.wait /\ Z.site = "client" /\ Z.policy = C.policy
      /\ Z.tls = C.tls
  BY <1>1, <1>3 DEF Joined, SameSetup, Ends
<1>. HIDE DEF Z
<1>5. EndOK(Z) /\ IsOpen(Z)
  <2>1. /\ ~C.bad /\ "connected" \notin Over /\ "connected" \in ClientStates
    BY <1>1 DEF EndOK, Over, Closing, ClientStates
  <2>. QED BY <1>2, <1>3, <1>4, <2>1 DEF EndOK, IsOpen
<1>6. D.st = "initiated" /\ D.tls = C.tls /\ D.sasl = "none" /\ ~D.wait /\ Says(Z, D, "stream")
  BY <1>2, <1>3 DEF Reaches, Says
<1>7. "stream" \in Kinds /\ "stream" \in Quiet /\ "initiated" \in ClientStates \ {"connecting"}
  BY DEF Kinds, Quiet, ClientStates
<1>8. OwnWord(Z, D, v, v2)
  BY DEF Z
<1>9. Continues(Z, D) /\ D.policy = C.policy /\ One(v, v2, "stream")
  BY <1>1, <1>4, <1>6, <1>7, <1>8, SaysOne
<1>10. EndOK(D) /\ D \in Ends /\ IsOpen(D) /\ Result(Z, D) /\ D.site = "client"
  BY <1>3, <1>4, <1>5, <1>6, <1>7, <1>9, ContinuesOK
<1>11. PolicyOf(D, S, w, v2)
  <2>1. ClientKeeps(C, D)
    BY <1>2, <1>6, <1>9 DEF ClientKeeps, ClientPast, ClientEarly
  <2>2. Fewer(v, v2)
    BY <1>1, <1>7, <1>9, FewerWords
  <2>. QED BY <1>1, <2>1, <2>2, PolicyKept, Keeps
<1>12. ASSUME IsOpen(S) PROVE InPhase(D, S, w, v2)
  <2>1. InPhase(C, S, w, v)
    BY <1>2, <1>12, ClientFacts
  <2>2. S.st = "connected" /\ ~S.tls /\ ~C.tls /\ Len(w) = 0 /\ Len(v) = 0
    BY <1>2, <2>1 DEF InPhase, Opening1, Encrypting, Authenticating, Authenticated, Empty
  <2>3. Only(v2, {"stream"}) /\ Empty(w)
    BY <1>9, <2>2 DEF One, Only, Empty
  <2>4. SameTls(D, S)
    <3>1. C.tls \in BOOLEAN /\ S.tls \in BOOLEAN
      BY ClientFacts
    <3>. QED BY <1>6, <2>2, <3>1 DEF SameTls
  <2>. QED BY <1>6, <2>2, <2>3, <2>4 DEF InPhase, Opening1
<1>13. ASSUME ~IsOpen(S) PROVE ClientTakes(D.st, w)
  <2>1. ClientTakes(C.st, w)
    BY <1>2, <1>13, ClientFacts
  <2>2. Len(w) = 0 \/ w[1].k \in {"bye", "fin"}
    BY <1>1, <1>2, <2>1 DEF ClientTakes, Starts
  <2>3. NoneFrom(w, 2, {"stream", "half", "msg", "done"}) \/ ~Starts(w, {"stream"})
    <3>1. CASE Len(w) = 0
      BY <3>1 DEF NoneFrom
    <3>2. CASE w[1].k \in {"bye", "fin"} /\ Len(w) > 0
      BY <3>2 DEF Starts
    <3>. QED BY <1>1, <2>2, <3>1, <3>2
  <2>. QED BY <1>6, <2>2, <2>3 DEF ClientTakes
<1>14. S \in Ends /\ S.site = "server" /\ EndOK(S)
  BY ClientFacts
<1>15. JointOf(D, S, w, v2)
  BY <1>10, <1>12, <1>13 DEF JointOf
<1>. QED BY <1>1, <1>10, <1>11, <1>14, <1>15 DEF Sides, Z

LEMMA PayloadWord ==
  ASSUME NEW a \in Seq(Units), NEW id \in Nat, NEW b, b = a \o Payload(id)
  PROVE  b \in Seq(Units) /\ Two(a, b, "half", "msg") /\ Fewer(a, b)
<1>. DEFINE p == Payload(id)
<1>1. /\ p \in Seq(Units) /\ Len(p) = 2 /\ p[1].k = "half" /\ p[2].k = "msg"
  <2>1. /\ p \in Seq(Units) /\ Len(p) = 2
        /\ p[1] = [k |-> "half", id |-> id] /\ p[2] = [k |-> "msg", id |-> id]
    BY PayloadFacts
  <2>. HIDE DEF p
  <2>. QED BY <2>1
<1>. HIDE DEF p
<1>2. /\ b \in Seq(Units) /\ Len(b) = Len(a) + 2 /\ Len(a) \in Nat
      /\ \A i \in 1..Len(a) : b[i] = a[i]
      /\ \A i \in 1..2 : b[i + Len(a)] = p[i]
  <2>1. b = a \o p
    BY DEF p
  <2>2. /\ a \o p \in Seq(Units) /\ Len(a \o p) = Len(a) + Len(p)
        /\ \A i \in 1..Len(a) : (a \o p)[i] = a[i]
        /\ \A i \in 1..Len(p) : (a \o p)[i + Len(a)] = p[i]
    BY <1>1, Concatenated
  <2>3. Len(a) \in Nat
    BY Lengths
  <2>. QED BY <1>1, <2>1, <2>2, <2>3
<1>3. 1 + Len(a) = Len(a) + 1 /\ 2 + Len(a) = Len(a) + 2 /\ 1 \in 1..2 /\ 2 \in 1..2
  BY <1>2
<1>4. b[Len(a) + 1] = p[1] /\ b[Len(a) + 2] = p[2]
  BY <1>2, <1>3
<1>5. Two(a, b, "half", "msg")
  BY <1>1, <1>2, <1>4 DEF Two
<1>6. "half" \in Quiet /\ "msg" \in Quiet
  BY DEF Quiet, Kinds
<1>. QED BY <1>2, <1>5, <1>6, FewerWords

LEMMA TwoMessages ==
  ASSUME NEW a \in Seq(Units), NEW b \in Seq(Units), Two(a, b, "half", "msg"), NEW n \in 1..3,
         Len(a) >= n - 1, AllFrom(a, n, MessageKinds)
  PROVE  AllFrom(b, n, MessageKinds)
<1>1. Len(a) \in Nat /\ Len(b) = Len(a) + 2
  BY LenProperties DEF Two
<1>2. ASSUME NEW i \in n..Len(b) PROVE b[i].k \in MessageKinds
  <2>1. CASE i <= Len(a)
    <3>1. i \in n..Len(a) /\ i \in 1..Len(a)
      BY <1>1, <2>1
    <3>. QED BY <3>1 DEF Two, AllFrom
  <2>2. CASE i > Len(a)
    <3>1. i = Len(a) + 1 \/ i = Len(a) + 2
      BY <1>1, <2>2
    <3>. QED BY <3>1 DEF Two, MessageKinds
  <2>. QED BY <1>1, <2>1, <2>2
<1>. QED BY <1>2 DEF AllFrom

\* A message is sent.
SendingKeeps(X, Y) ==
  /\ Y \in Ends /\ Y.site = X.site /\ EndOK(Y) /\ ClientKeeps(X, Y) /\ ServerKeeps(X, Y)
  /\ Y.st = X.st /\ Y.sasl = X.sasl /\ Y.tls = X.tls

LEMMA SendsOK ==
  ASSUME NEW X \in Ends, EndOK(X), NEW Y, NEW id, Sends(X, Y, id)
  PROVE  SendingKeeps(X, Y)
<1>1. /\ Y \in Ends /\ Y.site = X.site /\ Y.policy = X.policy /\ Y.verifies = X.verifies
      /\ Y.bad = X.bad /\ Y.tcp = X.tcp /\ Y.nested = X.nested /\ Y.st = X.st
      /\ Y.tls = X.tls /\ Y.sasl = X.sasl /\ Y.wait = X.wait
  BY DEF Sends, SameSetup
<1>2. EndOK(Y)
  BY <1>1 DEF EndOK, IsOpen
<1>. QED BY <1>1, <1>2 DEF SendingKeeps, ClientKeeps, ServerKeeps, IsOpen

LEMMA ClientSends ==
  ASSUME NEW C, NEW D, NEW S, NEW w, NEW v, NEW v2, Sides(C, S, w, v), C.st = "ready",
         NEW id \in Nat, Sends(C, D, id), v2 = v \o Payload(id)
  PROVE  Sides(D, S, w, v2)
<1>1. /\ C \in Ends /\ S \in Ends /\ w \in Seq(Units) /\ v \in Seq(Units)
      /\ C.site = "client" /\ S.site = "server" /\ EndOK(C) /\ EndOK(S) /\ PolicyOf(C, S, w, v) /\ Fewer(w, w)
  BY ClientFacts
<1>2. /\ D \in Ends /\ D.site = "client" /\ EndOK(D) /\ ClientKeeps(C, D)
      /\ D.st = "ready" /\ D.sasl = C.sasl /\ D.tls = C.tls
  BY <1>1, SendsOK DEF SendingKeeps
<1>3. v2 \in Seq(Units) /\ Two(v, v2, "half", "msg") /\ Fewer(v, v2)
  BY <1>1, PayloadWord
<1>4. IsOpen(C) /\ IsOpen(D)
  BY <1>2 DEF IsOpen, Over, Closing
<1>5. ASSUME IsOpen(S) PROVE InPhase(D, S, w, v2)
  <2>1. InPhase(C, S, w, v)
    BY <1>4, <1>5, ClientFacts
  <2>2. S.st = "ready" /\ SameTls(C, S) /\ AllFrom(w, 1, MessageKinds) /\ AllFrom(v, 1, MessageKinds)
    BY <2>1 DEF InPhase, Opening1, Encrypting, Authenticating, Authenticated
  <2>3. AllFrom(v2, 1, MessageKinds)
    <3>1. 1 \in 1..3 /\ Len(v) >= 1 - 1
      BY <1>1, Lengths
    <3>. QED BY <1>1, <1>3, <2>2, <3>1, TwoMessages
  <2>. QED BY <1>2, <2>2, <2>3 DEF InPhase, Authenticated, SameTls
<1>6. ASSUME ~IsOpen(S) PROVE ClientTakes(D.st, w)
  BY <1>2, <1>4, <1>6, ClientFacts
<1>7. PolicyOf(D, S, w, v2)
  BY <1>1, <1>2, <1>3, PolicyKept, Keeps
<1>8. JointOf(D, S, w, v2)
  BY <1>4, <1>5, <1>6 DEF JointOf
<1>. QED BY <1>1, <1>2, <1>3, <1>7, <1>8 DEF Sides

LEMMA ServerSends ==
  ASSUME NEW C, NEW S, NEW T, NEW w, NEW v, NEW w2, Sides(C, S, w, v), S.st = "ready",
         NEW id \in Nat, Sends(S, T, id), w2 = w \o Payload(id)
  PROVE  Sides(C, T, w2, v)
<1>1. /\ C \in Ends /\ S \in Ends /\ w \in Seq(Units) /\ v \in Seq(Units) /\ Len(w) \in Nat
      /\ C.site = "client" /\ S.site = "server" /\ EndOK(C) /\ EndOK(S) /\ PolicyOf(C, S, w, v) /\ Fewer(v, v)
  BY ClientFacts
<1>2. /\ T \in Ends /\ T.site = "server" /\ EndOK(T) /\ ServerKeeps(S, T)
      /\ T.st = "ready" /\ T.sasl = S.sasl /\ T.tls = S.tls
  BY <1>1, SendsOK DEF SendingKeeps
<1>3. w2 \in Seq(Units) /\ Two(w, w2, "half", "msg") /\ Fewer(w, w2)
  BY <1>1, PayloadWord
<1>4. IsOpen(S) /\ IsOpen(T)
  BY <1>2 DEF IsOpen, Over, Closing
<1>5. ASSUME IsOpen(C) PROVE InPhase(C, T, w2, v)
  <2>1. InPhase(C, S, w, v)
    BY <1>4, <1>5, ClientFacts
  <2>2. SameTls(C, T) /\ Authenticated(C, S, w, v)
    BY <1>2, <2>1 DEF InPhase, Opening1, Encrypting, Authenticating, ServerBusy, ServerWaits, Failed, AsksAgain,
                      Succeeds, Authenticated, SameTls
  <2>3. \A n \in 1..3 : Len(w) >= n - 1 /\ AllFrom(w, n, MessageKinds) => AllFrom(w2, n, MessageKinds)
    BY <1>1, <1>3, TwoMessages
  <2>4. Len(w2) = Len(w) + 2 /\ \A i \in 1..Len(w) : w2[i] = w[i]
    BY <1>3 DEF Two
  <2>5. CASE /\ C.st = "auth_initiated" /\ Empty(v)
             /\ Len(w) > 1 /\ w[1].k = "stream" /\ w[2].k \in FeatureKinds /\ AllFrom(w, 3, MessageKinds)
    <3>1. 3 \in 1..3 /\ Len(w) >= 3 - 1 /\ 1 \in 1..Len(w) /\ 2 \in 1..Len(w) /\ Len(w2) > 1
      BY <1>1, <2>4, <2>5
    <3>2. AllFrom(w2, 3, MessageKinds) /\ w2[1] = w[1] /\ w2[2] = w[2]
      BY <2>3, <2>4, <2>5, <3>1
    <3>. QED BY <1>2, <2>2, <2>5, <3>1, <3>2 DEF InPhase, Authenticated
  <2>6. CASE /\ C.st = "auth_awaiting_features" /\ Empty(v)
             /\ Len(w) > 0 /\ w[1].k \in FeatureKinds /\ AllFrom(w, 2, MessageKinds)
    <3>1. 2 \in 1..3 /\ Len(w) >= 2 - 1 /\ 1 \in 1..Len(w) /\ Len(w2) > 0
      BY <1>1, <2>4, <2>6
    <3>2. AllFrom(w2, 2, MessageKinds) /\ w2[1] = w[1]
      BY <2>3, <2>4, <2>6, <3>1
    <3>. QED BY <1>2, <2>2, <2>6, <3>1, <3>2 DEF InPhase, Authenticated
  <2>7. CASE C.st = "ready" /\ AllFrom(w, 1, MessageKinds) /\ AllFrom(v, 1, MessageKinds)
    <3>1. 1 \in 1..3 /\ Len(w) >= 1 - 1
      BY <1>1
    <3>2. AllFrom(w2, 1, MessageKinds)
      BY <2>3, <2>7, <3>1
    <3>. QED BY <1>2, <2>2, <2>7, <3>2 DEF InPhase, Authenticated
  <2>. QED BY <2>2, <2>5, <2>6, <2>7 DEF Authenticated
<1>6. ASSUME ~IsOpen(C) PROVE ServerTakes(T.st, T.sasl = "busy", v)
  BY <1>2, <1>4, <1>6, ClientFacts
<1>7. PolicyOf(C, T, w2, v)
  BY <1>1, <1>2, <1>3, PolicyKept, Keeps
<1>8. JointOf(C, T, w2, v)
  BY <1>4, <1>5, <1>6 DEF JointOf
<1>. QED BY <1>1, <1>2, <1>3, <1>7, <1>8 DEF Sides

\* What the invariant of the two ends says of an end.
Alike(X, Y) ==
  /\ Y \in Ends /\ SameSetup(X, Y) /\ Y.st = X.st /\ Y.tls = X.tls /\ Y.sasl = X.sasl
  /\ Y.wait = X.wait /\ Y.nested = X.nested /\ Y.tcp = X.tcp /\ Y.bad = X.bad

LEMMA AlikeOK ==
  ASSUME NEW X, NEW Y, X \in Ends, EndOK(X), Alike(X, Y)
  PROVE  SendingKeeps(X, Y)
<1>1. /\ Y \in Ends /\ Y.site = X.site /\ Y.policy = X.policy /\ Y.verifies = X.verifies
      /\ Y.bad = X.bad /\ Y.tcp = X.tcp /\ Y.nested = X.nested /\ Y.st = X.st
      /\ Y.tls = X.tls /\ Y.sasl = X.sasl /\ Y.wait = X.wait
  BY DEF Alike, SameSetup
<1>2. EndOK(Y)
  BY <1>1 DEF EndOK, IsOpen
<1>. QED BY <1>1, <1>2 DEF SendingKeeps, ClientKeeps, ServerKeeps, IsOpen

LEMMA ClientAlike ==
  ASSUME NEW C, NEW D, NEW S, NEW w, NEW v, Sides(C, S, w, v), Alike(C, D)
  PROVE  Sides(D, S, w, v)
<1>1. /\ C \in Ends /\ S \in Ends /\ w \in Seq(Units) /\ v \in Seq(Units)
      /\ C.site = "client" /\ S.site = "server" /\ EndOK(C) /\ EndOK(S) /\ PolicyOf(C, S, w, v)
      /\ Fewer(w, w) /\ Fewer(v, v)
  BY ClientFacts
<1>2. /\ D \in Ends /\ D.site = "client" /\ EndOK(D) /\ ClientKeeps(C, D)
      /\ D.st = C.st /\ D.sasl = C.sasl /\ D.tls = C.tls
  BY <1>1, AlikeOK DEF SendingKeeps
<1>3. InPhase(C, S, w, v) => InPhase(D, S, w, v)
  <2>1. Opening1(C, S, w, v) => Opening1(D, S, w, v)
    BY <1>2 DEF Opening1, SameTls
  <2>2. Encrypting(C, S, w, v) => Encrypting(D, S, w, v)
    BY <1>2 DEF Encrypting
  <2>3. Authenticating(C, S, w, v) => Authenticating(D, S, w, v)
    BY <1>2 DEF Authenticating, ServerBusy, ServerWaits, Failed, AsksAgain, Succeeds, SameTls
  <2>4. Authenticated(C, S, w, v) => Authenticated(D, S, w, v)
    BY <1>2 DEF Authenticated, SameTls
  <2>. QED BY <2>1, <2>2, <2>3, <2>4 DEF InPhase
<1>4. JointOf(D, S, w, v)
  <2>1. JointOf(C, S, w, v)
    BY DEF Sides
  <2>. QED BY <1>2, <1>3, <2>1 DEF JointOf, IsOpen
<1>5. PolicyOf(D, S, w, v)
  BY <1>1, <1>2, PolicyKept, Keeps
<1>. QED BY <1>1, <1>2, <1>4, <1>5 DEF Sides

LEMMA ServerAlike ==
  ASSUME NEW C, NEW S, NEW T, NEW w, NEW v, Sides(C, S, w, v), Alike(S, T)
  PROVE  Sides(C, T, w, v)
<1>1. /\ C \in Ends /\ S \in Ends /\ w \in Seq(Units) /\ v \in Seq(Units)
      /\ C.site = "client" /\ S.site = "server" /\ EndOK(C) /\ EndOK(S) /\ PolicyOf(C, S, w, v)
      /\ Fewer(w, w) /\ Fewer(v, v)
  BY ClientFacts
<1>2. /\ T \in Ends /\ T.site = "server" /\ EndOK(T) /\ ServerKeeps(S, T)
      /\ T.st = S.st /\ T.sasl = S.sasl /\ T.tls = S.tls
  BY <1>1, AlikeOK DEF SendingKeeps
<1>3. InPhase(C, S, w, v) => InPhase(C, T, w, v)
  <2>1. Opening1(C, S, w, v) => Opening1(C, T, w, v)
    BY <1>2 DEF Opening1, SameTls
  <2>2. Encrypting(C, S, w, v) => Encrypting(C, T, w, v)
    BY <1>2 DEF Encrypting
  <2>3. Authenticating(C, S, w, v) => Authenticating(C, T, w, v)
    BY <1>2 DEF Authenticating, ServerBusy, ServerWaits, Failed, AsksAgain, Succeeds, SameTls
  <2>4. Authenticated(C, S, w, v) => Authenticated(C, T, w, v)
    BY <1>2 DEF Authenticated, SameTls
  <2>. QED BY <2>1, <2>2, <2>3, <2>4 DEF InPhase
<1>4. JointOf(C, T, w, v)
  <2>1. JointOf(C, S, w, v)
    BY DEF Sides
  <2>. QED BY <1>2, <1>3, <2>1 DEF JointOf, IsOpen
<1>5. PolicyOf(C, T, w, v)
  BY <1>1, <1>2, PolicyKept, Keeps
<1>. QED BY <1>1, <1>2, <1>4, <1>5 DEF Sides

\* What TCP writes is still on its way; what it has not written when it closes is lost.
Flushed(l, out, n, tcp) ==
  (l \o SubSeq(out, 1, n)) \o (IF tcp = "closed" THEN <<Unit("fin")>> ELSE <<>>)

LEMMA FlushedOpen ==
  ASSUME NEW l \in Seq(Units), NEW out \in Seq(Units), NEW n \in 1..Len(out), NEW tcp, tcp # "closed"
  PROVE  /\ Flushed(l, out, n, tcp) \in Seq(Units)
         /\ Flushed(l, out, n, tcp) \o SubSeq(out, n + 1, Len(out)) = l \o out
<1>. DEFINE a == SubSeq(out, 1, n)
            b == SubSeq(out, n + 1, Len(out))
<1>1. Len(out) \in Nat /\ n \in Nat /\ n <= Len(out) /\ 1 <= n
  BY LenProperties
<1>2. a \in Seq(Units) /\ b \in Seq(Units)
  <2>1. \A i \in 1..n : out[i] \in Units
    BY <1>1, ElementOfSeq
  <2>2. \A i \in n + 1..Len(out) : out[i] \in Units
    BY <1>1, ElementOfSeq
  <2>. QED BY <1>1, <2>1, <2>2, SubSeqProperties
<1>3. a \o b = out
  <2>1. SubSeq(out, 1, n) \o SubSeq(out, n + 1, Len(out)) = SubSeq(out, 1, Len(out))
    BY <1>1, ConcatAdjacentSubSeq
  <2>. QED BY <2>1, SubSeqFull
<1>. HIDE DEF a, b
<1>4. (l \o a) \o <<>> = l \o a /\ l \o a \in Seq(Units)
  BY <1>2, ConcatProperties, ConcatEmptySeq
<1>5. (l \o a) \o b = l \o (a \o b)
  BY <1>2, Associate
<1>6. Flushed(l, out, n, tcp) = (l \o a) \o <<>>
  BY DEF Flushed, a
<1>. QED BY <1>3, <1>4, <1>5, <1>6 DEF b

LEMMA FlushedClosed ==
  ASSUME NEW l \in Seq(Units), NEW out \in Seq(Units), NEW n \in 1..Len(out)
  PROVE  /\ Flushed(l, out, n, "closed") \in Seq(Units)
         /\ Cut(l \o out, Flushed(l, out, n, "closed"))
<1>. DEFINE a == SubSeq(out, 1, n)
            f == <<Unit("fin")>>
            b == Flushed(l, out, n, "closed")
            w == l \o out
<1>1. Len(out) \in Nat /\ n \in Nat /\ n <= Len(out) /\ 1 <= n /\ Len(l) \in Nat
  BY LenProperties
<1>2. a \in Seq(Units) /\ Len(a) = n /\ \A i \in 1..n : a[i] = out[i]
  <2>1. \A i \in 1..n : out[i] \in Units
    BY <1>1, ElementOfSeq
  <2>. QED BY <1>1, <2>1, SubSeqProperties
<1>3. f \in Seq(Units) /\ Len(f) = 1 /\ f[1].k = "fin"
  BY DEF Unit, Units, Kinds
<1>4. b = (l \o a) \o f
  BY DEF Flushed
<1>. HIDE DEF a, f, b
<1>5. l \o a \in Seq(Units) /\ Len(l \o a) = Len(l) + n
  BY <1>2, Concatenated
<1>6. /\ b \in Seq(Units) /\ Len(b) = Len(l) + n + 1
      /\ \A i \in 1..Len(l) + n : b[i] = (l \o a)[i]
      /\ \A i \in 1..1 : b[i + (Len(l) + n)] = f[i]
  <2>. DEFINE la == l \o a
  <2>1. la \in Seq(Units) /\ Len(la) = Len(l) + n /\ b = la \o f
    BY <1>4, <1>5
  <2>. HIDE DEF la
  <2>2. /\ la \o f \in Seq(Units) /\ Len(la \o f) = Len(la) + Len(f)
        /\ \A i \in 1..Len(la) : (la \o f)[i] = la[i]
        /\ \A i \in 1..Len(f) : (la \o f)[i + Len(la)] = f[i]
    BY <1>3, <2>1, Concatenated
  <2>3. /\ b \in Seq(Units) /\ Len(b) = Len(l) + n + 1
        /\ \A i \in 1..Len(l) + n : b[i] = la[i]
        /\ \A i \in 1..1 : b[i + (Len(l) + n)] = f[i]
    BY <1>3, <2>1, <2>2
  <2>. QED BY <2>3 DEF la
<1>7. Len(w) = Len(l) + Len(out)
  BY Concatenated
<1>8. ASSUME NEW i \in 1..Len(l) + n PROVE b[i] = w[i]
  <2>1. CASE i <= Len(l)
    <3>1. i \in 1..Len(l)
      BY <1>1, <2>1
    <3>2. (l \o a)[i] = l[i] /\ w[i] = l[i]
      BY <1>2, <3>1, Concatenated
    <3>. QED BY <1>6, <3>2
  <2>2. CASE ~(i <= Len(l))
    <3>1. i - Len(l) \in 1..n /\ i - Len(l) \in 1..Len(out) /\ i = (i - Len(l)) + Len(l)
      BY <1>1, <2>2
    <3>2. (l \o a)[(i - Len(l)) + Len(l)] = a[i - Len(l)]
      BY <1>2, <3>1, Concatenated
    <3>3. w[(i - Len(l)) + Len(l)] = out[i - Len(l)]
      BY <3>1, Concatenated
    <3>. QED BY <1>2, <1>6, <3>1, <3>2, <3>3
  <2>. QED BY <2>1, <2>2
<1>9. Len(b) > 0 /\ Len(b) = 1 + (Len(l) + n) /\ 1 \in 1..1 /\ Len(l) + n <= Len(w)
  BY <1>1, <1>6, <1>7
<1>10. b[Len(b)].k = "fin"
  BY <1>3, <1>6, <1>9
<1>11. \A i \in 1..Len(b) - 1 : i <= Len(w) /\ b[i] = w[i]
  <2>1. \A i \in 1..Len(b) - 1 : i \in 1..Len(l) + n /\ i <= Len(w)
    BY <1>1, <1>9
  <2>. QED BY <1>8, <2>1
<1>12. Cut(w, b)
  BY <1>9, <1>10, <1>11 DEF Cut
<1>. QED BY <1>6, <1>12 DEF b, w

\* An end before TCP closes below it, as what is written has been reported.
Reported(X, Y) == [X EXCEPT !.told = Y.told]

Falls(X, Y) == Closes(X, Y, <<>>)
\* TCP's queue is written, or the connection is closed as its last message is.
WriteResult(X, Y, send, f, a, b) ==
  /\ QueueOK(Y, send) /\ b \in Seq(Units) /\ f \in Seq(Units)
  /\ \/ Alike(X, Y) /\ b = a
     \/ /\ Alike(X, Reported(X, Y)) /\ Falls(Reported(X, Y), Y) /\ Y.st = "closed"
        /\ OwnWord(Reported(X, Y), Y, a, b)

LEMMA WriteCases ==
  ASSUME NEW X \in Ends, NEW send \in Nat, QueueOK(X, send), X.tcp = "connected", NEW l \in Seq(Units),
         NEW n \in 1..Len(X.out), NEW Y, Y = Written(X, n),
         NEW f, f = Flushed(l, X.out, n, Y.tcp), NEW a, a = l \o X.out, NEW b, b = f \o Y.out
  PROVE  WriteResult(X, Y, send, f, a, b)
<1>. DEFINE m == SentMessages(X, n)
            M == Reported(X, Y)
<1>1. X.out \in Seq(Units) /\ Len(X.out) \in Nat /\ n \in Nat /\ n <= Len(X.out)
  BY EndFields, LenProperties
<1>2. \A i, j \in 1..Len(X.msgs) : i < j => X.msgs[i].pos <= X.msgs[j].pos
  BY DEF QueueOK
<1>3. /\ Writes(X, Y, n, m) /\ m \in Nat /\ m <= Len(X.msgs)
      /\ \A i \in 1..Len(X.msgs) : X.msgs[i].pos <= n <=> i <= m
  BY <1>1, <1>2, WrittenWrites
<1>. HIDE DEF m
<1>4. QueueOK(Y, send)
  BY <1>1, <1>3, QueueWrites
<1>5. /\ Y \in Ends /\ SameSetup(X, Y) /\ Y.bad = X.bad /\ Y.nested = X.nested
      /\ \/ /\ Y.st = "closed" /\ Y.tcp = "closed" /\ Y.out = <<>> /\ Y.pos = 0 /\ Y.msgs = <<>>
            /\ Y.sasl = "none" /\ ~Y.wait /\ ~Y.tls
         \/ /\ Y.st = X.st /\ Y.tcp = X.tcp /\ Y.tls = X.tls /\ Y.sasl = X.sasl /\ Y.wait = X.wait
            /\ Y.out = SubSeq(X.out, n + 1, Len(X.out))
  BY <1>3 DEF Writes
<1>6. CASE /\ Y.st = X.st /\ Y.tcp = X.tcp /\ Y.tls = X.tls /\ Y.sasl = X.sasl /\ Y.wait = X.wait
           /\ Y.out = SubSeq(X.out, n + 1, Len(X.out))
  <2>1. Alike(X, Y)
    BY <1>5, <1>6 DEF Alike
  <2>2. Y.tcp # "closed"
    BY <1>6
  <2>3. f \in Seq(Units) /\ f \o Y.out = l \o X.out
    <3>. DEFINE out == X.out
                tcp == Y.tcp
    <3>1. out \in Seq(Units) /\ n \in 1..Len(out) /\ tcp # "closed"
      BY <1>1, <2>2
    <3>. HIDE DEF out, tcp
    <3>2. /\ Flushed(l, out, n, tcp) \in Seq(Units)
          /\ Flushed(l, out, n, tcp) \o SubSeq(out, n + 1, Len(out)) = l \o out
      BY <3>1, FlushedOpen
    <3>. QED BY <1>6, <3>2 DEF out, tcp
  <2>4. a \in Seq(Units)
    BY <1>1, ConcatProperties
  <2>. QED BY <1>4, <2>1, <2>3, <2>4 DEF WriteResult
<1>7. CASE /\ Y.st = "closed" /\ Y.tcp = "closed" /\ Y.out = <<>> /\ Y.pos = 0 /\ Y.msgs = <<>>
           /\ Y.sasl = "none" /\ ~Y.wait /\ ~Y.tls
  <2>1. f = Flushed(l, X.out, n, "closed")
    BY <1>7
  <2>2. f \in Seq(Units) /\ Cut(a, f)
    BY <1>1, <2>1, FlushedClosed
  <2>3. b = f
    <3>1. b = f \o <<>>
      BY <1>7
    <3>. QED BY <2>2, <3>1, ConcatEmptySeq
  <2>4. Y.told \in SUBSET Nat
    BY <1>5, EndFields
  <2>5. /\ M \in Ends /\ M.told = Y.told /\ M.site = X.site /\ M.policy = X.policy /\ M.verifies = X.verifies
        /\ M.st = X.st /\ M.tls = X.tls /\ M.sasl = X.sasl /\ M.wait = X.wait /\ M.nested = X.nested
        /\ M.tcp = X.tcp /\ M.bad = X.bad
    BY <2>4 DEF Reported, Ends
  <2>. HIDE DEF M
  <2>6. Alike(X, M)
    BY <2>5 DEF Alike, SameSetup
  <2>7. Falls(M, Y)
    BY <1>5, <1>7, <2>5 DEF Closes, SameSetup, Falls
  <2>8. OwnWord(M, Y, a, b)
    <3>1. \A ks : ~Goes(M, Y, ks)
      BY <1>7, <2>5 DEF Goes
    <3>2. Cut(a, b)
      BY <2>2, <2>3
    <3>. QED BY <3>1, <3>2 DEF OwnWord
  <2>. QED BY <1>4, <1>7, <2>2, <2>3, <2>6, <2>7, <2>8 DEF M, WriteResult
<1>. QED BY <1>5, <1>6, <1>7

\* n units of what X has to write go to l, and that becomes f.
WritesTo(X, Y, l, n, f, a, b) ==
  /\ X.tcp = "connected" /\ l \in Seq(Units) /\ n \in 1..Len(X.out) /\ Y = Written(X, n)
  /\ f = Flushed(l, X.out, n, Y.tcp) /\ a = l \o X.out /\ b = f \o Y.out

LEMMA ClientWrites ==
  ASSUME NEW C, NEW D, NEW S, NEW w, NEW v, NEW v2, NEW send \in Nat, Sides(C, S, w, v), QueueOK(C, send),
         NEW l, NEW n, NEW f, WritesTo(C, D, l, n, f, v, v2)
  PROVE  Sides(D, S, w, v2) /\ QueueOK(D, send) /\ f \in Seq(Units)
<1>. DEFINE M == Reported(C, D)
<1>1. C \in Ends /\ w \in Seq(Units) /\ v \in Seq(Units) /\ Fewer(w, w) /\ EndOK(C)
  BY ClientFacts
<1>0. WriteResult(C, D, send, f, v, v2)
  BY <1>1, WriteCases DEF WritesTo
<1>2. /\ QueueOK(D, send) /\ v2 \in Seq(Units) /\ f \in Seq(Units)
      /\ \/ Alike(C, D) /\ v2 = v
         \/ Alike(C, M) /\ Falls(M, D) /\ D.st = "closed" /\ OwnWord(M, D, v, v2)
  BY <1>0 DEF WriteResult
<1>. HIDE DEF M
<1>3. CASE Alike(C, D) /\ v2 = v
  BY <1>2, <1>3, ClientAlike
<1>4. CASE Alike(C, M) /\ Falls(M, D) /\ D.st = "closed" /\ OwnWord(M, D, v, v2)
  <2>1. Sides(M, S, w, v)
    BY <1>4, ClientAlike
  <2>2. M \in Ends /\ M.st = C.st
    BY <1>4 DEF Alike
  <2>3. CASE IsOpen(M)
    <3>1. ClosesWell(M, D)
      BY <1>4, <2>2, SilentlyWell DEF Falls
    <3>. QED BY <1>1, <1>2, <1>4, <2>1, <2>3, <3>1, ClientCloses
  <2>4. CASE M.st \in Closing
    <3>. DEFINE ks == <<>>
    <3>1. ks \in {<<>>, <<"bye">>} /\ Closes(M, D, ks)
      BY <1>4 DEF Falls
    <3>. HIDE DEF ks
    <3>. QED BY <1>1, <1>2, <1>4, <2>1, <2>4, <3>1, ClientGoesOn
  <2>5. M.st # "closed"
    BY <1>1, <2>2 DEF EndOK, WritesTo
  <2>. QED BY <1>2, <2>3, <2>4, <2>5 DEF IsOpen, Over
<1>. QED BY <1>2, <1>3, <1>4

LEMMA ServerWrites ==
  ASSUME NEW C, NEW S, NEW T, NEW w, NEW v, NEW w2, NEW send \in Nat, Sides(C, S, w, v), QueueOK(S, send),
         NEW l, NEW n, NEW f, WritesTo(S, T, l, n, f, w, w2)
  PROVE  Sides(C, T, w2, v) /\ QueueOK(T, send) /\ f \in Seq(Units)
<1>. DEFINE M == Reported(S, T)
<1>1. S \in Ends /\ w \in Seq(Units) /\ v \in Seq(Units) /\ Fewer(v, v) /\ EndOK(S)
  BY ClientFacts
<1>0. WriteResult(S, T, send, f, w, w2)
  BY <1>1, WriteCases DEF WritesTo
<1>2. /\ QueueOK(T, send) /\ w2 \in Seq(Units) /\ f \in Seq(Units)
      /\ \/ Alike(S, T) /\ w2 = w
         \/ Alike(S, M) /\ Falls(M, T) /\ T.st = "closed" /\ OwnWord(M, T, w, w2)
  BY <1>0 DEF WriteResult
<1>. HIDE DEF M
<1>3. CASE Alike(S, T) /\ w2 = w
  BY <1>2, <1>3, ServerAlike
<1>4. CASE Alike(S, M) /\ Falls(M, T) /\ T.st = "closed" /\ OwnWord(M, T, w, w2)
  <2>1. Sides(C, M, w, v)
    BY <1>4, ServerAlike
  <2>2. M \in Ends /\ M.st = S.st
    BY <1>4 DEF Alike
  <2>3. CASE IsOpen(M)
    <3>1. ClosesWell(M, T)
      BY <1>4, <2>2, SilentlyWell DEF Falls
    <3>. QED BY <1>1, <1>2, <1>4, <2>1, <2>3, <3>1, ServerCloses
  <2>4. CASE M.st \in Closing
    <3>. DEFINE ks == <<>>
    <3>1. ks \in {<<>>, <<"bye">>} /\ Closes(M, T, ks)
      BY <1>4 DEF Falls
    <3>. HIDE DEF ks
    <3>. QED BY <1>1, <1>2, <1>4, <2>1, <2>4, <3>1, ServerGoesOn
  <2>5. M.st # "closed"
    BY <1>1, <2>2 DEF EndOK, WritesTo
  <2>. QED BY <1>2, <2>3, <2>4, <2>5 DEF IsOpen, Over
<1>. QED BY <1>2, <1>3, <1>4

(***************************************************************************)
(* The steps of the two ends                                               *)
(***************************************************************************)
\* The two ends are in step: c are the ends, l what was written and b the budget.
InvOf(c, l, b) ==
  /\ c \in [Sites -> Ends] /\ l \in [Sites -> Seq(Units)] /\ b \in [Operations -> Nat]
  /\ Sides(c["client"], c["server"], l["server"] \o c["server"].out, l["client"] \o c["client"].out)
  /\ QueueOK(c["client"], b["send"]) /\ QueueOK(c["server"], b["send"])

\* The budget is not exceeded.
Cheaper(b, b2) == b2 \in [Operations -> Nat] /\ b2["send"] <= b["send"]

LEMMA Spending ==
  ASSUME left \in [Operations -> Nat]
  PROVE  /\ UNCHANGED left => Cheaper(left, left')
         /\ \A op \in Operations : Spend(op) => Cheaper(left, left')
<1>1. "send" \in Operations
  BY DEF Operations
<1>2. left["send"] \in Nat
  BY <1>1
<1>3. ASSUME UNCHANGED left PROVE Cheaper(left, left')
  BY <1>2, <1>3 DEF Cheaper
<1>4. ASSUME NEW op \in Operations, Spend(op) PROVE Cheaper(left, left')
  <2>1. left[op] \in Nat /\ left[op] > 0 /\ left' = [left EXCEPT ![op] = left[op] - 1]
    BY <1>4 DEF Spend
  <2>2. left[op] - 1 \in Nat
    BY <2>1
  <2>3. left' \in [Operations -> Nat]
    BY <2>1, <2>2
  <2>4. left'["send"] <= left["send"]
    BY <1>1, <1>2, <2>1
  <2>. QED BY <2>3, <2>4 DEF Cheaper
<1>. QED BY <1>3, <1>4

LEMMA QueueResult ==
  ASSUME NEW X \in Ends, NEW Y, NEW send \in Nat, QueueOK(X, send), Result(X, Y)
  PROVE  Y \in Ends /\ QueueOK(Y, send)
<1>1. PICK ks \in Seq(Kinds) : Goes(X, Y, ks) \/ Closes(X, Y, ks)
  BY DEF Result
<1>2. Y \in Ends
  BY <1>1 DEF Goes, Closes
<1>. QED BY <1>1, <1>2, QueueGoes, QueueCloses

\* What is said of an end's word holds whether or not the step has been understood yet.
Heard(X, Y, l, m) ==
  /\ m \in Seq(Units)
  /\ \E b \in Seq(Units) : OwnWord(X, Y, l \o X.out, b) /\ (Result(X, Y) => b = m \o Y.out)

LEMMA WordOfStep ==
  ASSUME NEW X \in Ends, NEW Y, NEW l \in Seq(Units), X.tcp # "closed",
         NEW m, m = (IF Y.tcp = "closed" THEN Append(l, Unit("fin")) ELSE l)
  PROVE  Heard(X, Y, l, m)
<1>1. X.out \in Seq(Units)
  BY EndFields
<1>2. l \o X.out \in Seq(Units)
  BY <1>1, ConcatProperties
<1>3. m \in Seq(Units)
  <2>1. Unit("fin") \in Units
    BY DEF Unit, Units, Kinds
  <2>. QED BY <2>1, AppendProperties
<1>4. CASE Result(X, Y)
  <2>1. Y \in Ends
    BY <1>4 DEF Result, Goes, Closes
  <2>2. m \o Y.out \in Seq(Units)
    BY <1>3, <2>1, EndFields, ConcatProperties
  <2>3. OwnWord(X, Y, l \o X.out, m \o Y.out)
    BY OwnWordFacts
  <2>. QED BY <1>3, <2>2, <2>3 DEF Heard
<1>5. CASE ~Result(X, Y)
  <2>1. OwnWord(X, Y, l \o X.out, l \o X.out)
    BY <1>5 DEF OwnWord, Result
  <2>. QED BY <1>2, <1>3, <1>5, <2>1 DEF Heard
<1>. QED BY <1>4, <1>5

LEMMA ClientTurn ==
  ASSUME NEW ends, NEW wire, NEW rest, NEW ends2, NEW wire2, NEW rest2,
         InvOf(ends, wire, rest), NEW D, ends2 = [ends EXCEPT !["client"] = D],
         wire2 \in [Sites -> Seq(Units)], Cheaper(rest, rest2), QueueOK(D, rest2["send"]),
         Sides(D, ends["server"], wire2["server"] \o ends["server"].out, wire2["client"] \o D.out)
  PROVE  InvOf(ends2, wire2, rest2)
<1>1. /\ ends \in [Sites -> Ends] /\ rest \in [Operations -> Nat] /\ QueueOK(ends["server"], rest["send"])
      /\ rest2 \in [Operations -> Nat] /\ rest2["send"] <= rest["send"]
  BY DEF InvOf, Cheaper
<1>2. "client" \in Sites /\ "server" \in Sites /\ "client" # "server" /\ "send" \in Operations
  BY DEF Sites, Operations
<1>3. D \in Ends /\ ends["server"] \in Ends /\ rest["send"] \in Nat /\ rest2["send"] \in Nat
  BY <1>1, <1>2 DEF Sides
<1>4. ends2 \in [Sites -> Ends] /\ ends2["client"] = D /\ ends2["server"] = ends["server"]
  BY <1>1, <1>2, <1>3
<1>5. QueueOK(ends["server"], rest2["send"])
  BY <1>1, <1>3, QueueLess
<1>. QED BY <1>1, <1>4, <1>5 DEF InvOf

LEMMA ServerTurn ==
  ASSUME NEW ends, NEW wire, NEW rest, NEW ends2, NEW wire2, NEW rest2,
         InvOf(ends, wire, rest), NEW T, ends2 = [ends EXCEPT !["server"] = T],
         wire2 \in [Sites -> Seq(Units)], Cheaper(rest, rest2), QueueOK(T, rest2["send"]),
         Sides(ends["client"], T, wire2["server"] \o T.out, wire2["client"] \o ends["client"].out)
  PROVE  InvOf(ends2, wire2, rest2)
<1>1. /\ ends \in [Sites -> Ends] /\ rest \in [Operations -> Nat] /\ QueueOK(ends["client"], rest["send"])
      /\ rest2 \in [Operations -> Nat] /\ rest2["send"] <= rest["send"]
  BY DEF InvOf, Cheaper
<1>2. "client" \in Sites /\ "server" \in Sites /\ "client" # "server" /\ "send" \in Operations
  BY DEF Sites, Operations
<1>3. T \in Ends /\ ends["client"] \in Ends /\ rest["send"] \in Nat /\ rest2["send"] \in Nat
  BY <1>1, <1>2 DEF Sides
<1>4. ends2 \in [Sites -> Ends] /\ ends2["server"] = T /\ ends2["client"] = ends["client"]
  BY <1>1, <1>2, <1>3
<1>5. QueueOK(ends["client"], rest2["send"])
  BY <1>1, <1>3, QueueLess
<1>. QED BY <1>1, <1>4, <1>5 DEF InvOf

\* End s becomes D, and its socket is closed if it has closed TCP.
Turned(s, D, ends, wire, ends2, wire2) ==
  /\ ends2 = [ends EXCEPT ![s] = D]
  /\ wire2 = [wire EXCEPT ![s] = IF D.tcp = "closed" /\ ends[s].tcp # "closed"
                                 THEN Append(@, Unit("fin")) ELSE @]

\* A step of the client's end alone: what it gives away is known once its Result is.
LEMMA ClientBecomes ==
  ASSUME NEW ends, NEW wire, NEW rest, NEW ends2, NEW wire2, NEW rest2,
         InvOf(ends, wire, rest), NEW D, Turned("client", D, ends, wire, ends2, wire2), ends["client"].tcp # "closed",
         Cheaper(rest, rest2)
  PROVE  \E v2 \in Seq(Units) :
           /\ OwnWord(ends["client"], D, wire["client"] \o ends["client"].out, v2)
           /\ /\ Sides(D, ends["server"], wire["server"] \o ends["server"].out, v2)
              /\ Result(ends["client"], D)
              => InvOf(ends2, wire2, rest2)
<1>. DEFINE C == ends["client"]
            S == ends["server"]
            l == wire["client"]
            m == IF D.tcp = "closed" THEN Append(l, Unit("fin")) ELSE l
<1>1. "client" \in Sites /\ "server" \in Sites /\ "client" # "server" /\ "send" \in Operations
  BY DEF Sites, Operations
<1>2. /\ ends \in [Sites -> Ends] /\ wire \in [Sites -> Seq(Units)] /\ rest \in [Operations -> Nat]
      /\ QueueOK(C, rest["send"])
  BY DEF InvOf
<1>3. C \in Ends /\ l \in Seq(Units) /\ rest["send"] \in Nat
  BY <1>1, <1>2
<1>4. ends2 = [ends EXCEPT !["client"] = D] /\ wire2 = [wire EXCEPT !["client"] = m]
  BY <1>1, <1>2 DEF Turned
<1>5. /\ m \in Seq(Units)
      /\ \E b \in Seq(Units) : OwnWord(C, D, l \o C.out, b) /\ (Result(C, D) => b = m \o D.out)
  <2>1. C.tcp # "closed" /\ m = (IF D.tcp = "closed" THEN Append(l, Unit("fin")) ELSE l)
    OBVIOUS
  <2>. HIDE DEF C, l, m
  <2>2. Heard(C, D, l, m)
    BY <1>3, <2>1, WordOfStep
  <2>. QED BY <2>2 DEF Heard
<1>. HIDE DEF m
<1>6. /\ wire2 \in [Sites -> Seq(Units)] /\ wire2["client"] = m /\ wire2["server"] = wire["server"]
  BY <1>1, <1>2, <1>4, <1>5
<1>7. PICK b \in Seq(Units) : OwnWord(C, D, l \o C.out, b) /\ (Result(C, D) => b = m \o D.out)
  BY <1>5
<1>8. ASSUME Sides(D, S, wire["server"] \o S.out, b), Result(C, D) PROVE InvOf(ends2, wire2, rest2)
  <2>1. Sides(D, S, wire2["server"] \o S.out, wire2["client"] \o D.out)
    BY <1>6, <1>7, <1>8
  <2>2. D \in Ends /\ QueueOK(D, rest["send"])
    BY <1>2, <1>3, <1>8, QueueResult
  <2>3. QueueOK(D, rest2["send"])
    <3>1. rest2["send"] \in Nat /\ rest2["send"] <= rest["send"]
      BY <1>1 DEF Cheaper
    <3>. QED BY <1>3, <2>2, <3>1, QueueLess
  <2>. QED BY <1>4, <1>6, <2>1, <2>3, ClientTurn
<1>. QED BY <1>7, <1>8

LEMMA ServerBecomes ==
  ASSUME NEW ends, NEW wire, NEW rest, NEW ends2, NEW wire2, NEW rest2,
         InvOf(ends, wire, rest), NEW T, Turned("server", T, ends, wire, ends2, wire2), ends["server"].tcp # "closed",
         Cheaper(rest, rest2)
  PROVE  \E w2 \in Seq(Units) :
           /\ OwnWord(ends["server"], T, wire["server"] \o ends["server"].out, w2)
           /\ /\ Sides(ends["client"], T, w2, wire["client"] \o ends["client"].out)
              /\ Result(ends["server"], T)
              => InvOf(ends2, wire2, rest2)
<1>. DEFINE C == ends["client"]
            S == ends["server"]
            l == wire["server"]
            m == IF T.tcp = "closed" THEN Append(l, Unit("fin")) ELSE l
<1>1. "client" \in Sites /\ "server" \in Sites /\ "client" # "server" /\ "send" \in Operations
  BY DEF Sites, Operations
<1>2. /\ ends \in [Sites -> Ends] /\ wire \in [Sites -> Seq(Units)] /\ rest \in [Operations -> Nat]
      /\ QueueOK(S, rest["send"])
  BY DEF InvOf
<1>3. S \in Ends /\ l \in Seq(Units) /\ rest["send"] \in Nat
  BY <1>1, <1>2
<1>4. ends2 = [ends EXCEPT !["server"] = T] /\ wire2 = [wire EXCEPT !["server"] = m]
  BY <1>1, <1>2 DEF Turned
<1>5. /\ m \in Seq(Units)
      /\ \E b \in Seq(Units) : OwnWord(S, T, l \o S.out, b) /\ (Result(S, T) => b = m \o T.out)
  <2>1. S.tcp # "closed" /\ m = (IF T.tcp = "closed" THEN Append(l, Unit("fin")) ELSE l)
    OBVIOUS
  <2>. HIDE DEF S, l, m
  <2>2. Heard(S, T, l, m)
    BY <1>3, <2>1, WordOfStep
  <2>. QED BY <2>2 DEF Heard
<1>. HIDE DEF m
<1>6. /\ wire2 \in [Sites -> Seq(Units)] /\ wire2["server"] = m /\ wire2["client"] = wire["client"]
  BY <1>1, <1>2, <1>4, <1>5
<1>7. PICK b \in Seq(Units) : OwnWord(S, T, l \o S.out, b) /\ (Result(S, T) => b = m \o T.out)
  BY <1>5
<1>8. ASSUME Sides(C, T, b, wire["client"] \o C.out), Result(S, T) PROVE InvOf(ends2, wire2, rest2)
  <2>1. Sides(C, T, wire2["server"] \o T.out, wire2["client"] \o C.out)
    BY <1>6, <1>7, <1>8
  <2>2. T \in Ends /\ QueueOK(T, rest["send"])
    BY <1>2, <1>3, <1>8, QueueResult
  <2>3. QueueOK(T, rest2["send"])
    <3>1. rest2["send"] \in Nat /\ rest2["send"] <= rest["send"]
      BY <1>1 DEF Cheaper
    <3>. QED BY <1>3, <2>2, <3>1, QueueLess
  <2>. QED BY <1>4, <1>6, <2>1, <2>3, ServerTurn
<1>. QED BY <1>7, <1>8

\* Any end may close at any time.
LEMMA ClientStops ==
  ASSUME NEW C, NEW D, NEW S, NEW w, NEW v, NEW w2 \in Seq(Units), NEW v2 \in Seq(Units),
         Sides(C, S, w, v), C.tcp # "closed", OwnWord(C, D, v, v2), Fewer(w, w2),
         \/ D = TcpClose(C)
         \/ D = Close(C) /\ IsOpen(C) /\ C.st # "encryption_requested"
  PROVE  Sides(D, S, w2, v2) /\ Result(C, D)
<1>1. C \in Ends /\ EndOK(C) /\ w \in Seq(Units) /\ v \in Seq(Units)
  BY ClientFacts
<1>2. C.st # "closed"
  BY <1>1 DEF EndOK
<1>3. CASE IsOpen(C)
  <2>1. /\ ClosesWell(C, D) /\ (C.tcp # "connecting" \/ D.st = "closed")
    <3>1. CASE D = TcpClose(C)
      <4>. DEFINE ks == <<>>
      <4>1. D.st = "closed"
        BY <1>1, <3>1, TcpCloseCloses
      <4>. QED BY <1>1, <3>1, <4>1, TcpCloseWell
    <3>2. CASE D = Close(C) /\ C.st # "encryption_requested"
      BY <1>1, <1>3, <3>2, CloseWell
    <3>. QED BY <3>1, <3>2
  <2>. QED BY <1>1, <1>3, <2>1, ClientCloses
<1>4. CASE C.st \in Closing
  <2>. DEFINE ks == <<>>
  <2>0. D = TcpClose(C)
    BY <1>4 DEF IsOpen, Over
  <2>1. ks \in {<<>>, <<"bye">>}
    OBVIOUS
  <2>. HIDE DEF ks
  <2>2. Closes(C, D, ks)
    BY <1>1, <2>0, TcpCloseCloses
  <2>. QED BY <1>1, <1>4, <2>1, <2>2, ClientGoesOn
<1>. QED BY <1>2, <1>3, <1>4 DEF IsOpen, Over

LEMMA ServerStops ==
  ASSUME NEW C, NEW S, NEW T, NEW w, NEW v, NEW w2 \in Seq(Units), NEW v2 \in Seq(Units),
         Sides(C, S, w, v), S.tcp # "closed", OwnWord(S, T, w, w2), Fewer(v, v2),
         \/ T = TcpClose(S)
         \/ T = Close(S) /\ IsOpen(S) /\ S.st # "encryption_requested"
  PROVE  Sides(C, T, w2, v2) /\ Result(S, T)
<1>1. S \in Ends /\ EndOK(S) /\ w \in Seq(Units) /\ v \in Seq(Units)
  BY ClientFacts
<1>2. S.st # "closed"
  BY <1>1 DEF EndOK
<1>3. CASE IsOpen(S)
  <2>1. ClosesWell(S, T)
    <3>1. CASE T = TcpClose(S)
      BY <1>1, <3>1, TcpCloseWell
    <3>2. CASE T = Close(S) /\ S.st # "encryption_requested"
      BY <1>1, <1>3, <3>2, CloseWell
    <3>. QED BY <3>1, <3>2
  <2>. QED BY <1>1, <1>3, <2>1, ServerCloses
<1>4. CASE S.st \in Closing
  <2>. DEFINE ks == <<>>
  <2>0. T = TcpClose(S)
    BY <1>4 DEF IsOpen, Over
  <2>1. ks \in {<<>>, <<"bye">>}
    OBVIOUS
  <2>. HIDE DEF ks
  <2>2. Closes(S, T, ks)
    BY <1>1, <2>0, TcpCloseCloses
  <2>. QED BY <1>1, <1>4, <2>1, <2>2, ServerGoesOn
<1>. QED BY <1>2, <1>3, <1>4 DEF IsOpen, Over

LEMMA InvFacts ==
  ASSUME NEW ends, NEW wire, NEW rest, InvOf(ends, wire, rest)
  PROVE  /\ ends["client"] \in Ends /\ ends["server"] \in Ends
         /\ wire["client"] \in Seq(Units) /\ wire["server"] \in Seq(Units) /\ rest["send"] \in Nat
         /\ ends \in [Sites -> Ends] /\ wire \in [Sites -> Seq(Units)] /\ rest \in [Operations -> Nat]
         /\ "client" \in Sites /\ "server" \in Sites /\ "client" # "server"
         /\ Sides(ends["client"], ends["server"], wire["server"] \o ends["server"].out,
                  wire["client"] \o ends["client"].out)
         /\ EndOK(ends["client"]) /\ EndOK(ends["server"])
         /\ ends["client"].site = "client" /\ ends["server"].site = "server"
         /\ QueueOK(ends["client"], rest["send"]) /\ QueueOK(ends["server"], rest["send"])
<1>1. "client" \in Sites /\ "server" \in Sites /\ "client" # "server" /\ "send" \in Operations
  BY DEF Sites, Operations
<1>2. /\ ends \in [Sites -> Ends] /\ wire \in [Sites -> Seq(Units)] /\ rest \in [Operations -> Nat]
      /\ Sides(ends["client"], ends["server"], wire["server"] \o ends["server"].out,
               wire["client"] \o ends["client"].out)
      /\ QueueOK(ends["client"], rest["send"]) /\ QueueOK(ends["server"], rest["send"])
  BY DEF InvOf
<1>3. /\ EndOK(ends["client"]) /\ EndOK(ends["server"])
      /\ ends["client"].site = "client" /\ ends["server"].site = "server"
  BY <1>2 DEF Sides
<1>. QED BY <1>1, <1>2, <1>3

\* What an end may become of itself, or when its TCP connection is lost.
Alone(s, X, D) ==
  \/ X.tcp # "closed" /\ D = TcpClose(X)
  \/ X.st \notin Closing \cup {"closed", "encryption_requested"} /\ D = Close(X)
  \/ X.sasl = "busy" /\ \E outcome \in {"more", "done", "error"} : D = SaslResult(X, outcome)
  \/ X.wait /\ D \in {VerifyContinue(X), VerifyCancel(X)}
  \/ /\ X.st = "authenticating" /\ X.sasl # "none" /\ D = ResetSasl(X)
     /\ s = "server" => X.sasl = "idle"

LEMMA ClientAlone ==
  ASSUME NEW ends, NEW wire, NEW rest, NEW ends2, NEW wire2, NEW rest2,
         InvOf(ends, wire, rest), NEW D, Alone("client", ends["client"], D),
         Turned("client", D, ends, wire, ends2, wire2), Cheaper(rest, rest2)
  PROVE  InvOf(ends2, wire2, rest2)
<1>. DEFINE C == ends["client"]
            S == ends["server"]
            w == wire["server"] \o ends["server"].out
            v == wire["client"] \o ends["client"].out
            Took(z) == Sides(D, S, w, z) /\ Result(C, D)
<1>1. /\ C \in Ends /\ EndOK(C) /\ Sides(C, S, w, v) /\ C.site = "client"
  BY InvFacts
<1>2. ASSUME C.tcp # "closed", \A z \in Seq(Units) : OwnWord(C, D, v, z) => Took(z)
      PROVE  InvOf(ends2, wire2, rest2)
  <2>1. PICK z \in Seq(Units) :
           OwnWord(C, D, v, z) /\ (Took(z) => InvOf(ends2, wire2, rest2))
    BY <1>2, ClientBecomes
  <2>. QED BY <1>2, <2>1
<1>3. Alone("client", C, D)
  OBVIOUS
<1>7. w \in Seq(Units) /\ v \in Seq(Units) /\ Fewer(w, w) /\ Fewer(v, v)
  BY <1>1, ClientFacts DEF Sides, Fewer
<1>. HIDE DEF C, S, w, v
<1>4. CASE \/ C.tcp # "closed" /\ D = TcpClose(C)
           \/ C.st \notin Closing \cup {"closed", "encryption_requested"} /\ D = Close(C)
  <2>1. /\ C.tcp # "closed"
        /\ D = TcpClose(C) \/ (D = Close(C) /\ IsOpen(C) /\ C.st # "encryption_requested")
    BY <1>1, <1>4 DEF IsOpen, Over, EndOK
  <2>2. \A z \in Seq(Units) : OwnWord(C, D, v, z) => Took(z)
    BY <1>1, <1>7, <2>1, ClientStops
  <2>. QED BY <1>2, <2>1, <2>2
<1>5. CASE C.sasl = "busy" /\ \E outcome \in {"more", "done", "error"} : D = SaslResult(C, outcome)
  <2>1. C.tcp # "closed"
    BY <1>1, <1>5 DEF EndOK
  <2>2. \A z \in Seq(Units) : OwnWord(C, D, v, z) => Took(z)
    BY <1>1, <1>5, ClientAnswers
  <2>. QED BY <1>2, <2>1, <2>2
<1>6. CASE C.wait /\ D \in {VerifyContinue(C), VerifyCancel(C)}
  <2>1. C.tcp # "closed"
    BY <1>1, <1>6 DEF EndOK
  <2>2. \A z \in Seq(Units) : OwnWord(C, D, v, z) => Took(z)
    BY <1>1, <1>6, ClientVerifies
  <2>. QED BY <1>2, <2>1, <2>2
<1>8. CASE /\ C.st = "authenticating" /\ C.sasl # "none" /\ D = ResetSasl(C)
           /\ "client" = "server" => C.sasl = "idle"
  <2>1. C.tcp # "closed"
    BY <1>1, <1>8 DEF EndOK
  <2>2. \A z \in Seq(Units) : OwnWord(C, D, v, z) => Took(z)
    BY <1>1, <1>8, ClientResets
  <2>. QED BY <1>2, <2>1, <2>2
<1>. QED BY <1>3, <1>4, <1>5, <1>6, <1>8 DEF Alone

LEMMA ServerAlone ==
  ASSUME NEW ends, NEW wire, NEW rest, NEW ends2, NEW wire2, NEW rest2,
         InvOf(ends, wire, rest), NEW D, Alone("server", ends["server"], D),
         Turned("server", D, ends, wire, ends2, wire2), Cheaper(rest, rest2)
  PROVE  InvOf(ends2, wire2, rest2)
<1>. DEFINE C == ends["client"]
            S == ends["server"]
            w == wire["server"] \o ends["server"].out
            v == wire["client"] \o ends["client"].out
            Took(z) == Sides(C, D, z, v) /\ Result(S, D)
<1>1. /\ S \in Ends /\ EndOK(S) /\ Sides(C, S, w, v) /\ S.site = "server"
  BY InvFacts
<1>2. ASSUME S.tcp # "closed", \A z \in Seq(Units) : OwnWord(S, D, w, z) => Took(z)
      PROVE  InvOf(ends2, wire2, rest2)
  <2>1. PICK z \in Seq(Units) :
           OwnWord(S, D, w, z) /\ (Took(z) => InvOf(ends2, wire2, rest2))
    BY <1>2, ServerBecomes
  <2>. QED BY <1>2, <2>1
<1>3. Alone("server", S, D)
  OBVIOUS
<1>7. w \in Seq(Units) /\ v \in Seq(Units) /\ Fewer(w, w) /\ Fewer(v, v)
  BY <1>1, ClientFacts DEF Sides, Fewer
<1>. HIDE DEF C, S, w, v
<1>4. CASE \/ S.tcp # "closed" /\ D = TcpClose(S)
           \/ S.st \notin Closing \cup {"closed", "encryption_requested"} /\ D = Close(S)
  <2>1. /\ S.tcp # "closed"
        /\ D = TcpClose(S) \/ (D = Close(S) /\ IsOpen(S) /\ S.st # "encryption_requested")
    BY <1>1, <1>4 DEF IsOpen, Over, EndOK
  <2>2. \A z \in Seq(Units) : OwnWord(S, D, w, z) => Took(z)
    BY <1>1, <1>7, <2>1, ServerStops
  <2>. QED BY <1>2, <2>1, <2>2
<1>5. CASE S.sasl = "busy" /\ \E outcome \in {"more", "done", "error"} : D = SaslResult(S, outcome)
  <2>1. S.tcp # "closed"
    BY <1>1, <1>5 DEF EndOK
  <2>2. \A z \in Seq(Units) : OwnWord(S, D, w, z) => Took(z)
    BY <1>1, <1>5, ServerAnswers
  <2>. QED BY <1>2, <2>1, <2>2
<1>6. ~S.wait
  BY <1>1 DEF EndOK
<1>8. CASE /\ S.st = "authenticating" /\ S.sasl # "none" /\ D = ResetSasl(S)
           /\ "server" = "server" => S.sasl = "idle"
  <2>1. S.tcp # "closed"
    BY <1>1, <1>8 DEF EndOK
  <2>2. \A z \in Seq(Units) : OwnWord(S, D, w, z) => Took(z)
    BY <1>1, <1>8, ServerResets
  <2>. QED BY <1>2, <2>1, <2>2
<1>. QED BY <1>3, <1>4, <1>5, <1>6, <1>8 DEF Alone

LEMMA QueueSame ==
  ASSUME NEW X, NEW Y, NEW send, QueueOK(X, send),
         Y.out = X.out, Y.pos = X.pos, Y.msgs = X.msgs, Y.told = X.told
  PROVE  QueueOK(Y, send)
BY DEF QueueOK

LEMMA Connects ==
  ASSUME NEW ends, NEW wire, NEW rest, NEW ends2, NEW wire2, NEW rest2,
         InvOf(ends, wire, rest), ends["client"].tcp = "connecting", rest2 = rest,
         Turned("client", Connected(ends["client"]), ends, wire, ends2, wire2)
  PROVE  InvOf(ends2, wire2, rest2)
<1>. DEFINE C == ends["client"]
            S == ends["server"]
            w == wire["server"] \o ends["server"].out
            v == wire["client"] \o ends["client"].out
            l == wire["client"]
            Z == Joined(C)
            D == Connected(C)
            m == IF D.tcp = "closed" THEN Append(l, Unit("fin")) ELSE l
<1>1. /\ C \in Ends /\ rest \in [Operations -> Nat] /\ EndOK(C) /\ Sides(C, S, w, v) /\ C.site = "client"
      /\ l \in Seq(Units) /\ rest["send"] \in Nat /\ QueueOK(C, rest["send"])
      /\ wire \in [Sites -> Seq(Units)] /\ "client" \in Sites /\ "server" \in Sites /\ "client" # "server"
      /\ ends \in [Sites -> Ends]
  BY InvFacts
<1>2. C.tcp = "connecting" /\ Turned("client", D, ends, wire, ends2, wire2)
  OBVIOUS
<1>3. ends2 = [ends EXCEPT !["client"] = D] /\ wire2 = [wire EXCEPT !["client"] = m]
  BY <1>1, <1>2 DEF Turned
<1>4. Cheaper(rest, rest2) /\ rest2 = rest
  BY <1>1 DEF Cheaper, Operations
<1>5. /\ Z \in Ends /\ Z.out = C.out /\ Z.pos = C.pos /\ Z.msgs = C.msgs /\ Z.told = C.told
      /\ Z.tcp = "connected"
  <2>. HIDE DEF C
  <2>. QED BY <1>1, ConnectedReaches DEF Joined
<1>6. m = (IF D.tcp = "closed" THEN Append(l, Unit("fin")) ELSE l)
  OBVIOUS
<1>7. v = l \o C.out /\ D = Connected(C)
  OBVIOUS
<1>8. wire2["server"] \o S.out = w
  BY <1>1, <1>3
<1>. HIDE DEF C, S, w, v, l, Z, D, m
<1>9. Heard(Z, D, l, m)
  BY <1>1, <1>5, <1>6, WordOfStep
<1>10. PICK b \in Seq(Units) : OwnWord(Z, D, l \o Z.out, b) /\ (Result(Z, D) => b = m \o D.out)
  BY <1>9 DEF Heard
<1>11. OwnWord(Joined(C), D, v, b)
  BY <1>5, <1>7, <1>10 DEF Z
<1>12. Sides(D, S, w, b) /\ Result(Z, D)
  BY <1>1, <1>2, <1>7, <1>11, ClientConnects DEF Z
<1>13. QueueOK(D, rest["send"])
  <2>1. QueueOK(Z, rest["send"])
    BY <1>1, <1>5, QueueSame
  <2>. QED BY <1>1, <1>5, <1>12, <2>1, QueueResult
<1>14. wire2 \in [Sites -> Seq(Units)] /\ wire2["client"] = m
  BY <1>1, <1>3, <1>9 DEF Heard
<1>15. Sides(D, S, wire2["server"] \o S.out, wire2["client"] \o D.out)
  BY <1>8, <1>10, <1>12, <1>14
<1>. QED BY <1>3, <1>4, <1>13, <1>14, <1>15, ClientTurn DEF C, S

\* A message is queued, and its id is used up.
SendsOne(s, ends, wire, rest, ends2, wire2, rest2) ==
  /\ ends[s].st = "ready" /\ rest["send"] > 0 /\ rest2 = [rest EXCEPT !["send"] = @ - 1]
  /\ Turned(s, Send(ends[s], rest["send"]), ends, wire, ends2, wire2)

SentAs(s, Y, ends, wire, rest, ends2, wire2, rest2) ==
  /\ Sends(ends[s], Y, rest["send"]) /\ ends2 = [ends EXCEPT ![s] = Y] /\ wire2 = wire
  /\ ends[s].st = "ready" /\ Cheaper(rest, rest2) /\ QueueOK(Y, rest2["send"])
  /\ (wire[s] \o ends[s].out) \o Payload(rest["send"]) = wire[s] \o Y.out

LEMMA SendingStep ==
  ASSUME NEW ends, NEW wire, NEW rest, NEW ends2, NEW wire2, NEW rest2,
         InvOf(ends, wire, rest), NEW s \in Sites, SendsOne(s, ends, wire, rest, ends2, wire2, rest2)
  PROVE  \E Y : SentAs(s, Y, ends, wire, rest, ends2, wire2, rest2)
<1>. DEFINE X == ends[s]
            id == rest["send"]
            Y == Send(X, id)
<1>1. /\ ends \in [Sites -> Ends] /\ wire \in [Sites -> Seq(Units)] /\ rest \in [Operations -> Nat] /\ id \in Nat
  BY InvFacts
<1>2. /\ X \in Ends /\ EndOK(X) /\ QueueOK(X, id)
  BY InvFacts DEF Sites
<1>3. /\ X.st = "ready" /\ Turned(s, Y, ends, wire, ends2, wire2)
      /\ id > 0 /\ rest2 = [rest EXCEPT !["send"] = id - 1]
  BY DEF SendsOne
<1>4. "send" \in Operations
  BY DEF Operations
<1>5. id > 0 /\ rest2["send"] = id - 1 /\ Cheaper(rest, rest2)
  BY <1>1, <1>3, <1>4 DEF Cheaper
<1>6. X.pos \in Nat
  BY <1>2, EndFields, LenProperties DEF QueueOK
<1>7. Sends(X, Y, id)
  <2>. HIDE DEF X, id
  <2>. QED BY <1>1, <1>2, <1>3, <1>6, SendSends
<1>. HIDE DEF Y
<1>8. QueueOK(Y, rest2["send"])
  BY <1>1, <1>2, <1>5, <1>7, QueueSends
<1>9. Y.tcp = "connected" /\ X.tcp = "connected"
  <2>1. X.tcp \in {"connecting", "connected", "closed"}
    BY <1>2, EndFields
  <2>. QED BY <1>2, <1>3, <1>7, <2>1 DEF EndOK, Sends
<1>10. ends2 = [ends EXCEPT ![s] = Y] /\ wire2 = wire
  BY <1>1, <1>3, <1>9 DEF Turned
<1>11. (wire[s] \o X.out) \o Payload(id) = wire[s] \o Y.out
  <2>1. wire[s] \in Seq(Units) /\ X.out \in Seq(Units) /\ Payload(id) \in Seq(Units)
    BY <1>1, <1>2, EndFields, PayloadFacts
  <2>2. (wire[s] \o X.out) \o Payload(id) = wire[s] \o (X.out \o Payload(id))
    BY <2>1, Associate
  <2>. QED BY <1>7, <2>2 DEF Sends
<1>. QED BY <1>3, <1>5, <1>7, <1>8, <1>10, <1>11 DEF SentAs

LEMMA Sending ==
  ASSUME NEW ends, NEW wire, NEW rest, NEW ends2, NEW wire2, NEW rest2,
         InvOf(ends, wire, rest), NEW s \in Sites, SendsOne(s, ends, wire, rest, ends2, wire2, rest2)
  PROVE  InvOf(ends2, wire2, rest2)
<1>. DEFINE C == ends["client"]
            S == ends["server"]
            w == wire["server"] \o ends["server"].out
            v == wire["client"] \o ends["client"].out
            id == rest["send"]
<1>1. Sides(C, S, w, v) /\ id \in Nat /\ wire \in [Sites -> Seq(Units)]
  BY InvFacts
<1>5. PICK Y : SentAs(s, Y, ends, wire, rest, ends2, wire2, rest2)
  BY SendingStep
<1>2. /\ Sends(ends[s], Y, id) /\ ends2 = [ends EXCEPT ![s] = Y] /\ wire2 = wire
      /\ ends[s].st = "ready" /\ Cheaper(rest, rest2) /\ QueueOK(Y, rest2["send"])
      /\ (wire[s] \o ends[s].out) \o Payload(id) = wire[s] \o Y.out
  BY <1>5 DEF SentAs
<1>3. CASE s = "client"
  <2>1. Sends(C, Y, id) /\ C.st = "ready" /\ wire["client"] \o Y.out = v \o Payload(id)
    BY <1>2, <1>3
  <2>. HIDE DEF C, S, w, v, id
  <2>2. Sides(Y, S, w, wire["client"] \o Y.out)
    BY <1>1, <2>1, ClientSends
  <2>. QED BY <1>1, <1>2, <1>3, <2>2, ClientTurn DEF S, w
<1>4. CASE s = "server"
  <2>1. Sends(S, Y, id) /\ S.st = "ready" /\ wire["server"] \o Y.out = w \o Payload(id)
    BY <1>2, <1>4
  <2>. HIDE DEF C, S, w, v, id
  <2>2. Sides(C, Y, wire["server"] \o Y.out, v)
    BY <1>1, <2>1, ServerSends
  <2>. QED BY <1>1, <1>2, <1>4, <2>2, ServerTurn DEF C, v
<1>. QED BY <1>3, <1>4 DEF Sites

\* Some of what an end has sent is written.
WritesSome(s, ends, wire, ends2, wire2) ==
  /\ ends[s].tcp = "connected"
  /\ \E n \in 1..Len(ends[s].out) :
       /\ ends2 = [ends EXCEPT ![s] = Written(ends[s], n)]
       /\ wire2 = [wire EXCEPT ![s] = Flushed(wire[s], ends[s].out, n, Written(ends[s], n).tcp)]

LEMMA Writing ==
  ASSUME NEW ends, NEW wire, NEW rest, NEW ends2, NEW wire2, NEW rest2,
         InvOf(ends, wire, rest), NEW s \in Sites, WritesSome(s, ends, wire, ends2, wire2), rest2 = rest
  PROVE  InvOf(ends2, wire2, rest2)
<1>. DEFINE C == ends["client"]
            S == ends["server"]
            w == wire["server"] \o ends["server"].out
            v == wire["client"] \o ends["client"].out
            send == rest["send"]
<1>1. /\ Sides(C, S, w, v) /\ send \in Nat /\ wire \in [Sites -> Seq(Units)] /\ ends \in [Sites -> Ends]
      /\ QueueOK(C, send) /\ QueueOK(S, send) /\ rest \in [Operations -> Nat]
      /\ wire["client"] \in Seq(Units) /\ wire["server"] \in Seq(Units)
      /\ "client" \in Sites /\ "server" \in Sites /\ "client" # "server"
  BY InvFacts
<1>2. ends[s].tcp = "connected" /\ Cheaper(rest, rest2) /\ rest2 = rest
  BY <1>1 DEF WritesSome, Cheaper, Operations
<1>3. PICK n \in 1..Len(ends[s].out) :
        /\ ends2 = [ends EXCEPT ![s] = Written(ends[s], n)]
        /\ wire2 = [wire EXCEPT ![s] = Flushed(wire[s], ends[s].out, n, Written(ends[s], n).tcp)]
  BY DEF WritesSome
<1>. DEFINE Y == Written(ends[s], n)
            f == Flushed(wire[s], ends[s].out, n, Y.tcp)
<1>4. ends2 = [ends EXCEPT ![s] = Y] /\ wire2 = [wire EXCEPT ![s] = f]
  BY <1>3
<1>5. CASE s = "client"
  <2>. DEFINE l == wire["client"]
  <2>1. /\ C.tcp = "connected" /\ n \in 1..Len(C.out) /\ Y = Written(C, n)
        /\ f = Flushed(l, C.out, n, Y.tcp) /\ v = l \o C.out /\ l \in Seq(Units)
        /\ ends2 = [ends EXCEPT !["client"] = Y] /\ wire2 = [wire EXCEPT !["client"] = f]
    BY <1>1, <1>2, <1>4, <1>5
  <2>2. w = wire["server"] \o S.out
    OBVIOUS
  <2>. HIDE DEF C, S, w, v, send, Y, f, l
  <2>3. Sides(Y, S, w, f \o Y.out) /\ QueueOK(Y, send) /\ f \in Seq(Units)
    <3>. DEFINE to == f \o Y.out
    <3>1. to = f \o Y.out
      OBVIOUS
    <3>. HIDE DEF to
    <3>2. WritesTo(C, Y, l, n, f, v, to)
      BY <2>1, <3>1 DEF WritesTo
    <3>3. Sides(Y, S, w, to) /\ QueueOK(Y, send) /\ f \in Seq(Units)
      BY <1>1, <3>2, ClientWrites
    <3>. QED BY <3>1, <3>3
  <2>4. /\ wire2 \in [Sites -> Seq(Units)] /\ wire2["client"] = f /\ wire2["server"] = wire["server"]
    BY <1>1, <2>1, <2>3
  <2>5. Sides(Y, S, wire2["server"] \o S.out, wire2["client"] \o Y.out)
    BY <2>2, <2>3, <2>4
  <2>6. QueueOK(Y, rest2["send"])
    BY <1>2, <2>3 DEF send
  <2>. QED BY <1>2, <2>1, <2>4, <2>5, <2>6, ClientTurn DEF S
<1>6. CASE s = "server"
  <2>. DEFINE l == wire["server"]
  <2>1. /\ S.tcp = "connected" /\ n \in 1..Len(S.out) /\ Y = Written(S, n)
        /\ f = Flushed(l, S.out, n, Y.tcp) /\ w = l \o S.out /\ l \in Seq(Units)
        /\ ends2 = [ends EXCEPT !["server"] = Y] /\ wire2 = [wire EXCEPT !["server"] = f]
    BY <1>1, <1>2, <1>4, <1>6
  <2>2. v = wire["client"] \o C.out
    OBVIOUS
  <2>. HIDE DEF C, S, w, v, send, Y, f, l
  <2>3. Sides(C, Y, f \o Y.out, v) /\ QueueOK(Y, send) /\ f \in Seq(Units)
    <3>. DEFINE to == f \o Y.out
    <3>1. to = f \o Y.out
      OBVIOUS
    <3>. HIDE DEF to
    <3>2. WritesTo(S, Y, l, n, f, w, to)
      BY <2>1, <3>1 DEF WritesTo
    <3>3. Sides(C, Y, to, v) /\ QueueOK(Y, send) /\ f \in Seq(Units)
      BY <1>1, <3>2, ServerWrites
    <3>. QED BY <3>1, <3>3
  <2>4. /\ wire2 \in [Sites -> Seq(Units)] /\ wire2["server"] = f /\ wire2["client"] = wire["client"]
    BY <1>1, <2>1, <2>3
  <2>5. Sides(C, Y, wire2["server"] \o Y.out, wire2["client"] \o C.out)
    BY <2>2, <2>3, <2>4
  <2>6. QueueOK(Y, rest2["send"])
    BY <1>2, <2>3 DEF send
  <2>. QED BY <1>2, <2>1, <2>4, <2>5, <2>6, ServerTurn DEF C
<1>. QED BY <1>5, <1>6 DEF Sites

LEMMA ClientHears ==
  ASSUME NEW C, NEW D, NEW S, NEW w, NEW v, NEW w2 \in Seq(Units), NEW v2 \in Seq(Units), Sides(C, S, w, v),
         C.tcp = "connected", NEW e \in Units, NEW outcome, D = Receive(C, e, outcome), OwnWord(C, D, v, v2),
         Shifted(w, w2), w[1] = e
  PROVE  Sides(D, S, w2, v2) /\ Result(C, D)
<1>1. C \in Ends /\ EndOK(C) /\ w \in Seq(Units)
  BY ClientFacts
<1>2. CASE IsOpen(C)
  <2>1. ClientReads(C, D, S, w, v, w2, v2, e, outcome)
    BY <1>2 DEF ClientReads
  <2>. QED BY <2>1, ClientReadsWell
<1>3. CASE C.st \in Closing
  <2>1. PICK ks \in {<<>>, <<"bye">>} : Closes(C, D, ks)
    BY <1>1, <1>3, ReadClosing
  <2>2. Fewer(w, w2)
    BY <1>1, FewerWords
  <2>. QED BY <1>3, <2>1, <2>2, ClientGoesOn
<1>4. C.st # "closed"
  BY <1>1 DEF EndOK
<1>. QED BY <1>2, <1>3, <1>4 DEF IsOpen, Over

LEMMA ServerHears ==
  ASSUME NEW C, NEW S, NEW T, NEW w, NEW v, NEW w2 \in Seq(Units), NEW v2 \in Seq(Units), Sides(C, S, w, v),
         S.tcp = "connected", NEW e \in Units, NEW outcome, T = Receive(S, e, outcome), OwnWord(S, T, w, w2),
         Shifted(v, v2), v[1] = e
  PROVE  Sides(C, T, w2, v2) /\ Result(S, T)
<1>1. S \in Ends /\ EndOK(S) /\ v \in Seq(Units)
  BY ClientFacts
<1>2. CASE IsOpen(S)
  <2>1. ServerReads(C, S, T, w, v, w2, v2, e, outcome)
    BY <1>2 DEF ServerReads
  <2>. QED BY <2>1, ServerReadsWell
<1>3. CASE S.st \in Closing
  <2>1. PICK ks \in {<<>>, <<"bye">>} : Closes(S, T, ks)
    BY <1>1, <1>3, ReadClosing
  <2>2. Fewer(v, v2)
    BY <1>1, FewerWords
  <2>. QED BY <1>3, <2>1, <2>2, ServerGoesOn
<1>4. S.st # "closed"
  BY <1>1 DEF EndOK
<1>. QED BY <1>2, <1>3, <1>4 DEF IsOpen, Over

\* End s becomes D with the next unit e, and m is written by it then.
Reads(s, D, e, m, ends, wire, rest, ends2, wire2, rest2) ==
  LET l == wire[Other(s)]
  IN  /\ ends[s].tcp = "connected" /\ Cheaper(rest, rest2) /\ l # <<>> /\ e = Head(l)
      /\ ends2 = [ends EXCEPT ![s] = D] /\ wire2 = [wire EXCEPT ![Other(s)] = Tail(l), ![s] = m]
      /\ m = (IF D.tcp = "closed" THEN Append(wire[s], Unit("fin")) ELSE wire[s])
      /\ D = TcpClose(ends[s]) \/ \E outcome : D = Receive(ends[s], e, outcome)

LEMMA ClientReceives ==
  ASSUME NEW ends, NEW wire, NEW rest, NEW ends2, NEW wire2, NEW rest2,
         InvOf(ends, wire, rest), NEW D, NEW e, NEW m,
         Reads("client", D, e, m, ends, wire, rest, ends2, wire2, rest2)
  PROVE  InvOf(ends2, wire2, rest2)
<1>. DEFINE C == ends["client"]
            S == ends["server"]
            w == wire["server"] \o ends["server"].out
            v == wire["client"] \o ends["client"].out
            send == rest["send"]
            l == wire["server"]
            a == wire["client"]
            out == S.out
<1>1. /\ Sides(C, S, w, v) /\ send \in Nat /\ wire \in [Sites -> Seq(Units)] /\ QueueOK(C, send)
      /\ a \in Seq(Units) /\ l \in Seq(Units) /\ C \in Ends /\ S \in Ends
      /\ "client" \in Sites /\ "server" \in Sites /\ "client" # "server"
  BY InvFacts
<1>3. /\ C.tcp = "connected" /\ Cheaper(rest, rest2) /\ l # <<>> /\ e = Head(l)
      /\ ends2 = [ends EXCEPT !["client"] = D]
      /\ wire2 = [wire EXCEPT !["server"] = Tail(l), !["client"] = m]
      /\ m = (IF D.tcp = "closed" THEN Append(a, Unit("fin")) ELSE a)
  BY DEF Reads, Other
<1>4. w = l \o out /\ v = a \o C.out /\ out \in Seq(Units) /\ (D = TcpClose(C) \/ \E outcome : D = Receive(C, e, outcome))
      /\ S.out = out
  BY <1>1, EndFields DEF Reads
<1>. HIDE DEF C, S, w, v, send, l, a, out
<1>5. /\ w \in Seq(Units) /\ Tail(l) \in Seq(Units) /\ Tail(l) \o out \in Seq(Units)
      /\ w[1] = e /\ Shifted(w, Tail(l) \o out)
  BY <1>1, <1>3, <1>4, HeadOfWord
<1>12. e \in Units
  BY <1>1, <1>3
<1>6. Heard(C, D, a, m)
  BY <1>1, <1>3, WordOfStep
<1>7. PICK b \in Seq(Units) : OwnWord(C, D, v, b) /\ (Result(C, D) => b = m \o D.out)
  BY <1>4, <1>6 DEF Heard
<1>8. Sides(D, S, Tail(l) \o out, b) /\ Result(C, D)
  <2>1. CASE D = TcpClose(C)
    <3>1. C.tcp # "closed" /\ Fewer(w, Tail(l) \o out)
      BY <1>3, <1>5, FewerWords
    <3>. QED BY <1>1, <1>5, <1>7, <2>1, <3>1, ClientStops
  <2>2. CASE \E outcome : D = Receive(C, e, outcome)
    BY <1>1, <1>3, <1>4, <1>5, <1>7, <1>12, <2>2, ClientHears
  <2>. QED BY <1>4, <2>1, <2>2
<1>9. wire2 \in [Sites -> Seq(Units)] /\ wire2["client"] = m /\ wire2["server"] = Tail(l)
  BY <1>1, <1>3, <1>5, <1>6 DEF Heard
<1>10. Sides(D, S, wire2["server"] \o S.out, wire2["client"] \o D.out)
  BY <1>4, <1>7, <1>8, <1>9
<1>11. QueueOK(D, rest2["send"])
  <2>1. D \in Ends /\ QueueOK(D, send)
    BY <1>1, <1>8, QueueResult
  <2>2. rest2["send"] \in Nat /\ rest2["send"] <= send
    BY <1>3 DEF Cheaper, send, Operations
  <2>. QED BY <1>1, <2>1, <2>2, QueueLess
<1>13. ends2 = [ends EXCEPT !["client"] = D] /\ Cheaper(rest, rest2) /\ wire2 \in [Sites -> Seq(Units)]
  BY <1>3, <1>9
<1>14. InvOf(ends, wire, rest)
  OBVIOUS
<1>. QED BY <1>10, <1>11, <1>13, <1>14, ClientTurn DEF S

LEMMA ServerReceives ==
  ASSUME NEW ends, NEW wire, NEW rest, NEW ends2, NEW wire2, NEW rest2,
         InvOf(ends, wire, rest), NEW D, NEW e, NEW m,
         Reads("server", D, e, m, ends, wire, rest, ends2, wire2, rest2)
  PROVE  InvOf(ends2, wire2, rest2)
<1>. DEFINE C == ends["client"]
            S == ends["server"]
            w == wire["server"] \o ends["server"].out
            v == wire["client"] \o ends["client"].out
            send == rest["send"]
            l == wire["client"]
            a == wire["server"]
            out == C.out
<1>1. /\ Sides(C, S, w, v) /\ send \in Nat /\ wire \in [Sites -> Seq(Units)] /\ QueueOK(S, send)
      /\ a \in Seq(Units) /\ l \in Seq(Units) /\ C \in Ends /\ S \in Ends
      /\ "client" \in Sites /\ "server" \in Sites /\ "client" # "server"
  BY InvFacts
<1>3. /\ S.tcp = "connected" /\ Cheaper(rest, rest2) /\ l # <<>> /\ e = Head(l)
      /\ ends2 = [ends EXCEPT !["server"] = D]
      /\ wire2 = [wire EXCEPT !["client"] = Tail(l), !["server"] = m]
      /\ m = (IF D.tcp = "closed" THEN Append(a, Unit("fin")) ELSE a)
  BY DEF Reads, Other
<1>4. v = l \o out /\ w = a \o S.out /\ out \in Seq(Units) /\ (D = TcpClose(S) \/ \E outcome : D = Receive(S, e, outcome))
      /\ C.out = out
  BY <1>1, EndFields DEF Reads
<1>. HIDE DEF C, S, w, v, send, l, a, out
<1>5. /\ v \in Seq(Units) /\ Tail(l) \in Seq(Units) /\ Tail(l) \o out \in Seq(Units)
      /\ v[1] = e /\ Shifted(v, Tail(l) \o out)
  BY <1>1, <1>3, <1>4, HeadOfWord
<1>12. e \in Units
  BY <1>1, <1>3
<1>6. Heard(S, D, a, m)
  BY <1>1, <1>3, WordOfStep
<1>7. PICK b \in Seq(Units) : OwnWord(S, D, w, b) /\ (Result(S, D) => b = m \o D.out)
  BY <1>4, <1>6 DEF Heard
<1>8. Sides(C, D, b, Tail(l) \o out) /\ Result(S, D)
  <2>1. CASE D = TcpClose(S)
    <3>1. S.tcp # "closed" /\ Fewer(v, Tail(l) \o out)
      BY <1>3, <1>5, FewerWords
    <3>. QED BY <1>1, <1>5, <1>7, <2>1, <3>1, ServerStops
  <2>2. CASE \E outcome : D = Receive(S, e, outcome)
    BY <1>1, <1>3, <1>4, <1>5, <1>7, <1>12, <2>2, ServerHears
  <2>. QED BY <1>4, <2>1, <2>2
<1>9. wire2 \in [Sites -> Seq(Units)] /\ wire2["server"] = m /\ wire2["client"] = Tail(l)
  BY <1>1, <1>3, <1>5, <1>6 DEF Heard
<1>10. Sides(C, D, wire2["server"] \o D.out, wire2["client"] \o C.out)
  BY <1>4, <1>7, <1>8, <1>9
<1>11. QueueOK(D, rest2["send"])
  <2>1. D \in Ends /\ QueueOK(D, send)
    BY <1>1, <1>8, QueueResult
  <2>2. rest2["send"] \in Nat /\ rest2["send"] <= send
    BY <1>3 DEF Cheaper, send, Operations
  <2>. QED BY <1>1, <2>1, <2>2, QueueLess
<1>13. ends2 = [ends EXCEPT !["server"] = D] /\ Cheaper(rest, rest2) /\ wire2 \in [Sites -> Seq(Units)]
  BY <1>3, <1>9
<1>14. InvOf(ends, wire, rest)
  OBVIOUS
<1>. QED BY <1>10, <1>11, <1>13, <1>14, ServerTurn DEF C

(***************************************************************************)
(* An end one of whose sends is to fail, or has failed: all that is said   *)
(* of it is its policy, and that once it has failed it has no TCP and is   *)
(* not ready, whatever else the handler that goes on makes of it.          *)
(***************************************************************************)
Going(X, p) ==
  /\ {"fault", "tcp", "st", "policy"} \subseteq DOMAIN X
  /\ X.policy = p /\ X.fault \in Int \ {0}
  /\ X.fault < 0 => X.tcp = "closed" /\ X.st # "ready"

\* The send that is to fail is still to come, or the end has just learnt that it has failed.
Told(X, p) == Going(X, p) /\ (X.fault > 0 \/ X.st = "closed")
Before(X, p) == Going(X, p) /\ X.fault > 0

LEMMA BeforeTold == ASSUME NEW X, NEW p, Before(X, p) PROVE Told(X, p) /\ Going(X, p)
BY DEF Before, Told

\* What the handlers change of such an end.
LEMMA GoingChanges ==
  ASSUME NEW X, NEW p, Going(X, p), NEW a
  PROVE  /\ Going([X EXCEPT !.bad = a], p) /\ Going([X EXCEPT !.sasl = a], p)
         /\ Going([X EXCEPT !.tls = a], p) /\ Going([X EXCEPT !.wait = a], p)
         /\ Going([X EXCEPT !.nested = a], p) /\ Going([X EXCEPT !.out = a], p)
         /\ Going([X EXCEPT !.pos = a], p) /\ Going([X EXCEPT !.msgs = a], p)
         /\ Going([X EXCEPT !.told = a], p) /\ Going([X EXCEPT !.got = a], p)
         /\ (a # "ready" \/ X.fault > 0 => Going([X EXCEPT !.st = a], p))
BY DEF Going

LEMMA GoingClear == ASSUME NEW X, NEW p, Going(X, p) PROVE Going(Clear(X), p) /\ Clear(X).fault = X.fault /\ Clear(X).st = X.st
BY DEF Going, Clear

LEMMA GoingFails == ASSUME NEW X, NEW p, Before(X, p) PROVE Told(Fails(X), p) /\ Fails(X).fault = -1
BY DEF Going, Before, Told, Fails, Clear

LEMMA GoingPush ==
  ASSUME NEW X, NEW p, Going(X, p), NEW u
  PROVE  Going(Push(X, u), p) /\ (X.fault > 0 => Told(Push(X, u), p)) /\ (X.fault < 0 => Push(X, u).st = X.st)
<1>1. CASE X.fault = 1
  <2>1. Push(X, u) = Fails(X)
    BY <1>1 DEF Push
  <2>. QED BY <1>1, <2>1, GoingFails DEF Before, Told
<1>2. CASE X.fault > 1
  BY <1>2 DEF Push, Going, Told
<1>3. CASE X.fault < 0
  BY <1>3 DEF Push, Going
<1>. QED BY <1>1, <1>2, <1>3 DEF Going

LEMMA GoingSendChars ==
  ASSUME NEW X, NEW p, Going(X, p), NEW k
  PROVE  Going(SendChars(X, k), p) /\ (Told(X, p) => Told(SendChars(X, k), p))
<1>1. Going([X EXCEPT !.bad = TRUE], p) /\ (Told(X, p) => Told([X EXCEPT !.bad = TRUE], p))
  BY GoingChanges DEF Going, Told
<1>2. Going(Push(X, <<Unit(k)>>), p) /\ (X.fault > 0 => Told(Push(X, <<Unit(k)>>), p))
  BY GoingPush
<1>3. CASE X.st \notin {"handshaking", "closed"}
  <2>1. SendChars(X, k) = Push(X, <<Unit(k)>>)
    BY <1>3 DEF SendChars, Require
  <2>. QED BY <1>2, <1>3, <2>1 DEF Told
<1>4. CASE X.st \in {"handshaking", "closed"}
  <2>1. SendChars(X, k) = [X EXCEPT !.bad = TRUE]
    BY <1>4 DEF SendChars, Require
  <2>. QED BY <1>1, <2>1
<1>. QED BY <1>3, <1>4

LEMMA GoingTcpClose == ASSUME NEW X, NEW p, Going(X, p) PROVE Going(TcpClose(X), p)
<1>1. CASE X.fault < 0
  BY <1>1 DEF TcpClose
<1>2. CASE X.fault > 0
  BY <1>2 DEF TcpClose, Going, Clear
<1>. QED BY <1>1, <1>2 DEF Going

LEMMA GoingPushMessage == ASSUME NEW X, NEW p, Going(X, p), NEW id PROVE Going(PushMessage(X, id), p)
BY GoingTcpClose, GoingChanges DEF PushMessage

LEMMA GoingTerminate ==
  ASSUME NEW X, NEW p, Going(X, p), NEW parsing \in BOOLEAN
  PROVE  Going(Terminate(X, parsing), p)
<1>. DEFINE aborted == IF X.st = "authenticating" THEN SendChars(X, "abort") ELSE X
            ended   == CASE X.st \in {"connected", "auth_connected", "closing_stream"} -> X
                         [] aborted.st = "closed" -> aborted
                         [] OTHER -> SendChars(aborted, "end")
            told    == IF X.st \in {"handshaking", "encryption_requested"} THEN X
                       ELSE IF ended.st # "closed" /\ X.tls THEN Push(ended, <<Unit("bye")>>) ELSE ended
            cleared == IF parsing THEN told ELSE Clear(told)
<1>1. Going(aborted, p)
  BY GoingSendChars
<1>2. Going(ended, p)
  BY <1>1, GoingSendChars
<1>. HIDE DEF aborted, ended
<1>3. Going(told, p)
  BY <1>2, GoingPush
<1>. HIDE DEF told
<1>4. Going(cleared, p)
  BY <1>3, GoingClear
<1>. HIDE DEF cleared
<1>5. Going([cleared EXCEPT !.st = "closing_gnutls"], p) /\ Going([X EXCEPT !.bad = TRUE], p)
  BY <1>4, GoingChanges
<1>. QED BY <1>4, <1>5 DEF Terminate, Require, aborted, ended, told, cleared

LEMMA GoingTerminateError == ASSUME NEW X, NEW p, Going(X, p) PROVE Going(TerminateError(X), p)
<1>1. Going([X EXCEPT !.bad = TRUE], p) /\ Going(SendChars(X, "error"), p)
  BY GoingChanges, GoingSendChars
<1>2. Going(Terminate(SendChars(X, "error"), TRUE), p)
  BY <1>1, GoingTerminate
<1>. QED BY <1>1, <1>2 DEF TerminateError, Require

LEMMA GoingDeinitiate == ASSUME NEW X, NEW p, Going(X, p) PROVE Going(Deinitiate(X), p)
<1>. DEFINE aborted == IF X.st = "authenticating" /\ X.sasl # "none" THEN SendChars(X, "abort") ELSE X
            ended   == SendChars(aborted, "end")
<1>1. Going(aborted, p) /\ Going([X EXCEPT !.bad = TRUE], p)
  BY GoingSendChars, GoingChanges
<1>. HIDE DEF aborted
<1>2. Going(ended, p)
  BY <1>1, GoingSendChars
<1>. HIDE DEF ended
<1>3. Going([ended EXCEPT !.st = "closing_stream"], p)
  BY <1>2, GoingChanges
<1>. QED BY <1>1, <1>3 DEF Deinitiate, Require, aborted, ended

LEMMA GoingInitiate == ASSUME NEW X, NEW p, Going(X, p) PROVE Going(Initiate(X), p)
<1>. DEFINE Y == [X EXCEPT !.nested = FALSE]
            S == SendChars(Y, "stream")
            st == IF X.st = "connected" THEN "initiated" ELSE "auth_initiated"
<1>1. Going(Y, p) /\ Going([X EXCEPT !.bad = TRUE], p) /\ st # "ready"
  BY GoingChanges
<1>. HIDE DEF Y, st
<1>2. Going(S, p)
  BY <1>1, GoingSendChars
<1>. HIDE DEF S
<1>3. Going([S EXCEPT !.st = st], p) /\ Going([S EXCEPT !.bad = TRUE], p)
  BY <1>1, <1>2, GoingChanges
<1>. QED BY <1>1, <1>3 DEF Initiate, Require, Y, S, st

LEMMA GoingTlsInit == ASSUME NEW X, NEW p, Going(X, p) PROVE Going(TlsInit(X), p)
<1>. DEFINE Z == [X EXCEPT !.tls = TRUE]
            Y == [Z EXCEPT !.st = "handshaking"]
<1>1. Going(Z, p) /\ Going([X EXCEPT !.bad = TRUE], p)
  BY GoingChanges
<1>. HIDE DEF Z
<1>2. Going(Y, p)
  BY <1>1, GoingChanges
<1>. HIDE DEF Y
<1>3. Going(Push(Y, <<Unit("hello")>>), p)
  BY <1>2, GoingPush
<1>. QED BY <1>1, <1>2, <1>3 DEF TlsInit, Require, Y, Z

LEMMA GoingTlsHandshake ==
  ASSUME NEW X, NEW p, Going(X, p), NEW k, NEW outcome
  PROVE  Going(TlsHandshake(X, k, outcome), p)
<1>. DEFINE flight == CASE k = "hello" -> "server_hello" [] k = "server_hello" -> "finished"
                        [] k = "finished" -> "done" [] OTHER -> "none"
            Y      == IF flight = "none" THEN X ELSE Push(X, <<Unit(flight)>>)
            done   == [Y EXCEPT !.st = "connected"]
            off    == [X EXCEPT !.tls = FALSE]
            st     == IF X.site = "server" THEN "initiated" ELSE off.st
            failed == [off EXCEPT !.st = st]
<1>1. Going(Y, p)
  BY GoingPush
<1>. HIDE DEF Y
<1>2. Going(done, p)
  BY <1>1, GoingChanges
<1>. HIDE DEF done
<1>3. Going(failed, p)
  <2>1. Going(off, p) /\ off.fault = X.fault
    BY GoingChanges DEF Going
  <2>2. st # "ready" \/ off.fault > 0
    BY <2>1 DEF Going
  <2>. HIDE DEF off, st
  <2>. QED BY <2>1, <2>2, GoingChanges
<1>4. failed = [X EXCEPT !.tls = FALSE, !.st = IF X.site = "server" THEN "initiated" ELSE @]
  BY DEF Going
<1>. HIDE DEF failed
<1>5. Going(Terminate(failed, TRUE), p) /\ Going(Terminate(done, TRUE), p)
  BY <1>2, <1>3, GoingTerminate
<1>6. Going([done EXCEPT !.wait = TRUE], p) /\ Going(Initiate(done), p)
  BY <1>2, GoingChanges, GoingInitiate
<1>. QED BY <1>1, <1>4, <1>5, <1>6 DEF TlsHandshake, Y, done

LEMMA GoingSaslAgain == ASSUME NEW X, NEW p, Going(X, p) PROVE Going(SaslAgain(X), p)
BY DEF SaslAgain, Going

LEMMA GoingSaslFinish == ASSUME NEW X, NEW p, Going(X, p) PROVE Going(SaslFinish(X), p)
BY DEF SaslFinish, Going

LEMMA GoingSaslError ==
  ASSUME NEW X, NEW p, Going(X, p), NEW parsing \in BOOLEAN
  PROVE  Going(SaslError(X, parsing), p)
BY GoingSaslAgain, GoingSendChars, GoingTerminate DEF SaslError

LEMMA GoingSaslRequest == ASSUME NEW X, NEW p, Going(X, p) PROVE Going(SaslRequest(X), p)
<1>1. Going(SaslError(X, TRUE), p) /\ Going([X EXCEPT !.sasl = "busy"], p)
  BY GoingSaslError, GoingChanges
<1>. QED BY <1>1 DEF SaslRequest

\* The end becomes "authenticating", with its SASL context idle.
LEMMA GoingContext ==
  ASSUME NEW X, NEW p, Going(X, p)
  PROVE  Going([X EXCEPT !.st = "authenticating", !.sasl = "idle"], p)
BY DEF Going

LEMMA GoingSaslInit == ASSUME NEW X, NEW p, Going(X, p) PROVE Going(SaslInit(X), p)
<1>. DEFINE S == SendChars(X, "auth")
            A == [S EXCEPT !.st = "authenticating", !.sasl = "idle"]
            B == [X EXCEPT !.st = "authenticating", !.sasl = "idle"]
<1>1. Going(S, p) /\ Going([X EXCEPT !.bad = TRUE], p) /\ Going(B, p)
  BY GoingSendChars, GoingChanges, GoingContext
<1>. HIDE DEF S, B
<1>2. Going(A, p) /\ Going([S EXCEPT !.bad = TRUE], p) /\ Going(SaslRequest(B), p)
  BY <1>1, GoingChanges, GoingContext, GoingSaslRequest
<1>. QED BY <1>1, <1>2 DEF SaslInit, Require, S, B

LEMMA GoingSaslResult ==
  ASSUME NEW X, NEW p, Going(X, p), NEW outcome
  PROVE  Going(SaslResult(X, outcome), p)
<1>. DEFINE Y == [X EXCEPT !.sasl = "idle"]
<1>1. Going(Y, p) /\ Going(SaslError(X, FALSE), p)
  BY GoingChanges, GoingSaslError
<1>. HIDE DEF Y
<1>2. \A k : Going(SendChars(Y, k), p)
  BY <1>1, GoingSendChars
<1>3. Going(Initiate(SaslFinish(SendChars(X, "success"))), p)
  BY GoingSendChars, GoingSaslFinish, GoingInitiate
<1>. QED BY <1>1, <1>2, <1>3 DEF SaslResult, Y

LEMMA GoingConnected ==
  ASSUME NEW X, NEW p, Before(X, p)
  PROVE  Going(ProcessConnected(X), p)
<1>. DEFINE again == X.st = "auth_connected"
            offer == IF X.tls \/ again \/ X.policy = "only_unsecured" THEN "features"
                     ELSE IF X.policy = "only_tls" THEN "features_required" ELSE "features_tls"
            S     == SendChars(X, "stream")
            I     == [S EXCEPT !.st = "initiated"]
            Y     == SendChars(I, offer)
            to    == IF again THEN "ready" ELSE "initiated"
            Z     == [Y EXCEPT !.st = to]
<1>1. Told(S, p) /\ Going(S, p) /\ Going([X EXCEPT !.bad = TRUE], p)
  BY BeforeTold, GoingSendChars, GoingChanges
<1>. HIDE DEF S, offer, to
<1>2. Going([S EXCEPT !.bad = TRUE], p)
  BY <1>1, GoingChanges
<1>3. ASSUME S.st # "closed" PROVE Going(Y, p) /\ (Y.st # "closed" => Going(Z, p))
  <2>1. Before(I, p)
    BY <1>1, <1>3 DEF Told, Before, Going
  <2>. HIDE DEF I
  <2>2. Told(Y, p)
    BY <2>1, BeforeTold, GoingSendChars
  <2>. HIDE DEF Y
  <2>. QED BY <2>2, GoingChanges DEF Told
<1>. QED BY <1>1, <1>2, <1>3 DEF ProcessConnected, Require, S, offer, to

LEMMA GoingInitiated ==
  ASSUME NEW X, NEW p, Going(X, p), NEW k
  PROVE  Going(ProcessInitiated(X, k), p)
<1>1. Going(TlsInit(SendChars(X, "proceed")), p) /\ Going(TerminateError(X), p) /\ Going(SaslInit(X), p)
  BY GoingSendChars, GoingTlsInit, GoingTerminateError, GoingSaslInit
<1>. QED BY <1>1 DEF ProcessInitiated

LEMMA GoingFeatures ==
  ASSUME NEW X, NEW p, Before(X, p), NEW k
  PROVE  Going(ProcessFeatures(X, k), p)
<1>1. Going(X, p) /\ Going(Deinitiate(X), p) /\ Going(SaslInit(X), p) /\ Going([X EXCEPT !.st = "ready"], p)
  BY GoingDeinitiate, GoingSaslInit, GoingChanges DEF Before
<1>2. Going([SendChars(X, "starttls") EXCEPT !.st = "encryption_requested"], p)
  BY <1>1, GoingSendChars, GoingChanges
<1>. QED BY <1>1, <1>2 DEF ProcessFeatures

LEMMA GoingEncryption ==
  ASSUME NEW X, NEW p, Going(X, p), NEW k
  PROVE  Going(ProcessEncryption(X, k), p)
<1>1. Going(TlsInit(X), p) /\ Going([X EXCEPT !.st = "closing_stream"], p)
  BY GoingTlsInit, GoingChanges
<1>. QED BY <1>1 DEF ProcessEncryption

LEMMA GoingAuthentication ==
  ASSUME NEW X, NEW p, Going(X, p), NEW k, NEW retry
  PROVE  Going(ProcessAuthentication(X, k, retry), p)
<1>1. Going(SaslAgain(X), p) /\ Going(SaslRequest(X), p) /\ Going(SaslFinish(X), p)
  BY GoingSaslAgain, GoingSaslRequest, GoingSaslFinish
<1>2. /\ Going(SaslInit(SaslAgain(X)), p) /\ Going(Deinitiate(SaslAgain(X)), p)
      /\ Going(SendChars(SaslAgain(X), "failure"), p)
  BY <1>1, GoingSaslInit, GoingDeinitiate, GoingSendChars
<1>. QED BY <1>1, <1>2 DEF ProcessAuthentication

LEMMA GoingProcess ==
  ASSUME NEW X, NEW p, Before(X, p), NEW e, NEW retry
  PROVE  Going(ProcessElement(X, e, retry), p)
<1>1. Going(X, p)
  BY DEF Before
<1>2. Going([X EXCEPT !.bad = TRUE], p) /\ Going([X EXCEPT !.got = Append(X.got, e.id)], p)
  BY <1>1, GoingChanges
<1>3. /\ Going(ProcessInitiated(X, e.k), p) /\ Going(ProcessFeatures(X, e.k), p)
      /\ Going(ProcessEncryption(X, e.k), p) /\ Going(ProcessAuthentication(X, e.k, retry), p)
  BY <1>1, GoingInitiated, GoingFeatures, GoingEncryption, GoingAuthentication
<1>. QED BY <1>1, <1>2, <1>3 DEF ProcessElement

LEMMA GoingElement ==
  ASSUME NEW X, NEW p, Before(X, p), NEW e, NEW retry
  PROVE  Going(Element(X, e, retry), p)
<1>1. Going(X, p)
  BY DEF Before
<1>2. /\ Going([X EXCEPT !.bad = TRUE], p)
      /\ Going([X EXCEPT !.nested = TRUE], p) /\ Going([X EXCEPT !.nested = FALSE], p)
      /\ Going([X EXCEPT !.st = "awaiting_features"], p)
      /\ Going([X EXCEPT !.st = "auth_awaiting_features"], p)
  BY <1>1, GoingChanges
<1>3. Going(Terminate(X, TRUE), p) /\ Going(ProcessConnected(X), p) /\ Going(ProcessElement(X, e, retry), p)
  BY <1>1, GoingTerminate, GoingConnected, GoingProcess
<1>. QED BY <1>1, <1>2, <1>3 DEF Element, Require

LEMMA GoingReceive ==
  ASSUME NEW X, NEW p, Before(X, p), NEW e, NEW outcome
  PROVE  Going(Receive(X, e, outcome), p)
<1>. DEFINE Y == CASE X.st = "handshaking" -> TlsHandshake(X, e.k, outcome)
                   [] X.st # "handshaking" /\ e.k = "bye" -> TcpClose(X)
                   [] OTHER -> Element(X, e, outcome = "retry")
<1>1. Going(X, p)
  BY DEF Before
<1>2. /\ Going(TlsHandshake(X, e.k, outcome), p) /\ Going(TcpClose(X), p)
      /\ Going(Element(X, e, outcome = "retry"), p)
  BY <1>1, GoingTlsHandshake, GoingTcpClose, GoingElement
<1>3. Going(Y, p)
  BY <1>2
<1>. HIDE DEF Y
<1>4. Going(Clear(Y), p) /\ Going(Initiate(Y), p)
  BY <1>3, GoingClear, GoingInitiate
<1>5. Going(PushMessage(Clear(Y), 0), p)
  BY <1>4, GoingPushMessage
<1>6. Going(Finish(Y), p)
  BY <1>3, <1>4, <1>5 DEF Finish
<1>7. Going(TcpClose(X), p)
  BY <1>2
<1>. QED BY <1>1, <1>6, <1>7 DEF Receive, Y

LEMMA GoingJoins == ASSUME NEW X, NEW p, Before(X, p) PROVE Going(Connected(X), p)
<1>1. Going([X EXCEPT !.tcp = "connected", !.st = "connected"], p)
  BY DEF Before, Going
<1>. QED BY <1>1, GoingInitiate DEF Connected

LEMMA GoingSend == ASSUME NEW X, NEW p, Going(X, p), NEW id PROVE Going(Send(X, id), p)
<1>. DEFINE Y == Push(X, Payload(id))
<1>1. Going(Y, p)
  BY GoingPush
<1>. HIDE DEF Y
<1>2. Going(PushMessage(Y, id), p)
  BY <1>1, GoingPushMessage
<1>. QED BY <1>1, <1>2 DEF Send, Y

LEMMA GoingClose == ASSUME NEW X, NEW p, Going(X, p) PROVE Going(Close(X), p)
<1>1. Going([TcpClose(X) EXCEPT !.tls = FALSE], p)
  BY GoingTcpClose, GoingChanges
<1>2. Going(Terminate(X, FALSE), p) /\ Going(Deinitiate(X), p)
  BY GoingTerminate, GoingDeinitiate
<1>. QED BY <1>1, <1>2 DEF Close

LEMMA GoingVerify ==
  ASSUME NEW X, NEW p, Going(X, p)
  PROVE  Going(VerifyContinue(X), p) /\ Going(VerifyCancel(X), p)
<1>1. Going([X EXCEPT !.wait = FALSE], p)
  BY GoingChanges
<1>. QED BY <1>1, GoingInitiate, GoingTerminate DEF VerifyContinue, VerifyCancel

LEMMA GoingReset == ASSUME NEW X, NEW p, Going(X, p) PROVE Going(ResetSasl(X), p)
<1>. DEFINE Y == IF X.site = "client" THEN SendChars(X, "abort") ELSE X
<1>1. Going(Y, p)
  BY GoingSendChars
<1>. HIDE DEF Y
<1>2. Going([Y EXCEPT !.sasl = "none"], p)
  BY <1>1, GoingChanges
<1>. QED BY <1>2 DEF ResetSasl, Y

(***************************************************************************)
(* The theorems                                                            *)
(***************************************************************************)
LEMMA StartFacts ==
  ASSUME NEW site \in Sites, NEW policy \in Policies, NEW suits \in BOOLEAN, NEW verifies \in BOOLEAN,
         site = "server" => ~verifies
  PROVE  LET X == Start(site, policy, suits, verifies)
         IN  /\ X \in Ends /\ X.site = site /\ X.policy = policy /\ ~X.tls /\ X.sasl = "none" /\ X.out = <<>>
             /\ X.st = (IF site = "client" THEN "connecting" ELSE "connected")
             /\ EndOK(X) /\ \A send \in Nat : QueueOK(X, send)
<1>. DEFINE X == Start(site, policy, suits, verifies)
<1>1. /\ X.site = site /\ X.policy = policy /\ X.suits = suits /\ X.verifies = verifies
      /\ X.st = (IF site = "client" THEN "connecting" ELSE "connected") /\ X.tls = FALSE /\ X.sasl = "none"
      /\ X.wait = FALSE /\ X.nested = FALSE /\ X.bad = FALSE
      /\ X.tcp = (IF site = "client" THEN "connecting" ELSE "connected")
      /\ X.out = <<>> /\ X.pos = 0 /\ X.msgs = <<>> /\ X.told = {} /\ X.got = <<>>
      /\ X.fault = 0 /\ X.parsing = FALSE
  BY DEF Start
<1>2. X \in Ends
  BY DEF Start, Ends, Sites, ClientStates, ServerStates
<1>. HIDE DEF X
<1>3. EndOK(X)
  BY <1>1 DEF EndOK, IsOpen, Over, Closing, ClientStates, ServerStates, Sites
<1>4. ASSUME NEW send \in Nat PROVE QueueOK(X, send)
  BY <1>1 DEF QueueOK
<1>. QED BY <1>1, <1>2, <1>3, <1>4 DEF X

LEMMA InitInv ==
  ASSUME Init
  PROVE  InvOf(conn, link, left)
<1>1. PICK p \in Setups :
        conn = [s \in Sites |-> IF s = "client" THEN Start(s, p.client, p.suits, p.verifies)
                                                ELSE Start(s, p.server, TRUE, FALSE)]
  BY DEF Init
<1>2. p.client \in Policies /\ p.server \in Policies /\ p.suits \in BOOLEAN /\ p.verifies \in BOOLEAN
  BY <1>1, SetupsAssumption
<1>. DEFINE C == Start("client", p.client, p.suits, p.verifies)
            S == Start("server", p.server, TRUE, FALSE)
<1>3. "client" \in Sites /\ "server" \in Sites /\ \A s \in Sites : s = "client" \/ s = "server"
  BY DEF Sites
<1>4. /\ C \in Ends /\ C.site = "client" /\ C.policy = p.client /\ ~C.tls /\ C.sasl = "none" /\ C.out = <<>>
      /\ C.st = "connecting" /\ EndOK(C) /\ \A send \in Nat : QueueOK(C, send)
  BY <1>2, <1>3, StartFacts
<1>5. /\ S \in Ends /\ S.site = "server" /\ S.policy = p.server /\ ~S.tls /\ S.sasl = "none" /\ S.out = <<>>
      /\ S.st = "connected" /\ EndOK(S) /\ \A send \in Nat : QueueOK(S, send)
  <2>. DEFINE yes == TRUE
              no == FALSE
  <2>1. yes \in BOOLEAN /\ no \in BOOLEAN /\ ~no /\ S = Start("server", p.server, yes, no)
    OBVIOUS
  <2>. HIDE DEF yes, no, S
  <2>. QED BY <1>2, <1>3, <2>1, StartFacts
<1>6. conn["client"] = C /\ conn["server"] = S
  BY <1>1, <1>3
<1>7. conn \in [Sites -> Ends]
  BY <1>1, <1>3, <1>4, <1>5
<1>8. link \in [Sites -> Seq(Units)] /\ link["client"] = <<>> /\ link["server"] = <<>>
  BY <1>3 DEF Init
<1>9. left \in [Operations -> Nat]
  BY BudgetsAssumption DEF Init
<1>10. left["send"] \in Nat
  BY <1>9 DEF Operations
<1>. HIDE DEF C, S
<1>. DEFINE e == <<>>
<1>11. e \in Seq(Units) /\ Len(e) = 0 /\ e \o e = e
  OBVIOUS
<1>12. link["server"] \o S.out = e /\ link["client"] \o C.out = e
  BY <1>4, <1>5, <1>8
<1>. HIDE DEF e
<1>13. Sides(C, S, e, e)
  <2>1. IsOpen(C) /\ IsOpen(S)
    BY <1>4, <1>5 DEF IsOpen, Over, Closing
  <2>2. InPhase(C, S, e, e)
    BY <1>4, <1>5, <1>11 DEF InPhase, Opening1, Empty
  <2>3. JointOf(C, S, e, e)
    BY <2>1, <2>2 DEF JointOf
  <2>4. \A k : ~Has(e, k)
    BY <1>11 DEF Has
  <2>5. \A ks : NoneFrom(e, 1, ks)
    BY <1>11 DEF NoneFrom
  <2>6. PolicyOf(C, S, e, e)
    BY <1>4, <1>5, <2>4, <2>5 DEF PolicyOf, ClientPast, ServerPast
  <2>. QED BY <1>4, <1>5, <1>11, <2>3, <2>6 DEF Sides
<1>. QED BY <1>4, <1>5, <1>6, <1>7, <1>8, <1>9, <1>10, <1>12, <1>13 DEF InvOf

\* An end is what its ghost is, or it has failed, and its ghost is closed.
Mirrors(G, X) ==
  \/ X.fault = 0 /\ X = G
  \/ X.fault < 0 /\ Going(X, G.policy) /\ G.st = "closed" /\ G.tcp = "closed"

\* The ends would be in step if the failed ones had just been closed.
GhostOf(c) == c \in [Sites -> Ends] /\ (\A s \in Sites : Mirrors(c[s], conn[s])) /\ InvOf(c, link, left)
IInv == conn = [s \in Sites |-> conn[s]] /\ \E c : GhostOf(c)

LEMMA InitGhost ==
  ASSUME Init
  PROVE  IInv
<1>1. InvOf(conn, link, left)
  BY InitInv
<1>2. conn \in [Sites -> Ends]
  BY <1>1, InvFacts
<1>3. \A s \in Sites : conn[s].fault = 0
  BY <1>2, EndFields
<1>4. GhostOf(conn)
  BY <1>1, <1>2, <1>3 DEF GhostOf, Mirrors
<1>. QED BY <1>2, <1>4 DEF IInv

\* An end at the begin of a handler.
LEMMA Attempt ==
  ASSUME NEW X \in Ends, NEW parsing, NEW Y \in Attempts(X, parsing)
  PROVE  \/ Y = X
         \/ Before(Y, X.policy) /\ X.tcp # "closed" /\ Y.st = X.st
<1>1. CASE Y = X
  BY <1>1
<1>2. CASE Y # X
  <2>1. PICK n \in 1..3 : Y = [X EXCEPT !.fault = n, !.parsing = parsing] /\ X.tcp # "closed"
    BY <1>2 DEF Attempts
  <2>2. {"fault", "tcp", "st", "policy"} \subseteq DOMAIN X
    BY DEF Ends
  <2>. QED BY <2>1, <2>2 DEF Before, Going
<1>. QED BY <1>1, <1>2

\* End s and its ghost take a step each.
LEMMA GhostTurns ==
  ASSUME NEW c, GhostOf(c), conn = [t \in Sites |-> conn[t]], NEW s \in Sites, NEW G, NEW Y,
         conn' = [conn EXCEPT ![s] = Y], Mirrors(G, Y), InvOf([c EXCEPT ![s] = G], link', left')
  PROVE  IInv'
<1>. DEFINE c2 == [c EXCEPT ![s] = G]
<1>1. c \in [Sites -> Ends] /\ (\A t \in Sites : Mirrors(c[t], conn[t])) /\ InvOf(c2, link', left')
  BY DEF GhostOf
<1>2. c2 \in [Sites -> Ends]
  BY <1>1, InvFacts
<1>3. conn' = [t \in Sites |-> conn'[t]]
  OBVIOUS
<1>4. c2[s] = G /\ conn'[s] = Y /\ \A t \in Sites : t # s => c2[t] = c[t] /\ conn'[t] = conn[t]
  BY <1>1
<1>. HIDE DEF c2
<1>5. ASSUME NEW t \in Sites PROVE Mirrors(c2[t], conn'[t])
  BY <1>1, <1>4
<1>6. (GhostOf(c2))'
  BY <1>1, <1>2, <1>5 DEF GhostOf, Mirrors
<1>. QED BY <1>3, <1>6 DEF IInv

LEMMA CloseFacts ==
  ASSUME NEW X \in Ends
  PROVE  TcpClose(X).tcp = "closed" /\ TcpClose(X).st = "closed" /\ TcpClose(X).policy = X.policy
BY EndFields DEF TcpClose, Clear, Ends

\* What is known of an end that has not failed, and of one that has.
LEMMA GhostFacts ==
  ASSUME NEW c, GhostOf(c), NEW s \in Sites
  PROVE  /\ c \in [Sites -> Ends] /\ c[s] \in Ends /\ c[s].fault = 0 /\ InvOf(c, link, left)
         /\ \/ conn[s].fault = 0 /\ conn[s] = c[s]
            \/ /\ conn[s].fault < 0 /\ Going(conn[s], c[s].policy) /\ conn[s].policy = c[s].policy
               /\ conn[s].tcp = "closed" /\ conn[s].st # "ready" /\ c[s].tcp = "closed" /\ c[s].st = "closed"
         /\ link \in [Sites -> Seq(Units)] /\ left \in [Operations -> Nat]
<1>1. c \in [Sites -> Ends] /\ Mirrors(c[s], conn[s]) /\ InvOf(c, link, left)
  BY DEF GhostOf
<1>2. c[s] \in Ends /\ link \in [Sites -> Seq(Units)] /\ left \in [Operations -> Nat]
  BY <1>1, InvFacts
<1>. QED BY <1>1, <1>2, EndFields DEF Mirrors, Going

\* An end takes a step of its own, or its connection is lost.
LEMMA LivingStep ==
  ASSUME NEW c, GhostOf(c), conn = [t \in Sites |-> conn[t]], NEW s \in Sites, conn[s].fault = 0,
         NEW Y, Becomes(s, Y), Cheaper(left, left'),
         \/ Alone(s, conn[s], Y)
         \/ Y.fault < 0 /\ Going(Y, conn[s].policy) /\ conn[s].tcp # "closed"
  PROVE  IInv'
<1>. DEFINE X == conn[s]
<1>1. /\ c \in [Sites -> Ends] /\ X \in Ends /\ X = c[s] /\ InvOf(c, link, left)
      /\ link \in [Sites -> Seq(Units)] /\ s \in {"client", "server"}
  BY GhostFacts DEF Sites
<1>2. /\ conn' = [conn EXCEPT ![s] = Y]
      /\ link' = [link EXCEPT ![s] = IF Y.tcp = "closed" /\ X.tcp # "closed"
                                     THEN Append(link[s], Unit("fin")) ELSE link[s]]
  BY DEF Becomes
<1>3. ASSUME NEW G, Alone(s, X, G), Y.tcp = "closed" <=> G.tcp = "closed"
      PROVE  InvOf([c EXCEPT ![s] = G], link', left')
  <2>. DEFINE c2 == [c EXCEPT ![s] = G]
  <2>1. Turned(s, G, c, link, c2, link')
    BY <1>1, <1>2, <1>3 DEF Turned
  <2>. HIDE DEF c2
  <2>4. Alone(s, c[s], G)
    BY <1>1, <1>3
  <2>2. ASSUME s = "client" PROVE InvOf(c2, link', left')
    BY <1>1, <2>1, <2>2, <2>4, ClientAlone
  <2>3. ASSUME s = "server" PROVE InvOf(c2, link', left')
    BY <1>1, <2>1, <2>3, <2>4, ServerAlone
  <2>. QED BY <1>1, <2>2, <2>3 DEF c2
<1>4. CASE Alone(s, X, Y)
  <2>1. InvOf([c EXCEPT ![s] = Y], link', left')
    BY <1>3, <1>4
  <2>2. Y.fault = 0
    <3>. DEFINE c2 == [c EXCEPT ![s] = Y]
    <3>1. c2[s] = Y
      BY <1>1
    <3>. HIDE DEF c2
    <3>2. c2[s] \in Ends
      BY <1>1, <2>1, InvFacts DEF c2
    <3>. QED BY <3>1, <3>2, EndFields
  <2>3. Mirrors(Y, Y)
    BY <2>2 DEF Mirrors
  <2>. QED BY <1>2, <2>1, <2>3, GhostTurns
<1>5. CASE Y.fault < 0 /\ Going(Y, X.policy) /\ X.tcp # "closed"
  <2>. DEFINE G == TcpClose(X)
  <2>1. G.tcp = "closed" /\ G.st = "closed" /\ G.policy = X.policy
    BY <1>1, CloseFacts
  <2>2. Alone(s, X, G)
    BY <1>5 DEF Alone
  <2>. HIDE DEF G
  <2>3. Y.tcp = "closed"
    BY <1>5 DEF Going
  <2>4. InvOf([c EXCEPT ![s] = G], link', left')
    BY <1>3, <2>1, <2>2, <2>3
  <2>5. Mirrors(G, Y)
    BY <1>5, <2>1 DEF Mirrors
  <2>. QED BY <1>2, <2>4, <2>5, GhostTurns
<1>. QED BY <1>4, <1>5

\* An end that has failed goes on, and its ghost stays closed.
LEMMA FailedStep ==
  ASSUME NEW c, GhostOf(c), conn = [t \in Sites |-> conn[t]], NEW s \in Sites, conn[s].fault < 0,
         NEW Y, Becomes(s, Y), Cheaper(left, left'), Going(Y, conn[s].policy)
  PROVE  IInv'
<1>. DEFINE G == c[s]
<1>1. /\ c \in [Sites -> Ends] /\ InvOf(c, link, left) /\ link \in [Sites -> Seq(Units)]
      /\ conn[s].tcp = "closed" /\ G.tcp = "closed" /\ G.st = "closed" /\ conn[s].policy = G.policy
      /\ left \in [Operations -> Nat]
  BY GhostFacts
<1>2. conn' = [conn EXCEPT ![s] = Y] /\ link' = link /\ Y.fault <= 0
  BY <1>1 DEF Becomes
<1>3. [c EXCEPT ![s] = G] = c
  BY <1>1
<1>4. Mirrors(G, Y)
  BY <1>1, <1>2 DEF Mirrors, Going
<1>. HIDE DEF G
<1>5. InvOf(c, link', left')
  <2>1. "send" \in Operations /\ "client" \in Sites /\ "server" \in Sites
    BY DEF Operations, Sites
  <2>2. left["send"] \in Nat /\ left'["send"] \in Nat /\ left'["send"] <= left["send"]
    BY <1>1, <2>1 DEF Cheaper
  <2>3. /\ QueueOK(c["client"], left["send"]) /\ QueueOK(c["server"], left["send"])
        /\ c["client"] \in Ends /\ c["server"] \in Ends
    BY <1>1, <2>1, InvFacts
  <2>4. QueueOK(c["client"], left'["send"]) /\ QueueOK(c["server"], left'["send"])
    BY <2>2, <2>3, QueueLess
  <2>. QED BY <1>1, <1>2, <2>4 DEF InvOf, Cheaper
<1>. QED BY <1>2, <1>3, <1>4, <1>5, GhostTurns

\* A handler of a timer, a callback or the application, from its begin on.
LEMMA HandlerStep ==
  ASSUME IInv, NEW s \in Sites, NEW A \in Attempts(conn[s], FALSE), NEW Y, Becomes(s, Y),
         Cheaper(left, left'), A = conn[s] => Alone(s, A, Y), \A p : Going(A, p) => Going(Y, p)
  PROVE  IInv'
<1>1. PICK c : GhostOf(c)
  BY DEF IInv
<1>2. conn = [t \in Sites |-> conn[t]]
  BY DEF IInv
<1>3. CASE conn[s].fault = 0
  <2>1. conn[s] \in Ends
    BY <1>1, <1>3, GhostFacts
  <2>2. CASE A = conn[s]
    BY <1>1, <1>2, <1>3, <2>2, LivingStep
  <2>3. CASE Before(A, conn[s].policy) /\ conn[s].tcp # "closed"
    <3>1. Going(Y, conn[s].policy)
      BY <2>3 DEF Before
    <3>2. Y.fault < 0
      BY <3>1 DEF Becomes, Going
    <3>. QED BY <1>1, <1>2, <1>3, <2>3, <3>1, <3>2, LivingStep
  <2>. QED BY <2>1, <2>2, <2>3, Attempt
<1>4. CASE conn[s].fault < 0
  <2>1. conn[s].tcp = "closed" /\ Going(conn[s], conn[s].policy)
    BY <1>1, <1>4, GhostFacts
  <2>2. A = conn[s]
    BY <2>1 DEF Attempts
  <2>3. Going(Y, conn[s].policy)
    BY <2>1, <2>2
  <2>. QED BY <1>1, <1>2, <1>4, <2>3, FailedStep
<1>. QED BY <1>1, <1>3, <1>4, GhostFacts

LEMMA ConnectStep ==
  ASSUME IInv, TcpConnected
  PROVE  IInv'
<1>. DEFINE X == conn["client"]
<1>1. PICK c : GhostOf(c)
  BY DEF IInv
<1>2. conn = [t \in Sites |-> conn[t]] /\ "client" \in Sites /\ X.tcp = "connecting" /\ left' = left
  BY DEF IInv, TcpConnected, Sites
<1>3. PICK A \in Attempts(X, FALSE) : Becomes("client", Connected(A))
  BY DEF TcpConnected
<1>4. /\ c \in [Sites -> Ends] /\ X = c["client"] /\ X.fault = 0 /\ X \in Ends /\ InvOf(c, link, left)
      /\ link \in [Sites -> Seq(Units)] /\ left \in [Operations -> Nat]
  BY <1>1, <1>2, GhostFacts
<1>. DEFINE Y == Connected(A)
<1>5. CASE A = X
  <2>. DEFINE c2 == [c EXCEPT !["client"] = Y]
  <2>1. Y = Connected(c["client"]) /\ conn' = [conn EXCEPT !["client"] = Y]
    BY <1>3, <1>4, <1>5 DEF Becomes
  <2>2. Turned("client", Y, c, link, c2, link')
    BY <1>3, <1>4 DEF Turned, Becomes
  <2>3. c2["client"] = Y
    BY <1>2, <1>4
  <2>. HIDE DEF c2, Y
  <2>4. InvOf(c2, link', left')
    BY <1>2, <1>4, <2>1, <2>2, Connects
  <2>5. Y.fault = 0
    BY <2>3, <2>4, InvFacts, EndFields
  <2>6. Mirrors(Y, Y)
    BY <2>5 DEF Mirrors
  <2>. QED BY <1>1, <1>2, <2>1, <2>4, <2>6, GhostTurns DEF c2
<1>6. CASE Before(A, X.policy) /\ X.tcp # "closed"
  <2>1. Going(Y, X.policy)
    BY <1>6, GoingJoins
  <2>. HIDE DEF Y
  <2>2. Becomes("client", Y) /\ Y.fault < 0
    BY <1>3, <2>1 DEF Becomes, Going, Y
  <2>3. Cheaper(left, left')
    BY <1>2, <1>4, Spending
  <2>. QED BY <1>1, <1>2, <1>4, <1>6, <2>1, <2>2, <2>3, LivingStep
<1>. QED BY <1>3, <1>4, <1>5, <1>6, Attempt

LEMMA SendStep ==
  ASSUME IInv, NEW s \in Sites, AppSend(s)
  PROVE  IInv'
<1>. DEFINE X == conn[s]
            id == left["send"]
<1>1. PICK c : GhostOf(c)
  BY DEF IInv
<1>2. conn = [t \in Sites |-> conn[t]] /\ X.st = "ready" /\ Spend("send")
  BY DEF IInv, AppSend
<1>3. PICK A \in Attempts(X, FALSE) : Becomes(s, Send(A, id))
  BY DEF AppSend
<1>4. /\ c \in [Sites -> Ends] /\ X = c[s] /\ X.fault = 0 /\ X \in Ends /\ InvOf(c, link, left)
      /\ link \in [Sites -> Seq(Units)] /\ left \in [Operations -> Nat]
  BY <1>1, <1>2, GhostFacts
<1>. DEFINE Y == Send(A, id)
<1>5. CASE A = X
  <2>. DEFINE c2 == [c EXCEPT ![s] = Y]
  <2>1. Y = Send(c[s], left["send"]) /\ conn' = [conn EXCEPT ![s] = Y]
    BY <1>3, <1>4, <1>5 DEF Becomes
  <2>2. Turned(s, Y, c, link, c2, link')
    BY <1>3, <1>4 DEF Turned, Becomes
  <2>3. c2[s] = Y
    BY <1>2, <1>4
  <2>. HIDE DEF c2, Y
  <2>4. SendsOne(s, c, link, left, c2, link', left')
    BY <1>2, <1>4, <2>1, <2>2 DEF SendsOne, Spend
  <2>5. InvOf(c2, link', left')
    BY <1>4, <2>4, Sending
  <2>6. c2[s] \in Ends
    BY <2>5, InvFacts
  <2>7. Mirrors(Y, Y)
    BY <2>3, <2>6, EndFields DEF Mirrors
  <2>. QED BY <1>1, <1>2, <2>1, <2>5, <2>7, GhostTurns DEF c2
<1>6. CASE Before(A, X.policy) /\ X.tcp # "closed"
  <2>1. Going(Y, X.policy)
    BY <1>6, GoingSend DEF Before
  <2>. HIDE DEF Y
  <2>2. Becomes(s, Y) /\ Y.fault < 0
    BY <1>3, <2>1 DEF Becomes, Going, Y
  <2>3. Cheaper(left, left')
    BY <1>2, <1>4, Spending DEF Operations
  <2>. QED BY <1>1, <1>2, <1>4, <1>6, <2>1, <2>2, <2>3, LivingStep
<1>. QED BY <1>3, <1>4, <1>5, <1>6, Attempt

LEMMA WriteStep ==
  ASSUME IInv, NEW s \in Sites, Write(s)
  PROVE  IInv'
<1>. DEFINE X == conn[s]
<1>1. PICK c : GhostOf(c)
  BY DEF IInv
<1>2. conn = [t \in Sites |-> conn[t]] /\ X.tcp = "connected" /\ left' = left
  BY DEF IInv, Write
<1>3. PICK n \in 1..Len(X.out) :
        /\ conn' = [conn EXCEPT ![s] = Written(X, n)]
        /\ link' = [link EXCEPT ![s] = link[s] \o SubSeq(X.out, 1, n) \o
                      (IF Written(X, n).tcp = "closed" THEN <<Unit("fin")>> ELSE <<>>)]
  BY DEF Write
<1>4. /\ c \in [Sites -> Ends] /\ X = c[s] /\ X.fault = 0 /\ X \in Ends /\ InvOf(c, link, left)
      /\ link \in [Sites -> Seq(Units)] /\ left \in [Operations -> Nat]
  BY <1>1, <1>2, GhostFacts
<1>. DEFINE Y == Written(X, n)
            c2 == [c EXCEPT ![s] = Y]
<1>5. c2[s] = Y /\ conn' = [conn EXCEPT ![s] = Y]
  BY <1>3, <1>4
<1>6. WritesSome(s, c, link, c2, link')
  BY <1>2, <1>3, <1>4 DEF WritesSome, Flushed
<1>. HIDE DEF c2, Y
<1>7. InvOf(c2, link', left')
  BY <1>2, <1>4, <1>6, Writing
<1>8. c2[s] \in Ends
  BY <1>7, InvFacts
<1>9. Mirrors(Y, Y)
  BY <1>5, <1>8, EndFields DEF Mirrors
<1>. QED BY <1>1, <1>2, <1>5, <1>7, <1>9, GhostTurns DEF c2

LEMMA ReadStep ==
  ASSUME IInv, NEW s \in Sites, Read(s)
  PROVE  IInv'
<1>. DEFINE X == conn[s]
            l == link[Other(s)]
            e == Head(l)
<1>1. PICK c : GhostOf(c)
  BY DEF IInv
<1>2. conn = [t \in Sites |-> conn[t]] /\ X.tcp = "connected" /\ l # <<>>
  BY DEF IInv, Read
<1>4. /\ c \in [Sites -> Ends] /\ X = c[s] /\ X.fault = 0 /\ X \in Ends /\ InvOf(c, link, left)
      /\ link \in [Sites -> Seq(Units)] /\ left \in [Operations -> Nat]
  BY <1>1, <1>2, GhostFacts
<1>3. PICK outcome \in {"ok", "fail", "untrusted", "retry"}, A \in Attempts(X, TRUE) :
        /\ IF outcome = "ok" THEN UNCHANGED left ELSE Spend(outcome)
        /\ Receive(A, e, outcome).fault <= 0
        /\ conn' = [conn EXCEPT ![s] = Receive(A, e, outcome)]
        /\ link' = [link EXCEPT ![Other(s)] = Tail(l),
                      ![s] = IF Receive(A, e, outcome).tcp = "closed"
                             THEN Append(link[s], Unit("fin")) ELSE link[s]]
  BY DEF Read, Other, Sites
<1>5. Cheaper(left, left')
  BY <1>3, <1>4, Spending DEF Operations
<1>. DEFINE Y == Receive(A, e, outcome)
<1>6. ASSUME NEW G, G.tcp = "closed" <=> Y.tcp = "closed",
             G = TcpClose(c[s]) \/ \E o : G = Receive(c[s], e, o)
      PROVE  InvOf([c EXCEPT ![s] = G], link', left')
  <2>. DEFINE c2 == [c EXCEPT ![s] = G]
              m == IF G.tcp = "closed" THEN Append(link[s], Unit("fin")) ELSE link[s]
  <2>1. link' = [link EXCEPT ![Other(s)] = Tail(l), ![s] = m]
    BY <1>3, <1>6
  <2>2. Reads(s, G, e, m, c, link, left, c2, link', left')
    BY <1>2, <1>4, <1>5, <1>6, <2>1 DEF Reads
  <2>. HIDE DEF c2, m, e, l
  <2>3. ASSUME s = "client" PROVE InvOf(c2, link', left')
    BY <1>4, <2>2, <2>3, ClientReceives
  <2>4. ASSUME s = "server" PROVE InvOf(c2, link', left')
    BY <1>4, <2>2, <2>4, ServerReceives
  <2>. QED BY <2>3, <2>4 DEF Sites, c2
<1>7. CASE A = X
  <2>. DEFINE c2 == [c EXCEPT ![s] = Y]
  <2>1. Y = Receive(c[s], e, outcome) /\ conn' = [conn EXCEPT ![s] = Y] /\ c2[s] = Y
    BY <1>3, <1>4, <1>7
  <2>. HIDE DEF Y
  <2>2. InvOf(c2, link', left')
    BY <1>6, <2>1
  <2>. HIDE DEF c2
  <2>3. c2[s] \in Ends
    BY <2>2, InvFacts
  <2>4. Mirrors(Y, Y)
    BY <2>1, <2>3, EndFields DEF Mirrors
  <2>. QED BY <1>1, <1>2, <2>1, <2>2, <2>4, GhostTurns DEF c2
<1>8. CASE Before(A, X.policy) /\ X.tcp # "closed"
  <2>. DEFINE G == TcpClose(X)
  <2>1. Going(Y, X.policy) /\ Y.fault <= 0
    BY <1>3, <1>8, GoingReceive
  <2>2. conn' = [conn EXCEPT ![s] = Y]
    BY <1>3
  <2>3. G.tcp = "closed" /\ G.st = "closed" /\ G.policy = X.policy /\ G = TcpClose(c[s])
    BY <1>4, CloseFacts
  <2>. HIDE DEF Y, G
  <2>4. Y.tcp = "closed" /\ Y.fault < 0
    BY <2>1 DEF Going
  <2>5. InvOf([c EXCEPT ![s] = G], link', left')
    BY <1>6, <2>3, <2>4
  <2>6. Mirrors(G, Y)
    BY <2>1, <2>3, <2>4 DEF Mirrors
  <2>. QED BY <1>1, <1>2, <2>2, <2>5, <2>6, GhostTurns
<1>. QED BY <1>4, <1>7, <1>8, Attempt

LEMMA Budget ==
  ASSUME IInv
  PROVE  /\ UNCHANGED left => Cheaper(left, left')
         /\ \A op \in Operations : Spend(op) => Cheaper(left, left')
<1>1. PICK c : GhostOf(c)
  BY DEF IInv
<1>2. left \in [Operations -> Nat]
  BY <1>1, GhostFacts DEF Sites
<1>. QED BY <1>2, Spending

LEMMA NextKeeps ==
  ASSUME IInv, [Next]_vars
  PROVE  IInv'
<1>1. CASE TcpConnected
  BY <1>1, ConnectStep
<1>2. ASSUME NEW s \in Sites, Write(s)
      PROVE  IInv'
  BY <1>2, WriteStep
<1>3. ASSUME NEW s \in Sites, Read(s)
      PROVE  IInv'
  BY <1>3, ReadStep
<1>4. ASSUME NEW s \in Sites, AppSend(s)
      PROVE  IInv'
  BY <1>4, SendStep
<1>5. ASSUME NEW s \in Sites, TcpError(s)
      PROVE  IInv'
  <2>. DEFINE A == conn[s]
              Y == TcpClose(A)
  <2>1. A \in Attempts(conn[s], FALSE) /\ Becomes(s, Y) /\ Cheaper(left, left') /\ A.tcp # "closed"
    BY <1>5, Budget DEF TcpError, Attempts, Operations
  <2>2. Alone(s, A, Y)
    BY <2>1 DEF Alone
  <2>3. \A p : Going(A, p) => Going(Y, p)
    BY GoingTcpClose
  <2>. HIDE DEF Y, A
  <2>. QED BY <2>1, <2>2, <2>3, HandlerStep DEF A
<1>6. ASSUME NEW s \in Sites, AppClose(s)
      PROVE  IInv'
  <2>1. PICK A \in Attempts(conn[s], FALSE) : Becomes(s, Close(A))
    BY <1>6 DEF AppClose
  <2>. DEFINE Y == Close(A)
  <2>2. Cheaper(left, left')
    BY <1>6, Budget DEF AppClose, Sites, Operations
  <2>3. A = conn[s] => Alone(s, A, Y)
    BY <1>6 DEF AppClose, Alone
  <2>4. \A p : Going(A, p) => Going(Y, p)
    BY GoingClose
  <2>. HIDE DEF Y
  <2>. QED BY <2>1, <2>2, <2>3, <2>4, HandlerStep DEF Y
<1>7. ASSUME NEW s \in Sites, SaslAnswers(s)
      PROVE  IInv'
  <2>1. PICK outcome \in {"more", "done", "error"} :
          /\ IF outcome = "done" THEN UNCHANGED left ELSE Spend(outcome)
          /\ \E A \in Attempts(conn[s], FALSE) : Becomes(s, SaslResult(A, outcome))
    BY <1>7 DEF SaslAnswers
  <2>2. PICK A \in Attempts(conn[s], FALSE) : Becomes(s, SaslResult(A, outcome))
    BY <2>1
  <2>. DEFINE Y == SaslResult(A, outcome)
  <2>3. Cheaper(left, left')
    BY <2>1, Budget DEF Operations
  <2>4. A = conn[s] => Alone(s, A, Y)
    BY <1>7, <2>1 DEF SaslAnswers, Alone
  <2>5. \A p : Going(A, p) => Going(Y, p)
    BY GoingSaslResult
  <2>. HIDE DEF Y
  <2>. QED BY <2>2, <2>3, <2>4, <2>5, HandlerStep DEF Y
<1>8. ASSUME NEW s \in Sites, Verify(s)
      PROVE  IInv'
  <2>0. PICK A \in Attempts(conn[s], FALSE) : \/ Becomes(s, VerifyContinue(A))
                                              \/ Becomes(s, VerifyCancel(A))
    BY <1>8 DEF Verify
  <2>1. PICK Y \in {VerifyContinue(A), VerifyCancel(A)} : Becomes(s, Y)
    BY <2>0
  <2>2. Cheaper(left, left')
    BY <1>8, Budget DEF Verify
  <2>3. A = conn[s] => Alone(s, A, Y)
    BY <1>8, <2>1 DEF Verify, Alone
  <2>4. \A p : Going(A, p) => Going(Y, p)
    BY <2>1, GoingVerify
  <2>. QED BY <2>1, <2>2, <2>3, <2>4, HandlerStep
<1>9. ASSUME NEW s \in Sites, Reset(s)
      PROVE  IInv'
  <2>1. PICK A \in Attempts(conn[s], FALSE) : Becomes(s, ResetSasl(A))
    BY <1>9 DEF Reset
  <2>. DEFINE Y == ResetSasl(A)
  <2>2. Cheaper(left, left')
    BY <1>9, Budget DEF Reset, Operations
  <2>3. A = conn[s] => Alone(s, A, Y)
    BY <1>9 DEF Reset, Alone
  <2>4. \A p : Going(A, p) => Going(Y, p)
    BY GoingReset
  <2>. HIDE DEF Y
  <2>. QED BY <2>1, <2>2, <2>3, <2>4, HandlerStep DEF Y
<1>10. CASE UNCHANGED vars
  BY <1>10 DEF vars, IInv, GhostOf, Mirrors
<1>. QED BY <1>1, <1>2, <1>3, <1>4, <1>5, <1>6, <1>7, <1>8, <1>9, <1>10 DEF Next

\* What the ghosts say of the security policies, they say of the ends.
LEMMA GhostPolicies ==
  ASSUME NEW c, GhostOf(c)
  PROVE  /\ c["client"].st = "ready" \/ c["server"].st = "ready" =>
              \A s \in Sites : c[s].st = "ready" => \A t \in Sites :
                 /\ c[t].policy = "only_tls" => c[s].tls
                 /\ c[t].policy = "only_unsecured" => ~c[s].tls
         /\ \A s, t \in Sites : c[s].st = "ready" /\ c[t].st = "ready" => c[s].tls = c[t].tls
<1>. DEFINE C == c["client"]
            S == c["server"]
            w == link["server"] \o c["server"].out
            v == link["client"] \o c["client"].out
<1>1. /\ Sides(C, S, w, v) /\ C \in Ends /\ S \in Ends
      /\ \A s \in Sites : s = "client" \/ s = "server"
  BY InvFacts DEF Sites, GhostOf
<1>2. PolicyOf(C, S, w, v) /\ C.tls \in BOOLEAN /\ S.tls \in BOOLEAN
  BY <1>1, ClientFacts
<1>3. C.st = "ready" =>
        /\ C.tls => C.policy # "only_unsecured" /\ S.policy # "only_unsecured"
        /\ ~C.tls => C.policy # "only_tls" /\ S.policy # "only_tls"
  <2>. HIDE DEF C, S, w, v
  <2>. QED BY <1>2 DEF PolicyOf, ClientPast
<1>4. S.st = "ready" =>
        /\ S.tls => C.policy # "only_unsecured" /\ S.policy # "only_unsecured"
        /\ ~S.tls => C.policy # "only_tls" /\ S.policy # "only_tls"
  <2>. HIDE DEF C, S, w, v
  <2>. QED BY <1>2 DEF PolicyOf, ServerPast
<1>5. C.st = "ready" /\ S.st = "ready" => C.tls = S.tls
  <2>. HIDE DEF C, S, w, v
  <2>. SUFFICES ASSUME C.st = "ready", S.st = "ready" PROVE C.tls = S.tls
    OBVIOUS
  <2>1. IsOpen(C) /\ IsOpen(S)
    BY DEF IsOpen, Over, Closing
  <2>2. InPhase(C, S, w, v)
    BY <1>1, <2>1, ClientFacts
  <2>. QED BY <2>2 DEF InPhase, Opening1, Encrypting, Authenticating, Authenticated, SameTls
<1>. QED BY <1>1, <1>2, <1>3, <1>4, <1>5 DEF Sites

LEMMA InvSound ==
  ASSUME IInv
  PROVE  ConnectionSound
<1>1. PICK c : GhostOf(c)
  BY DEF IInv
<1>2. ASSUME NEW s \in Sites
      PROVE  /\ conn[s].fault = 0 => conn[s] = c[s]
             /\ conn[s].st = "ready" => conn[s] = c[s]
             /\ conn[s].policy = c[s].policy
             /\ conn[s].fault = 0 \/ conn[s].fault < 0
             /\ c[s] \in Ends /\ EndOK(c[s]) /\ QueueOK(c[s], left["send"])
  <2>1. EndOK(c[s]) /\ QueueOK(c[s], left["send"])
    BY <1>1, InvFacts DEF Sites, GhostOf
  <2>. QED BY <1>1, <2>1, GhostFacts
<1>3. NoAssertion
  BY <1>2 DEF NoAssertion, EndOK
<1>4. PolicyRespected
  <2>. SUFFICES ASSUME NEW s \in Sites, conn[s].st = "ready"
                PROVE  /\ (\E t \in Sites : conn[t].policy = "only_tls") => conn[s].tls
                       /\ (\E t \in Sites : conn[t].policy = "only_unsecured") => ~conn[s].tls
                       /\ conn[Other(s)].st = "ready" => conn[s].tls = conn[Other(s)].tls
    BY DEF PolicyRespected
  <2>1. Other(s) \in Sites
    BY DEF Other, Sites
  <2>2. conn[s] = c[s] /\ (c["client"].st = "ready" \/ c["server"].st = "ready")
    BY <1>2 DEF Sites
  <2>3. ASSUME NEW t \in Sites
        PROVE  /\ conn[t].policy = "only_tls" => conn[s].tls
               /\ conn[t].policy = "only_unsecured" => ~conn[s].tls
               /\ conn[t].st = "ready" => conn[s].tls = conn[t].tls
    BY <1>1, <1>2, <2>2, GhostPolicies
  <2>. QED BY <2>1, <2>3
<1>5. PositionExact
  <2>. SUFFICES ASSUME NEW s \in Sites, conn[s].fault = 0
                PROVE  LET X == conn[s]
                       IN  /\ X.pos = Len(X.out)
                           /\ \A i \in DOMAIN X.msgs :
                                X.msgs[i].id # 0 => X.out[X.msgs[i].pos] = Payload(X.msgs[i].id)[2]
                           /\ \A j \in DOMAIN X.out : X.out[j].id \notin X.told
    BY DEF PositionExact
  <2>. DEFINE X == conn[s]
  <2>1. X \in Ends /\ QueueOK(X, left["send"])
    BY <1>2
  <2>2. DOMAIN X.msgs = 1..Len(X.msgs) /\ DOMAIN X.out = 1..Len(X.out)
    BY <2>1, EndFields, LenProperties
  <2>. QED BY <2>1, <2>2 DEF QueueOK
<1>. QED BY <1>3, <1>4, <1>5 DEF ConnectionSound

\* Whatever the two ends of inf-xmpp-connection.c do, and whatever TCP, gnutls and the SASL
\* context answer, what is on its way to an end is something that the end can take in the status
\* it has; an end whose handler goes on after one of its sends has failed is to its peer what an
\* end that has just been closed is.
THEOREM LinkInvariant == Spec => []IInv
<1>1. Init => IInv
  BY InitGhost
<1>2. IInv /\ [Next]_vars => IInv'
  BY NextKeeps
<1>. QED BY <1>1, <1>2, PTL DEF Spec

\* No assertion of inf-xmpp-connection.c fails unless a handler goes on after a send of its own
\* has failed, the ends that exchange messages use TLS as both security policies say, and a
\* message is reported as sent when its last byte is written: for all setups and any number of
\* messages, errors, failing sends, answers, retries, resets and closes.
THEOREM LinkStaysSound == Spec => []ConnectionSound
<1>1. IInv => ConnectionSound
  BY InvSound
<1>. QED BY <1>1, LinkInvariant, PTL

=============================================================================
