--------------------------- MODULE SaslContextProofs ---------------------------
(* Proofs about authentication sessions and their threads, for every set of   *)
(* sessions and however often they are started, fed and asked.                *)
EXTENDS SaslContext, SequenceTheorems, TLAPS

-----------------------------------------------------------------------------
(* Where the main thread is with a session: not stopping it, before and after *)
(* the push of the message that terminates it.                                *)
Joining(s) == main_thread = <<"join", s>>

(* What is in the session's queue apart from the message that ends it.        *)
Queue(s, q) == session_queue[s] = IF Joining(s) THEN Append(q, "terminate") ELSE q

(* Nobody else works for the session: what it was asked is answered and taken.*)
Alone(s) == dispatch[s] = "none" /\ ~pending[s] /\ Queue(s, <<>>)

(* The state of a session that has not been told to end: where its thread is  *)
(* tells what is in the queue, in the main loop and with the application.     *)
Waiting(s) ==
  /\ thread[s] = "outer" /\ session_status[s] = "outer" /\ ~pending[s]
  /\ \/ Alone(s)
     \/ stepping[s] /\ dispatch[s] = "none" /\ Queue(s, <<"step">>)
     \/ stepping[s] /\ dispatch[s] = "stepped" /\ Queue(s, <<>>)

Working(s) ==
  /\ thread[s] \in {"lock", "step", "relock"} /\ session_status[s] = "inner"
  /\ stepping[s] /\ Alone(s)

Asking(s) ==
  /\ thread[s] = "asking" /\ session_status[s] = "inner" /\ stepping[s]
  /\ \/ dispatch[s] = "query" /\ ~pending[s] /\ Queue(s, <<>>)
     \/ dispatch[s] = "none" /\ pending[s] /\ Queue(s, <<>>)
     \/ dispatch[s] = "none" /\ ~pending[s] /\ Queue(s, <<"continue">>)

Posting(s) == thread[s] = "post" /\ session_status[s] = "outer" /\ stepping[s] /\ Alone(s)

(* It was told: nothing is taken from the queue any more, and what it left in *)
(* the main loop is not run.                                                  *)
Ending(s) ==
  /\ Joining(s) /\ thread[s] \in {"step", "relock", "gone"} /\ session_status[s] = "terminate"
  /\ dispatch[s] = "stepped" => stepping[s]

(* A session that does not exist has neither thread nor dispatch, and is not  *)
(* being stopped.                                                             *)
Absent(s) ==
  thread[s] = "none" /\ dispatch[s] = "none" /\ ~Joining(s) /\ main_thread # <<"stop", s>>

Session(s) ==
  IF live[s] THEN Waiting(s) \/ Working(s) \/ Asking(s) \/ Posting(s) \/ Ending(s)
  ELSE Absent(s)

IInv == SaslTypeOK /\ \A s \in Sessions : Session(s)

-----------------------------------------------------------------------------
(* A step leaves alone the sessions it is not about.                          *)
SameSession(t) ==
  /\ live'[t] = live[t] /\ thread'[t] = thread[t] /\ session_status'[t] = session_status[t]
  /\ session_queue'[t] = session_queue[t] /\ dispatch'[t] = dispatch[t]
  /\ stepping'[t] = stepping[t] /\ pending'[t] = pending[t]
  /\ Joining(t)' = Joining(t) /\ (main_thread' = <<"stop", t>> => main_thread = <<"stop", t>>)

LEMMA SameKeeps ==
  ASSUME NEW t \in Sessions, Session(t), SameSession(t)
  PROVE  Session(t)'
<1>1. ASSUME NEW q PROVE Queue(t, q)' = Queue(t, q)
  BY DEF SameSession, Queue
<1>2. Alone(t)' = Alone(t)
  BY <1>1 DEF SameSession, Alone
<1>3. Waiting(t)' = Waiting(t)
  BY <1>1, <1>2 DEF SameSession, Waiting
<1>4. Working(t)' = Working(t) /\ Posting(t)' = Posting(t)
  BY <1>2 DEF SameSession, Working, Posting
<1>5. Asking(t)' = Asking(t)
  BY <1>1 DEF SameSession, Asking
<1>6. Ending(t)' = Ending(t)
  BY DEF SameSession, Ending
<1>7. Absent(t) => Absent(t)'
  BY DEF SameSession, Absent
<1> QED BY <1>3, <1>4, <1>5, <1>6, <1>7 DEF SameSession, Session

(* The messages in queues, as far as the proofs take them apart.              *)
Words == {"step", "continue", "terminate"}

LEMMA TwoWords ==
  ASSUME NEW m \in Words, NEW n \in Words
  PROVE  Append(<<m>>, n) = <<m, n>>
<1> DEFINE a == Append(<<m>>, n)
           b == <<m, n>>
<1>1. <<m>> \in Seq(Words) /\ Len(<<m>>) = 1
  OBVIOUS
<1>2. a \in Seq(Words) /\ Len(a) = 2 /\ a[1] = m /\ a[2] = n
  BY <1>1, AppendProperties
<1>3. b \in Seq(Words) /\ Len(b) = 2 /\ b[1] = m /\ b[2] = n
  OBVIOUS
<1> HIDE DEF a, b
<1>4. a = b
  BY <1>2, <1>3, SeqEqual
<1> QED BY <1>4 DEF a, b

(* What the queue of a session is before its thread or after the main thread  *)
(* has changed it.                                                            *)
LEMMA Queues ==
  /\ Append(<<>>, "terminate") = <<"terminate">>
  /\ Append(<<>>, "step") = <<"step">> /\ Append(<<>>, "continue") = <<"continue">>
  /\ Append(<<"step">>, "terminate") = <<"step", "terminate">>
  /\ Append(<<"continue">>, "terminate") = <<"continue", "terminate">>
<1>1. "step" \in Words /\ "continue" \in Words /\ "terminate" \in Words
  BY DEF Words
<1> QED BY <1>1, TwoWords

LEMMA Heads ==
  \A m, n : /\ Head(<<m>>) = m /\ Tail(<<m>>) = <<>> /\ <<m>> # <<>>
            /\ Head(<<m, n>>) = m /\ Tail(<<m, n>>) = <<n>> /\ <<m, n>> # <<>>
  OBVIOUS

(* What the main thread does with one session it does not do with another.    *)
LEMMA Mains ==
  \A s, t : /\ Looping # <<"stop", s>> /\ Looping # <<"join", s>>
            /\ <<"stop", s>> # <<"join", t>>
            /\ <<"stop", s>> = <<"stop", t>> => s = t
            /\ <<"join", s>> = <<"join", t>> => s = t
  BY DEF Looping

-----------------------------------------------------------------------------
(* The main thread with a session                                             *)
LEMMA StartKeeps ==
  ASSUME IInv, NEW s \in Sessions, StartSession(s)
  PROVE  Session(s)' /\ \A t \in Sessions \ {s} : SameSession(t)
<1>1. ~Joining(s)' /\ live'[s] /\ thread'[s] = "outer" /\ session_status'[s] = "outer" /\ session_queue'[s] = <<>>
      /\ dispatch'[s] = "none" /\ ~pending'[s]
  BY Mains DEF StartSession, Joining, IInv, SaslTypeOK, At
<1>2. Waiting(s)'
  BY <1>1 DEF Waiting, Alone, Queue
<1>3. \A t \in Sessions \ {s} : SameSession(t)
  BY DEF StartSession, SameSession, Joining, IInv, SaslTypeOK, At
<1> QED BY <1>1, <1>2, <1>3 DEF Session

LEMMA FeedKeeps ==
  ASSUME IInv, NEW s \in Sessions, Feed(s)
  PROVE  Session(s)' /\ \A t \in Sessions \ {s} : SameSession(t)
<1>1. ~Joining(s) /\ ~Joining(s)' /\ live'[s] /\ stepping'[s] /\ session_queue'[s] = Append(session_queue[s], "step")
      /\ thread'[s] = thread[s] /\ session_status'[s] = session_status[s] /\ dispatch'[s] = dispatch[s]
      /\ pending'[s] = pending[s]
  BY Mains DEF Feed, Joining, IInv, SaslTypeOK, Push
<1>2. Waiting(s) /\ Alone(s)
  BY <1>1 DEF Feed, IInv, Session, Waiting, Working, Asking, Posting, Ending
<1>3. session_queue'[s] = <<"step">>
  BY <1>1, <1>2, Queues DEF Alone, Queue
<1>4. Waiting(s)'
  BY <1>1, <1>2, <1>3 DEF Waiting, Alone, Queue
<1>5. \A t \in Sessions \ {s} : SameSession(t)
  BY DEF Feed, SameSession, Joining, IInv, SaslTypeOK, Push
<1> QED BY <1>1, <1>4, <1>5 DEF Session

LEMMA QueryKeeps ==
  ASSUME IInv, NEW s \in Sessions, Query(s)
  PROVE  Session(s)' /\ \A t \in Sessions \ {s} : SameSession(t)
<1>1. ~Joining(s) /\ ~Joining(s)' /\ dispatch[s] = "query" /\ dispatch'[s] = "none" /\ pending'[s]
      /\ live'[s] = live[s] /\ thread'[s] = thread[s] /\ session_status'[s] = session_status[s]
      /\ session_queue'[s] = session_queue[s] /\ stepping'[s] = stepping[s]
  BY Mains DEF Query, Joining, IInv, SaslTypeOK
<1>2. live[s] /\ Asking(s)
  BY <1>1 DEF IInv, Session, Absent, Waiting, Working, Alone, Asking, Posting, Ending
<1>3. Asking(s)'
  BY <1>1, <1>2 DEF Asking, Queue
<1>4. \A t \in Sessions \ {s} : SameSession(t)
  BY DEF Query, SameSession, Joining, IInv, SaslTypeOK
<1> QED BY <1>1, <1>2, <1>3, <1>4 DEF Session

LEMMA ContinueKeeps ==
  ASSUME IInv, NEW s \in Sessions, Continue(s)
  PROVE  Session(s)' /\ \A t \in Sessions \ {s} : SameSession(t)
<1>1. ~Joining(s) /\ ~Joining(s)' /\ live'[s] /\ pending[s] /\ ~pending'[s]
      /\ session_queue'[s] = Append(session_queue[s], "continue")
      /\ thread'[s] = thread[s] /\ session_status'[s] = session_status[s] /\ dispatch'[s] = dispatch[s]
      /\ stepping'[s] = stepping[s]
  BY Mains DEF Continue, Joining, IInv, SaslTypeOK, Push
<1>2. Asking(s) /\ session_queue[s] = <<>>
  BY <1>1 DEF Continue, IInv, Session, Waiting, Working, Alone, Asking, Posting, Ending, Queue
<1>3. session_queue'[s] = <<"continue">>
  BY <1>1, <1>2, Queues
<1>4. Asking(s)'
  BY <1>1, <1>2, <1>3 DEF Asking, Queue
<1>5. \A t \in Sessions \ {s} : SameSession(t)
  BY DEF Continue, SameSession, Joining, IInv, SaslTypeOK, Push
<1> QED BY <1>1, <1>4, <1>5 DEF Session

LEMMA SteppedKeeps ==
  ASSUME IInv, NEW s \in Sessions, Stepped(s)
  PROVE  Session(s)' /\ \A t \in Sessions \ {s} : SameSession(t)
<1>1. ~Joining(s) /\ ~Joining(s)' /\ dispatch[s] = "stepped" /\ dispatch'[s] = "none"
      /\ live'[s] = live[s] /\ thread'[s] = thread[s] /\ session_status'[s] = session_status[s]
      /\ session_queue'[s] = session_queue[s] /\ pending'[s] = pending[s]
  BY Mains DEF Stepped, Joining, IInv, SaslTypeOK
<1>2. live[s] /\ Waiting(s) /\ session_queue[s] = <<>>
  BY <1>1 DEF IInv, Session, Absent, Waiting, Working, Alone, Asking, Posting, Ending, Queue
<1>3. Waiting(s)'
  BY <1>1, <1>2 DEF Waiting, Alone, Queue
<1>4. \A t \in Sessions \ {s} : SameSession(t)
  BY DEF Stepped, SameSession, Joining, IInv, SaslTypeOK
<1> QED BY <1>1, <1>2, <1>3, <1>4 DEF Session

LEMMA StopSessionKeeps ==
  ASSUME IInv, NEW s \in Sessions, StopSession(s)
  PROVE  Session(s)' /\ \A t \in Sessions \ {s} : SameSession(t)
<1>1. ~Joining(s) /\ ~Joining(s)' /\ live[s]
      /\ UNCHANGED <<live, thread, session_status, session_queue, dispatch, stepping, pending>>
  BY Mains DEF StopSession, Joining
<1>2. Waiting(s) \/ Working(s) \/ Asking(s) \/ Posting(s)
  BY <1>1 DEF IInv, Session, Ending
<1>3. \A q : Queue(s, q)' = Queue(s, q)
  BY <1>1 DEF Queue
<1>4. Alone(s)' = Alone(s)
  BY <1>1, <1>3 DEF Alone
<1>5. Waiting(s)' = Waiting(s) /\ Working(s)' = Working(s) /\ Posting(s)' = Posting(s)
  BY <1>1, <1>3, <1>4 DEF Waiting, Working, Posting
<1>6. Asking(s)' = Asking(s)
  BY <1>1, <1>3 DEF Asking
<1>7. \A t \in Sessions \ {s} : SameSession(t)
  BY Mains DEF StopSession, SameSession, Joining
<1> QED BY <1>1, <1>2, <1>5, <1>6, <1>7 DEF Session

LEMMA StopPushKeeps ==
  ASSUME IInv, NEW s \in Sessions, StopPush(s)
  PROVE  Session(s)' /\ \A t \in Sessions \ {s} : SameSession(t)
<1>1. ~Joining(s) /\ Joining(s)' /\ session_queue'[s] = Append(session_queue[s], "terminate")
      /\ UNCHANGED <<live, thread, session_status, dispatch, stepping, pending>>
  BY Mains DEF StopPush, Joining, IInv, SaslTypeOK, Push
<1>2. live[s] /\ (Waiting(s) \/ Working(s) \/ Asking(s) \/ Posting(s))
  BY <1>1 DEF StopPush, IInv, Session, Absent, Ending
<1>3. \A q : Queue(s, q) => Queue(s, q)'
  BY <1>1 DEF Queue
<1>4. Alone(s) => Alone(s)'
  BY <1>1, <1>3 DEF Alone
<1>5. (Waiting(s) => Waiting(s)') /\ (Working(s) => Working(s)') /\ (Posting(s) => Posting(s)')
  BY <1>1, <1>3, <1>4 DEF Waiting, Working, Posting
<1>6. Asking(s) => Asking(s)'
  BY <1>1, <1>3 DEF Asking
<1>7. \A t \in Sessions \ {s} : SameSession(t)
  BY Mains DEF StopPush, SameSession, Joining, IInv, SaslTypeOK, Push
<1> QED BY <1>1, <1>2, <1>5, <1>6, <1>7 DEF Session

LEMMA StopJoinKeeps ==
  ASSUME IInv, NEW s \in Sessions, StopJoin(s)
  PROVE  Session(s)' /\ \A t \in Sessions \ {s} : SameSession(t)
<1>1. Absent(s)' /\ ~live'[s]
  BY Mains DEF StopJoin, Absent, Joining, IInv, SaslTypeOK, At
<1>2. \A t \in Sessions \ {s} : SameSession(t)
  BY Mains DEF StopJoin, SameSession, Joining, IInv, SaslTypeOK, At
<1> QED BY <1>1, <1>2 DEF Session

-----------------------------------------------------------------------------
(* The session's thread.  A message that is taken is the first of what the    *)
(* session's state says is in the queue.                                      *)
LEMMA Taking ==
  ASSUME NEW s \in Sessions, session_queue[s] # <<>>
  PROVE  /\ Queue(s, <<>>) => Joining(s) /\ Head(session_queue[s]) = "terminate"
         /\ \A m \in {"step", "continue"} : Queue(s, <<m>>) =>
              /\ Head(session_queue[s]) = m
              /\ Tail(session_queue[s]) = IF Joining(s) THEN Append(<<>>, "terminate") ELSE <<>>
<1>1. Queue(s, <<>>) => Joining(s) /\ Head(session_queue[s]) = "terminate"
  BY Queues, Heads DEF Queue
<1>2. ASSUME NEW m \in {"step", "continue"}, Queue(s, <<m>>)
      PROVE  Head(session_queue[s]) = m /\ Tail(session_queue[s]) = IF Joining(s) THEN Append(<<>>, "terminate") ELSE <<>>
  <2>1. session_queue[s] = IF Joining(s) THEN <<m, "terminate">> ELSE <<m>>
    BY <1>2, Queues DEF Queue
  <2> QED BY <2>1, Queues, Heads
<1> QED BY <1>1, <1>2

LEMMA OuterKeeps ==
  ASSUME IInv, NEW s \in Sessions, Outer(s)
  PROVE  Session(s)' /\ \A t \in Sessions \ {s} : SameSession(t)
<1>1. thread[s] = "outer" /\ session_queue[s] # <<>> /\ (Joining(s)' <=> Joining(s))
      /\ session_queue'[s] = Tail(session_queue[s]) /\ UNCHANGED <<live, dispatch, stepping, pending, main_thread>>
  BY DEF Outer, IInv, SaslTypeOK, Pop, Joining
<1>2. live[s] /\ Waiting(s)
  BY <1>1 DEF IInv, Session, Absent, Working, Asking, Posting, Ending
<1>3. ASSUME Head(session_queue[s]) = "terminate" PROVE Session(s)'
  <2>1. Joining(s) /\ (dispatch[s] = "stepped" => stepping[s])
    BY <1>1, <1>2, <1>3, Taking DEF Waiting, Alone
  <2>2. session_status'[s] = "terminate" /\ thread'[s] = "gone"
    BY <1>3 DEF Outer, IInv, SaslTypeOK, At
  <2>3. Ending(s)'
    BY <1>1, <2>1, <2>2 DEF Ending
  <2> QED BY <1>1, <1>2, <2>3 DEF Session
<1>4. ASSUME Head(session_queue[s]) = "step" PROVE Session(s)'
  <2>1. stepping[s] /\ dispatch[s] = "none" /\ ~pending[s] /\ Queue(s, <<"step">>)
    BY <1>1, <1>2, <1>4, Taking DEF Waiting, Alone
  <2>2. session_status'[s] = "inner" /\ thread'[s] = "lock"
    BY <1>4 DEF Outer, IInv, SaslTypeOK, At
  <2>3. Queue(s, <<>>)'
    BY <1>1, <2>1, Taking DEF Queue
  <2>4. Working(s)'
    BY <1>1, <2>1, <2>2, <2>3 DEF Working, Alone
  <2> QED BY <1>1, <1>2, <2>4 DEF Session
<1>5. \A t \in Sessions \ {s} : SameSession(t)
  BY DEF Outer, SameSession, Joining, IInv, SaslTypeOK, At, Pop
<1> QED BY <1>3, <1>4, <1>5 DEF Outer

LEMMA LockKeeps ==
  ASSUME IInv, NEW s \in Sessions, Lock(s)
  PROVE  Session(s)' /\ \A t \in Sessions \ {s} : SameSession(t)
<1>1. thread[s] = "lock" /\ thread'[s] = "step"
      /\ UNCHANGED <<live, session_status, session_queue, dispatch, stepping, pending, main_thread>>
  BY DEF Lock, IInv, SaslTypeOK, At
<1>2. live[s] /\ Working(s)
  BY <1>1 DEF IInv, Session, Absent, Waiting, Asking, Posting, Ending
<1>3. Working(s)'
  BY <1>1, <1>2 DEF Working, Alone, Queue, Joining
<1>4. \A t \in Sessions \ {s} : SameSession(t)
  BY DEF Lock, SameSession, Joining, IInv, SaslTypeOK, At
<1> QED BY <1>1, <1>2, <1>3, <1>4 DEF Session

LEMMA CallbackKeeps ==
  ASSUME IInv, NEW s \in Sessions, Callback(s)
  PROVE  Session(s)' /\ \A t \in Sessions \ {s} : SameSession(t)
<1>1. thread[s] = "step" /\ session_status[s] = "inner" /\ thread'[s] = "asking" /\ dispatch'[s] = "query"
      /\ UNCHANGED <<live, session_status, session_queue, stepping, pending, main_thread>>
  BY DEF Callback, IInv, SaslTypeOK, At
<1>2. live[s] /\ Working(s)
  BY <1>1 DEF IInv, Session, Absent, Waiting, Asking, Posting, Ending
<1>3. Asking(s)'
  BY <1>1, <1>2 DEF Working, Alone, Queue, Joining, Asking
<1>4. \A t \in Sessions \ {s} : SameSession(t)
  BY DEF Callback, SameSession, Joining, IInv, SaslTypeOK, At
<1> QED BY <1>1, <1>2, <1>3, <1>4 DEF Session

LEMMA AnsweredKeeps ==
  ASSUME IInv, NEW s \in Sessions, Answered(s)
  PROVE  Session(s)' /\ \A t \in Sessions \ {s} : SameSession(t)
<1>1. thread[s] = "asking" /\ thread'[s] = "relock" /\ session_queue[s] # <<>> /\ (Joining(s)' <=> Joining(s))
      /\ session_queue'[s] = Tail(session_queue[s]) /\ UNCHANGED <<live, dispatch, stepping, pending, main_thread>>
  BY DEF Answered, IInv, SaslTypeOK, Pop, At, Joining
<1>2. live[s] /\ Asking(s)
  BY <1>1 DEF IInv, Session, Absent, Waiting, Working, Posting, Ending
<1>3. ASSUME Head(session_queue[s]) = "terminate" PROVE Session(s)'
  <2>1. Joining(s) /\ dispatch[s] # "stepped"
    BY <1>1, <1>2, <1>3, Taking DEF Asking
  <2>2. session_status'[s] = "terminate"
    BY <1>3 DEF Answered, IInv, SaslTypeOK
  <2>3. Ending(s)'
    BY <1>1, <2>1, <2>2 DEF Ending
  <2> QED BY <1>1, <1>2, <2>3 DEF Session
<1>4. ASSUME Head(session_queue[s]) = "continue" PROVE Session(s)'
  <2>1. stepping[s] /\ dispatch[s] = "none" /\ ~pending[s] /\ Queue(s, <<"continue">>)
    BY <1>1, <1>2, <1>4, Taking DEF Asking
  <2>2. session_status'[s] = "inner"
    BY <1>2, <1>4 DEF Answered, Asking
  <2>3. Queue(s, <<>>)'
    BY <1>1, <2>1, Taking DEF Queue
  <2>4. Working(s)'
    BY <1>1, <2>1, <2>2, <2>3 DEF Working, Alone
  <2> QED BY <1>1, <1>2, <2>4 DEF Session
<1>5. \A t \in Sessions \ {s} : SameSession(t)
  BY DEF Answered, SameSession, Joining, IInv, SaslTypeOK, At, Pop
<1> QED BY <1>3, <1>4, <1>5 DEF Answered

LEMMA RelockKeeps ==
  ASSUME IInv, NEW s \in Sessions, Relock(s)
  PROVE  Session(s)' /\ \A t \in Sessions \ {s} : SameSession(t)
<1>1. thread[s] = "relock" /\ thread'[s] = "step"
      /\ UNCHANGED <<live, session_status, session_queue, dispatch, stepping, pending, main_thread>>
  BY DEF Relock, IInv, SaslTypeOK, At
<1>2. live[s] /\ (Working(s) \/ Ending(s))
  BY <1>1 DEF IInv, Session, Absent, Waiting, Asking, Posting
<1>3. Working(s) => Working(s)'
  BY <1>1 DEF Working, Alone, Queue, Joining
<1>4. Ending(s) => Ending(s)'
  BY <1>1 DEF Ending, Joining
<1>5. \A t \in Sessions \ {s} : SameSession(t)
  BY DEF Relock, SameSession, Joining, IInv, SaslTypeOK, At
<1> QED BY <1>1, <1>2, <1>3, <1>4, <1>5 DEF Session

LEMMA StepDoneKeeps ==
  ASSUME IInv, NEW s \in Sessions, StepDone(s)
  PROVE  Session(s)' /\ \A t \in Sessions \ {s} : SameSession(t)
<1>1. thread[s] = "step" /\ UNCHANGED <<live, session_queue, dispatch, stepping, pending, main_thread>>
  BY DEF StepDone
<1>2. live[s] /\ (Working(s) \/ Ending(s))
  BY <1>1 DEF IInv, Session, Absent, Waiting, Asking, Posting
<1>3. CASE session_status[s] = "terminate"
  <2>1. Ending(s) /\ thread'[s] = "gone" /\ session_status'[s] = "terminate"
    BY <1>2, <1>3 DEF StepDone, Working, At, IInv, SaslTypeOK
  <2> QED BY <1>1, <1>2, <2>1 DEF Session, Ending, Joining, StepDone, SameSession, IInv, SaslTypeOK, At
<1>4. CASE session_status[s] # "terminate"
  <2>1. Working(s) /\ thread'[s] = "post" /\ session_status'[s] = "outer"
    BY <1>2, <1>4 DEF StepDone, Ending, At, IInv, SaslTypeOK
  <2>2. Posting(s)'
    BY <1>1, <2>1 DEF Working, Posting, Alone, Queue, Joining
  <2>3. \A t \in Sessions \ {s} : SameSession(t)
    BY DEF StepDone, SameSession, Joining, IInv, SaslTypeOK, At
  <2> QED BY <1>1, <1>2, <2>2, <2>3 DEF Session
<1> QED BY <1>3, <1>4

LEMMA PostKeeps ==
  ASSUME IInv, NEW s \in Sessions, Post(s)
  PROVE  Session(s)' /\ \A t \in Sessions \ {s} : SameSession(t)
<1>1. thread[s] = "post" /\ thread'[s] = "outer" /\ dispatch'[s] = "stepped"
      /\ UNCHANGED <<live, session_status, session_queue, stepping, pending, main_thread>>
  BY DEF Post, IInv, SaslTypeOK, At
<1>2. live[s] /\ Posting(s)
  BY <1>1 DEF IInv, Session, Absent, Waiting, Working, Asking, Ending
<1>3. Waiting(s)'
  BY <1>1, <1>2 DEF Posting, Alone, Queue, Joining, Waiting
<1>4. \A t \in Sessions \ {s} : SameSession(t)
  BY DEF Post, SameSession, Joining, IInv, SaslTypeOK, At
<1> QED BY <1>1, <1>2, <1>3, <1>4 DEF Session

-----------------------------------------------------------------------------
LEMMA TypesKept ==
  ASSUME SaslTypeOK, [SaslNext]_saslVars
  PROVE  SaslTypeOK'
<1> SUFFICES ASSUME SaslNext PROVE SaslTypeOK'
  BY DEF SaslTypeOK, saslVars
<1>1. PICK s \in Sessions :
    \/ StartSession(s) \/ Feed(s) \/ Query(s) \/ Continue(s) \/ Stepped(s)
    \/ StopSession(s) \/ StopPush(s) \/ StopJoin(s)
    \/ Outer(s) \/ Lock(s) \/ Callback(s) \/ Answered(s) \/ Relock(s) \/ StepDone(s) \/ Post(s)
  BY DEF SaslNext
<1>2. CASE StartSession(s) BY <1>2 DEF SaslTypeOK, StartSession, At
<1>3. CASE Feed(s) BY <1>3 DEF SaslTypeOK, Feed, Push
<1>4. CASE Query(s) BY <1>4 DEF SaslTypeOK, Query
<1>5. CASE Continue(s) BY <1>5 DEF SaslTypeOK, Continue, Push
<1>6. CASE Stepped(s) BY <1>6 DEF SaslTypeOK, Stepped
<1>7. CASE StopSession(s) BY <1>7 DEF SaslTypeOK, StopSession
<1>8. CASE StopPush(s) BY <1>8 DEF SaslTypeOK, StopPush, Push
<1>9. CASE StopJoin(s) BY <1>9 DEF SaslTypeOK, StopJoin, At
<1>10. CASE Outer(s)
  <2>1. Tail(session_queue[s]) \in Seq({"step", "continue", "terminate"})
    BY <1>10 DEF SaslTypeOK, Outer
  <2> QED BY <1>10, <2>1 DEF SaslTypeOK, Outer, At, Pop
<1>11. CASE Lock(s) BY <1>11 DEF SaslTypeOK, Lock, At
<1>12. CASE Callback(s) BY <1>12 DEF SaslTypeOK, Callback, At
<1>13. CASE Answered(s)
  <2>1. Tail(session_queue[s]) \in Seq({"step", "continue", "terminate"})
    BY <1>13 DEF SaslTypeOK, Answered
  <2> QED BY <1>13, <2>1 DEF SaslTypeOK, Answered, At, Pop
<1>14. CASE Relock(s) BY <1>14 DEF SaslTypeOK, Relock, At
<1>15. CASE StepDone(s) BY <1>15 DEF SaslTypeOK, StepDone, At
<1>16. CASE Post(s) BY <1>16 DEF SaslTypeOK, Post, At
<1> QED BY <1>1, <1>2, <1>3, <1>4, <1>5, <1>6, <1>7, <1>8, <1>9, <1>10, <1>11, <1>12, <1>13,
          <1>14, <1>15, <1>16

LEMMA Initially == SaslInit => IInv
<1> SUFFICES ASSUME SaslInit PROVE IInv
  OBVIOUS
<1>1. SaslTypeOK
  BY DEF SaslInit, SaslTypeOK
<1>2. \A s \in Sessions : Session(s)
  BY Mains DEF SaslInit, Session, Absent, Joining
<1> QED BY <1>1, <1>2 DEF IInv

LEMMA Inductive == IInv /\ [SaslNext]_saslVars => IInv'
<1> SUFFICES ASSUME IInv, [SaslNext]_saslVars PROVE \A s \in Sessions : Session(s)'
  BY TypesKept DEF IInv
<1>1. CASE UNCHANGED saslVars
  <2>1. \A s \in Sessions : SameSession(s)
    BY <1>1 DEF SameSession, saslVars, Joining
  <2> QED BY <2>1, SameKeeps DEF IInv
<1>2. CASE SaslNext
  <2>1. PICK s \in Sessions : Session(s)' /\ \A t \in Sessions \ {s} : SameSession(t)
    BY <1>2, StartKeeps, FeedKeeps, QueryKeeps, ContinueKeeps, SteppedKeeps, StopSessionKeeps,
       StopPushKeeps, StopJoinKeeps, OuterKeeps, LockKeeps, CallbackKeeps, AnsweredKeeps,
       RelockKeeps, StepDoneKeeps, PostKeeps DEF SaslNext
  <2> QED BY <2>1, SameKeeps DEF IInv
<1> QED BY <1>1, <1>2

-----------------------------------------------------------------------------
LEMMA NothingLeft == IInv => NothingLeftBehind
BY DEF IInv, Session, Absent, NothingLeftBehind

LEMMA AsExpected ==
  ASSUME IInv, NEW s \in Sessions
  PROVE  Expected(s)
<1>1. CASE ~live[s]
  BY <1>1 DEF IInv, Session, Absent, Expected
<1>2. CASE live[s] /\ Waiting(s)
  <2>1. session_queue[s] # <<>> => Head(session_queue[s]) = "terminate" \/ Head(session_queue[s]) = "step"
    BY <1>2, Taking DEF Waiting, Alone
  <2> QED BY <1>2, <2>1 DEF Waiting, Alone, Expected
<1>3. CASE live[s] /\ Working(s)
  BY <1>3 DEF Working, Alone, Expected
<1>4. CASE live[s] /\ Asking(s)
  <2>1. session_queue[s] # <<>> => Head(session_queue[s]) = "terminate" \/ Head(session_queue[s]) = "continue"
    BY <1>4, Taking DEF Asking
  <2> QED BY <1>4, <2>1 DEF Asking, Expected
<1>5. CASE live[s] /\ Posting(s)
  BY <1>5 DEF Posting, Alone, Expected
<1>6. CASE live[s] /\ Ending(s)
  BY <1>6 DEF Ending, Expected
<1> QED BY <1>1, <1>2, <1>3, <1>4, <1>5, <1>6 DEF IInv, Session

(* inf_sasl_context_stop_session leaves nothing of a session behind, and each *)
(* message the main thread and the session's thread exchange comes in the     *)
(* state whose assertion expects it, at whatever moment the session is        *)
(* stopped.                                                                   *)
THEOREM SaslStaysSound == SaslSpec => []SaslSound
<1>1. IInv => SaslSound
  BY NothingLeft, AsExpected DEF SaslSound, MessagesExpected
<1> QED BY Initially, Inductive, <1>1, PTL DEF SaslSpec

-----------------------------------------------------------------------------
(* Who steps holds the mutex.                                                 *)
Held == \A s \in Sessions : thread[s] = "step" => context_mutex = s

OneSteps == \A s, t \in Sessions : thread[s] = "step" /\ thread[t] = "step" => s = t

LEMMA HeldKept ==
  ASSUME SaslTypeOK, Nobody \notin Sessions, Held, [SaslNext]_saslVars
  PROVE  Held'
<1>1. ASSUME NEW s \in Sessions, Lock(s) \/ Relock(s) PROVE Held'
  <2>1. \A t \in Sessions : thread[t] # "step"
    BY <1>1 DEF Held, Lock, Relock
  <2> QED BY <1>1, <2>1 DEF Held, Lock, Relock, SaslTypeOK, At
<1>2. ASSUME NEW s \in Sessions, Callback(s) \/ StepDone(s) PROVE Held'
  <2>1. \A t \in Sessions \ {s} : thread[t] # "step"
    BY <1>2 DEF Held, Callback, StepDone
  <2> QED BY <1>2, <2>1 DEF Held, Callback, StepDone, SaslTypeOK, At
<1>3. ASSUME NEW s \in Sessions,
             \/ StartSession(s) \/ Feed(s) \/ Query(s) \/ Continue(s) \/ Stepped(s)
             \/ StopSession(s) \/ StopPush(s) \/ StopJoin(s)
             \/ Outer(s) \/ Answered(s) \/ Post(s)
      PROVE  Held'
  <2>1. context_mutex' = context_mutex
    BY <1>3 DEF StartSession, Feed, Query, Continue, Stepped, StopSession, StopPush, StopJoin,
         Outer, Answered, Post
  <2>2. \A t \in Sessions : thread'[t] = "step" => thread[t] = "step"
    BY <1>3 DEF StartSession, Feed, Query, Continue, Stepped, StopSession, StopPush, StopJoin,
         Outer, Answered, Post, SaslTypeOK, At
  <2> QED BY <2>1, <2>2 DEF Held
<1>4. UNCHANGED saslVars => Held'
  BY DEF Held, saslVars
<1> QED BY <1>1, <1>2, <1>3, <1>4 DEF SaslNext

(* gsasl_step64 runs in one thread at a time, although its callback gives the *)
(* mutex of the context up while it waits and takes it again.                 *)
THEOREM OneThreadSteps ==
  ASSUME Nobody \notin Sessions
  PROVE  SaslSpec => []OneSteps
<1>1. SaslInit => Held
  BY DEF SaslInit, Held
<1>2. SaslTypeOK /\ Held /\ [SaslNext]_saslVars => Held'
  BY HeldKept
<1>3. Held => OneSteps
  BY DEF Held, OneSteps
<1>4. IInv => SaslTypeOK
  BY DEF IInv
<1> QED BY Initially, Inductive, <1>1, <1>2, <1>3, <1>4, PTL DEF SaslSpec

=============================================================================
