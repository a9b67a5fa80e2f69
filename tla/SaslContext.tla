----------------------------- MODULE SaslContext -----------------------------
(***************************************************************************)
(* inf-sasl-context.c: every authentication session has a thread of its    *)
(* own, which runs gsasl_step64 with the context's mutex held.  gsasl asks *)
(* for properties in a callback; the callback gives the mutex up, lets the *)
(* main loop ask the application (a dispatch of the main loop), and waits  *)
(* for the answer in the session's queue.  The main thread may stop the    *)
(* session at any time, which waits for the thread to end.                 *)
(*                                                                         *)
(* What runs between locking and unlocking the mutex without waiting in    *)
(* between is one step.                                                    *)
(***************************************************************************)
EXTENDS Integers, Sequences, FiniteSets

CONSTANTS Sessions, Nobody,   \* Nobody: nobody holds the mutex
          Bounds              \* of each session: how often it is started and fed, and
                              \* how often gsasl asks for a property in one step, at most

VARIABLES live,           \* the session exists
          thread,         \* where its thread is
          session_status, \* session->status
          session_queue,  \* session->session_queue
          dispatch,       \* session->dispatch: "none", "query" or "stepped"
          stepping,       \* session->stepping
          pending,        \* the application has a property to answer for
          context_mutex,  \* who holds context->mutex
          spare,          \* what is left of the bounds
          main_thread     \* the main thread: <<"loop">>, or the session it stops and how far it is

saslVars == <<live, thread, session_status, session_queue, dispatch, stepping, pending,
              context_mutex, spare, main_thread>>

Looping == <<"loop">>

SaslInit ==
  /\ live = [s \in Sessions |-> FALSE]
  /\ thread = [s \in Sessions |-> "none"]
  /\ session_status = [s \in Sessions |-> "outer"]
  /\ session_queue = [s \in Sessions |-> <<>>]
  /\ dispatch = [s \in Sessions |-> "none"]
  /\ stepping = [s \in Sessions |-> FALSE]
  /\ pending = [s \in Sessions |-> FALSE]
  /\ context_mutex = Nobody
  /\ spare = [s \in Sessions |-> [Bounds[s] EXCEPT !.ask = 0]]
  /\ main_thread = Looping

Push(s, m) == session_queue' = [session_queue EXCEPT ![s] = Append(@, m)]
Spend(s, what) == spare[s][what] > 0 /\ spare' = [spare EXCEPT ![s][what] = @ - 1]
Pop(s) == session_queue' = [session_queue EXCEPT ![s] = Tail(@)]
At(s, pc) == thread' = [thread EXCEPT ![s] = pc]

(***************************************************************************)
(* The main thread                                                         *)
(***************************************************************************)
\* inf_sasl_context_client_start_session, _server_start_session, _start_session
StartSession(s) ==
  /\ main_thread = Looping /\ context_mutex = Nobody /\ ~live[s]
  /\ Spend(s, "start")
  /\ live' = [live EXCEPT ![s] = TRUE]
  /\ At(s, "outer")
  /\ session_status' = [session_status EXCEPT ![s] = "outer"]
  /\ session_queue' = [session_queue EXCEPT ![s] = <<>>]
  /\ dispatch' = [dispatch EXCEPT ![s] = "none"]
  /\ stepping' = [stepping EXCEPT ![s] = FALSE]
  /\ pending' = [pending EXCEPT ![s] = FALSE]
  /\ UNCHANGED <<context_mutex, main_thread>>

\* inf_sasl_context_session_feed; inf_xmpp_connection_sasl_request asks
\* inf_sasl_context_session_is_processing first.
Feed(s) ==
  /\ main_thread = Looping /\ live[s] /\ ~stepping[s]
  /\ Spend(s, "feed")
  /\ stepping' = [stepping EXCEPT ![s] = TRUE]
  /\ Push(s, "step")
  /\ UNCHANGED <<live, thread, session_status, dispatch, pending, context_mutex, main_thread>>

\* inf_sasl_context_session_message_func in the main thread: QUERY.  The application's
\* callback has the property to answer for.
Query(s) ==
  /\ main_thread = Looping /\ context_mutex = Nobody /\ dispatch[s] = "query"
  /\ dispatch' = [dispatch EXCEPT ![s] = "none"]
  /\ pending' = [pending EXCEPT ![s] = TRUE]
  /\ UNCHANGED <<live, thread, session_status, session_queue, stepping, context_mutex, spare, main_thread>>

\* inf_sasl_context_session_continue
Continue(s) ==
  /\ main_thread = Looping /\ live[s] /\ pending[s]
  /\ pending' = [pending EXCEPT ![s] = FALSE]
  /\ Push(s, "continue")
  /\ UNCHANGED <<live, thread, session_status, dispatch, stepping, context_mutex, spare, main_thread>>

\* inf_sasl_context_session_message_func in the main thread: STEPPED
Stepped(s) ==
  /\ main_thread = Looping /\ context_mutex = Nobody /\ dispatch[s] = "stepped"
  /\ dispatch' = [dispatch EXCEPT ![s] = "none"]
  /\ stepping' = [stepping EXCEPT ![s] = FALSE]
  /\ UNCHANGED <<live, thread, session_status, session_queue, pending, context_mutex, spare, main_thread>>

\* inf_sasl_context_stop_session, from its first use of the mutex to the push, the end of
\* the thread, and the session's end; inf_sasl_context_unref does so with every session.
StopSession(s) ==
  /\ main_thread = Looping /\ context_mutex = Nobody /\ live[s]
  /\ main_thread' = <<"stop", s>>
  /\ UNCHANGED <<live, thread, session_status, session_queue, dispatch, stepping, pending, context_mutex, spare>>

StopPush(s) ==
  /\ main_thread = <<"stop", s>>
  /\ main_thread' = <<"join", s>>
  /\ Push(s, "terminate")
  /\ UNCHANGED <<live, thread, session_status, dispatch, stepping, pending, context_mutex, spare>>

\* A bug: the dispatch of the session is not removed.
StopJoinOnly(s) ==
  /\ main_thread = <<"join", s>> /\ thread[s] = "gone" /\ context_mutex = Nobody
  /\ main_thread' = Looping
  /\ At(s, "none")
  /\ live' = [live EXCEPT ![s] = FALSE]
  /\ UNCHANGED <<session_status, session_queue, dispatch, stepping, pending, context_mutex, spare>>

StopJoin(s) ==
  /\ main_thread = <<"join", s>> /\ thread[s] = "gone" /\ context_mutex = Nobody
  /\ main_thread' = Looping
  /\ At(s, "none")
  /\ live' = [live EXCEPT ![s] = FALSE]
  /\ dispatch' = [dispatch EXCEPT ![s] = "none"]
  /\ UNCHANGED <<session_status, session_queue, stepping, pending, context_mutex, spare>>

(***************************************************************************)
(* The session's thread: inf_sasl_context_thread_func                      *)
(***************************************************************************)
\* inf_sasl_context_session_message_func in the session's thread: TERMINATE, STEP
Outer(s) ==
  /\ thread[s] = "outer" /\ session_queue[s] # <<>>
  /\ Pop(s)
  /\ \/ /\ Head(session_queue[s]) = "terminate"
        /\ session_status' = [session_status EXCEPT ![s] = "terminate"] /\ At(s, "gone")
     \/ /\ Head(session_queue[s]) = "step"
        /\ session_status' = [session_status EXCEPT ![s] = "inner"] /\ At(s, "lock")
  /\ UNCHANGED <<live, dispatch, stepping, pending, context_mutex, spare, main_thread>>

Lock(s) ==
  /\ thread[s] = "lock" /\ context_mutex = Nobody
  /\ spare' = [spare EXCEPT ![s].ask = Bounds[s].ask]
  /\ context_mutex' = s /\ At(s, "step")
  /\ UNCHANGED <<live, session_status, session_queue, dispatch, stepping, pending, main_thread>>

\* inf_sasl_context_gsasl_callback, up to the wait; it returns at once from a session that
\* terminates.
Callback(s) ==
  /\ thread[s] = "step" /\ session_status[s] = "inner"
  /\ Spend(s, "ask")
  /\ dispatch' = [dispatch EXCEPT ![s] = "query"]
  /\ context_mutex' = Nobody /\ At(s, "asking")
  /\ UNCHANGED <<live, session_status, session_queue, stepping, pending, main_thread>>

\* A bug: the callback's loop waits for the answer only and leaves the other message.
AnsweredLoop(s) ==
  /\ thread[s] = "asking" /\ session_queue[s] # <<>>
  /\ \/ Head(session_queue[s]) = "terminate" /\ UNCHANGED <<session_queue, thread>>
     \/ Head(session_queue[s]) = "continue" /\ Pop(s) /\ At(s, "relock")
  /\ UNCHANGED <<live, session_status, dispatch, stepping, pending, context_mutex, spare, main_thread>>

\* Its loop: CONTINUE, TERMINATE
Answered(s) ==
  /\ thread[s] = "asking" /\ session_queue[s] # <<>>
  /\ Pop(s)
  /\ \/ /\ Head(session_queue[s]) = "terminate"
        /\ session_status' = [session_status EXCEPT ![s] = "terminate"] /\ At(s, "relock")
     \/ /\ Head(session_queue[s]) = "continue"
        /\ At(s, "relock") /\ UNCHANGED session_status
  /\ UNCHANGED <<live, dispatch, stepping, pending, context_mutex, spare, main_thread>>

Relock(s) ==
  /\ thread[s] = "relock" /\ context_mutex = Nobody
  /\ context_mutex' = s /\ At(s, "step")
  /\ UNCHANGED <<live, session_status, session_queue, dispatch, stepping, pending, spare, main_thread>>

\* gsasl_step64 returns.
StepDone(s) ==
  /\ thread[s] = "step"
  /\ context_mutex' = Nobody
  /\ \/ /\ session_status[s] = "terminate" /\ At(s, "gone") /\ UNCHANGED session_status
     \/ /\ session_status[s] # "terminate" /\ At(s, "post")
        /\ session_status' = [session_status EXCEPT ![s] = "outer"]
  /\ UNCHANGED <<live, session_queue, dispatch, stepping, pending, spare, main_thread>>

\* The result is given to the main loop.
Post(s) ==
  /\ thread[s] = "post" /\ context_mutex = Nobody
  /\ dispatch' = [dispatch EXCEPT ![s] = "stepped"]
  /\ At(s, "outer")
  /\ UNCHANGED <<live, session_status, session_queue, stepping, pending, context_mutex, spare, main_thread>>

SaslNext ==
  \E s \in Sessions :
    \/ StartSession(s) \/ Feed(s) \/ Query(s) \/ Continue(s) \/ Stepped(s)
    \/ StopSession(s) \/ StopPush(s) \/ StopJoin(s)
    \/ Outer(s) \/ Lock(s) \/ Callback(s) \/ Answered(s) \/ Relock(s) \/ StepDone(s) \/ Post(s)

Stop(s) == StopPush(s) \/ StopJoin(s)
Thread(s) == Outer(s) \/ Answered(s) \/ Lock(s) \/ Relock(s) \/ Post(s)
Serve(s) == Query(s) \/ Continue(s) \/ Stepped(s)

\* Both threads run, and get the mutex unless somebody else always has it; the
\* application answers.
SaslFairness ==
  \A s \in Sessions :
    /\ WF_saslVars(Stop(s)) /\ WF_saslVars(Thread(s))
    /\ WF_saslVars(StepDone(s)) /\ WF_saslVars(Serve(s))
SaslSpec == SaslInit /\ [][SaslNext]_saslVars /\ SaslFairness

(***************************************************************************)
(* What the context promises                                               *)
(***************************************************************************)
SaslTypeOK ==
  /\ live \in [Sessions -> BOOLEAN]
  /\ thread \in [Sessions -> {"none", "outer", "lock", "step", "asking", "relock", "post", "gone"}]
  /\ session_status \in [Sessions -> {"outer", "inner", "terminate"}]
  /\ session_queue \in [Sessions -> Seq({"step", "continue", "terminate"})]
  /\ dispatch \in [Sessions -> {"none", "query", "stepped"}]
  /\ stepping \in [Sessions -> BOOLEAN]
  /\ pending \in [Sessions -> BOOLEAN]
  /\ context_mutex \in Sessions \cup {Nobody}
  /\ main_thread \in {Looping} \cup ({"stop", "join"} \X Sessions)

\* Once inf_sasl_context_stop_session has returned, neither the thread nor the main loop
\* refers to the session.
NothingLeftBehind ==
  \A s \in Sessions : ~live[s] => thread[s] = "none" /\ dispatch[s] = "none"

\* The assertions of the two message functions, the callback and the thread function hold: a
\* message comes in the state that expects it, and a session has one dispatch at a time.
Expected(s) ==
  /\ thread[s] = "outer" /\ session_queue[s] # <<>> =>
       Head(session_queue[s]) = "terminate" \/ (Head(session_queue[s]) = "step" /\ session_status[s] = "outer")
  /\ thread[s] = "asking" /\ session_queue[s] # <<>> =>
       Head(session_queue[s]) = "terminate" \/ (Head(session_queue[s]) = "continue" /\ session_status[s] = "inner")
  /\ thread[s] \in {"lock", "step", "post"} /\ session_status[s] # "terminate" => dispatch[s] = "none"
  /\ dispatch[s] = "stepped" => stepping[s]
  /\ thread[s] = "lock" => session_status[s] = "inner"

MessagesExpected == \A s \in Sessions : Expected(s)

\* No thread and no dispatch is left of a session that is gone, and the messages of the two
\* threads come when they are expected.
SaslSound == NothingLeftBehind /\ MessagesExpected

\* The main thread is never stuck in inf_sasl_context_stop_session, and what a session is
\* fed is answered unless the session is stopped.
StopReturns == main_thread # Looping ~> main_thread = Looping
FeedAnswered == \A s \in Sessions : stepping[s] ~> ~stepping[s] \/ ~live[s]
=============================================================================
