----------------------------- MODULE StandaloneIo -----------------------------
(***************************************************************************)
(* The main loop, inf-standalone-io.c: watches on sockets, timeouts and    *)
(* dispatches, a mutex that is released while the loop polls and while it  *)
(* runs a callback, and a pipe that wakes the loop up.  Callbacks run in   *)
(* the loop's thread; any thread may add and remove.  The elements of      *)
(* priv->events and priv->watches are numbered from 1, without the pipe.   *)
(***************************************************************************)
EXTENDS Naturals, Sequences, SequencesExt, FiniteSets

CONSTANTS Watches, Timeouts, Dispatchs,  \* each of them is added once at most
          Foreign,                       \* what other threads add and remove
          Arrivals                       \* how often a socket becomes ready

VARIABLES events,     \* priv->events: [sock, rev], the socket, and the one whose
                      \* event revents holds
          watches,    \* priv->watches
          timeouts,   \* priv->timeouts
          dispatchs,  \* priv->dispatchs
          polling,
          running,    \* "forever" in loop, "once" in iteration; "no" when told to quit
          pipe,       \* bytes in the wakeup pipe
          pc,         \* the loop: "out", "top", "poll", "back" from poll, "call";
                      \* "gone" when finalized
          poll,       \* what poll was called with, and what it returned
          cur,        \* the callback that runs
          disposed,   \* the watch that runs was removed
          life,       \* of each object: "none", "added" or "freed"
          due,        \* the timeouts whose time has come
          ready,      \* the sockets with an event
          arrivals    \* how often a socket may still become ready
loopVars == <<events, watches, timeouts, dispatchs, polling, running, pipe, pc, poll, cur, disposed,
              life, due, ready, arrivals>>

Objects == Watches \union Timeouts \union Dispatchs
Nothing == [socks |-> <<>>, wait |-> "zero", armed |-> {}, result |-> 0]
NoCall == [kind |-> "none", id |-> "none", own |-> TRUE]

LoopInit ==
  /\ events = <<>> /\ watches = <<>> /\ timeouts = <<>> /\ dispatchs = <<>>
  /\ polling = FALSE /\ running = "no" /\ pipe = 0 /\ pc = "out"
  /\ poll = Nothing /\ cur = NoCall /\ disposed = FALSE
  /\ life = [x \in Objects |-> "none"] /\ due = {} /\ ready = {} /\ arrivals = Arrivals

\* The mutex is free, and a thread that may use kind runs: the loop's thread is
\* in a callback or outside the loop, the others always run.
Free(kind) == pc \in {"out", "call"} \/ (pc \in {"poll", "back"} /\ kind \in Foreign)

\* A variant for the mutation checks: a loop that is about to poll is not woken.
WakeupLate == pipe' = IF pc = "poll" /\ poll.wait = "zero" THEN pipe + 1 ELSE pipe

\* inf_standalone_io_wakeup
Wakeup == pipe' = IF polling THEN pipe + 1 ELSE pipe

(***************************************************************************)
(* Adding and removing                                                     *)
(***************************************************************************)
\* inf_standalone_io_io_add_watch
IoAddWatch(w) ==
  /\ Free("watch") /\ life[w] = "none"
  /\ events' = Append(events, [sock |-> w, rev |-> "none"])
  /\ watches' = Append(watches, w)
  /\ life' = [life EXCEPT ![w] = "added"]
  /\ Wakeup
  /\ UNCHANGED <<timeouts, dispatchs, polling, running, pc, poll, cur, disposed, due, ready, arrivals>>

\* inf_standalone_io_io_update_watch: what is waited for; here, the loop starts over.
IoUpdateWatch(w) ==
  /\ Free("watch") /\ w \in Range(watches) /\ polling /\ pipe = 0
  /\ Wakeup
  /\ UNCHANGED <<events, watches, timeouts, dispatchs, polling, running, pc, poll, cur, disposed,
                 life, due, ready, arrivals>>

\* Without x; and with the last element in the place of the one at i, as
\* inf_standalone_io_io_remove_watch fills the gap of a watch.
Without(s, x) == RemoveAt(s, CHOOSE i \in DOMAIN s : s[i] = x)
Filled(s, i) == SubSeq([s EXCEPT ![i] = s[Len(s)]], 1, Len(s) - 1)

\* A variant for the mutation checks: the watch is freed although it runs.
IoRemoveWatchNow(w) ==
  /\ Free("watch") /\ w \in Range(watches)
  /\ LET i == CHOOSE i \in DOMAIN watches : watches[i] = w
     IN  /\ events' = RemoveAt(events, i) /\ watches' = RemoveAt(watches, i)
         /\ life' = [life EXCEPT ![w] = "freed"]
  /\ Wakeup
  /\ UNCHANGED <<timeouts, dispatchs, polling, running, pc, poll, cur, disposed, due, ready, arrivals>>

\* inf_standalone_io_io_remove_watch: the last watch takes the place of the
\* removed one; the watch that runs is freed when it has run.
IoRemoveWatch(w) ==
  /\ Free("watch") /\ w \in Range(watches)
  /\ LET i == CHOOSE i \in DOMAIN watches : watches[i] = w
         executing == cur.kind = "watch" /\ cur.id = w
     IN  /\ events' = Filled(events, i) /\ watches' = Filled(watches, i)
         /\ disposed' = (disposed \/ executing)
         /\ life' = IF executing THEN life ELSE [life EXCEPT ![w] = "freed"]
  /\ Wakeup
  /\ UNCHANGED <<timeouts, dispatchs, polling, running, pc, poll, cur, due, ready, arrivals>>

\* inf_standalone_io_io_add_timeout, _remove_timeout: one that is being called
\* is no longer in the list, and not removed.
IoAddTimeout(t) ==
  /\ Free("timeout") /\ life[t] = "none"
  /\ timeouts' = <<t>> \o timeouts
  /\ life' = [life EXCEPT ![t] = "added"]
  /\ Wakeup
  /\ UNCHANGED <<events, watches, dispatchs, polling, running, pc, poll, cur, disposed, due, ready, arrivals>>
IoRemoveTimeout(t) ==
  /\ Free("timeout") /\ t \in Range(timeouts)
  /\ timeouts' = Without(timeouts, t)
  /\ life' = [life EXCEPT ![t] = "freed"]
  /\ UNCHANGED <<events, watches, dispatchs, polling, running, pipe, pc, poll, cur, disposed, due, ready,
                 arrivals>>

\* inf_standalone_io_io_add_dispatch, _remove_dispatch
IoAddDispatch(d) ==
  /\ Free("dispatch") /\ life[d] = "none"
  /\ dispatchs' = <<d>> \o dispatchs
  /\ life' = [life EXCEPT ![d] = "added"]
  /\ Wakeup
  /\ UNCHANGED <<events, watches, timeouts, polling, running, pc, poll, cur, disposed, due, ready, arrivals>>
IoRemoveDispatch(d) ==
  /\ Free("dispatch") /\ d \in Range(dispatchs)
  /\ dispatchs' = Without(dispatchs, d)
  /\ life' = [life EXCEPT ![d] = "freed"]
  /\ UNCHANGED <<events, watches, timeouts, polling, running, pipe, pc, poll, cur, disposed, due, ready,
                 arrivals>>

(***************************************************************************)
(* The loop                                                                *)
(***************************************************************************)
\* inf_standalone_io_loop, inf_standalone_io_iteration
RunLoop(how) ==
  /\ pc = "out"
  /\ pc' = "top" /\ running' = how
  /\ UNCHANGED <<events, watches, timeouts, dispatchs, polling, pipe, poll, cur, disposed, life, due, ready,
                 arrivals>>

\* inf_standalone_io_loop_quit
LoopQuit ==
  /\ Free("dispatch") /\ running = "forever"
  /\ running' = "no" /\ Wakeup
  /\ UNCHANGED <<events, watches, timeouts, dispatchs, polling, pc, poll, cur, disposed, life, due, ready,
                 arrivals>>

\* inf_standalone_io_iteration_impl up to poll: how long to wait.
Enter ==
  /\ pc = "top"
  /\ pc' = "poll" /\ polling' = TRUE
  /\ poll' = [socks |-> [i \in DOMAIN events |-> events[i].sock],
              wait |-> IF dispatchs # <<>> \/ Range(timeouts) \intersect due # {} THEN "zero"
                       ELSE IF timeouts # <<>> THEN "finite" ELSE "infinite",
              armed |-> Range(timeouts), result |-> 0]
  /\ UNCHANGED <<events, watches, timeouts, dispatchs, running, pipe, cur, disposed, life, due, ready, arrivals>>

\* poll returns.  It writes revents into the array it was given, by position.
PollReturns ==
  LET hit == {i \in DOMAIN poll.socks : poll.socks[i] \in ready}
      n == Cardinality(hit) + (IF pipe > 0 THEN 1 ELSE 0)
  IN  /\ pc = "poll"
      /\ n > 0 \/ poll.wait = "zero" \/ poll.armed \intersect due # {}
      /\ events' = [i \in DOMAIN events |-> [events[i] EXCEPT !.rev = IF i \in hit THEN poll.socks[i] ELSE "none"]]
      /\ poll' = [poll EXCEPT !.result = n]
      /\ pc' = "back"
      /\ UNCHANGED <<watches, timeouts, dispatchs, polling, running, pipe, cur, disposed, life, due, ready,
                     arrivals>>

\* The loop calls x, or does nothing, and releases the mutex.
Call(kind, x, own) == /\ cur' = [kind |-> kind, id |-> x, own |-> own]
                      /\ pc' = "call"
NextIteration == IF running = "forever" THEN "top" ELSE "out"

\* poll was interrupted: nothing is done.
Interrupted ==
  /\ pc = "back" /\ poll.result = 0 /\ poll.wait # "zero" /\ poll.armed \intersect due = {}
  /\ polling' = FALSE /\ pc' = NextIteration
  /\ UNCHANGED <<events, watches, timeouts, dispatchs, running, pipe, poll, cur, disposed, life, due, ready,
                 arrivals>>
Interrupt ==
  /\ pc = "poll" /\ arrivals > 0
  /\ arrivals' = arrivals - 1
  /\ poll' = [poll EXCEPT !.result = 0, !.wait = "infinite", !.armed = {}]
  /\ pc' = "back"
  /\ UNCHANGED <<events, watches, timeouts, dispatchs, polling, running, pipe, cur, disposed, life, due, ready>>

\* The rest of inf_standalone_io_iteration_impl: the first timeout that is due
\* if poll saw nothing, else the first watch with an event, after the byte of
\* the pipe; else the newest dispatch.
Handle ==
  LET over == {i \in DOMAIN timeouts : poll.result = 0 /\ timeouts[i] \in due}
      hit == {i \in DOMAIN events : poll.result > 0 /\ events[i].rev # "none"}
      First(S) == CHOOSE i \in S : \A j \in S : i <= j
      w == watches[First(hit)]
  IN  /\ pc = "back" /\ (poll.result > 0 \/ poll.wait = "zero" \/ poll.armed \intersect due # {})
      /\ polling' = FALSE
      /\ pipe' = IF poll.result > 0 /\ pipe > 0 THEN pipe - 1 ELSE pipe
      /\ IF over # {}
         THEN /\ Call("timeout", timeouts[First(over)], TRUE)
              /\ timeouts' = RemoveAt(timeouts, First(over))
              /\ UNCHANGED <<events, dispatchs>>
         ELSE IF hit # {}
         THEN /\ Call("watch", w, events[First(hit)].rev = w)
              /\ events' = [events EXCEPT ![First(hit)].rev = "none"]
              /\ UNCHANGED <<timeouts, dispatchs>>
         ELSE IF dispatchs # <<>>
         THEN /\ Call("dispatch", Head(dispatchs), TRUE)
              /\ dispatchs' = Tail(dispatchs)
              /\ UNCHANGED <<events, timeouts>>
         ELSE pc' = NextIteration /\ UNCHANGED <<events, timeouts, dispatchs, cur>>
      /\ UNCHANGED <<watches, running, poll, disposed, life, due, ready, arrivals>>

\* The callback returns; what is called once only, or was removed meanwhile, is freed.
Return ==
  /\ pc = "call"
  /\ pc' = NextIteration /\ cur' = NoCall /\ disposed' = FALSE
  /\ life' = IF cur.kind # "watch" \/ disposed THEN [life EXCEPT ![cur.id] = "freed"] ELSE life
  /\ ready' = IF cur.kind = "watch" THEN ready \ {cur.id} ELSE ready
  /\ UNCHANGED <<events, watches, timeouts, dispatchs, polling, running, pipe, poll, due, arrivals>>

\* inf_standalone_io_finalize
Finalize ==
  /\ pc = "out"
  /\ pc' = "gone" /\ events' = <<>> /\ watches' = <<>> /\ timeouts' = <<>> /\ dispatchs' = <<>>
  /\ life' = [x \in Objects |-> IF life[x] = "added" THEN "freed" ELSE life[x]]
  /\ UNCHANGED <<polling, running, pipe, poll, cur, disposed, due, ready, arrivals>>

\* The world: a socket becomes ready, the time of a timeout comes.
Arrive(w) ==
  /\ arrivals > 0 /\ w \notin ready /\ life[w] = "added"
  /\ ready' = ready \union {w} /\ arrivals' = arrivals - 1
  /\ UNCHANGED <<events, watches, timeouts, dispatchs, polling, running, pipe, pc, poll, cur, disposed, life, due>>
Expire(t) ==
  /\ life[t] = "added" /\ t \notin due
  /\ due' = due \union {t}
  /\ UNCHANGED <<events, watches, timeouts, dispatchs, polling, running, pipe, pc, poll, cur, disposed, life,
                 ready, arrivals>>

Step == Enter \/ PollReturns \/ Interrupted \/ Handle \/ Return
LoopNext ==
  \/ Step \/ RunLoop("forever") \/ RunLoop("once") \/ LoopQuit \/ Finalize \/ Interrupt
  \/ \E w \in Watches : IoAddWatch(w) \/ IoUpdateWatch(w) \/ IoRemoveWatch(w) \/ Arrive(w)
  \/ \E t \in Timeouts : IoAddTimeout(t) \/ IoRemoveTimeout(t) \/ Expire(t)
  \/ \E d \in Dispatchs : IoAddDispatch(d) \/ IoRemoveDispatch(d)
LoopFairness == WF_loopVars(Step) /\ \A t \in Timeouts : WF_loopVars(Expire(t))
LoopSpec == LoopInit /\ [][LoopNext]_loopVars /\ LoopFairness

(***************************************************************************)
(* Properties                                                              *)
(***************************************************************************)
\* A loop that waits in poll will be woken if there is anything it does not
\* wait for: a dispatch, another timeout or watch, the order to quit.
Woken == pc = "poll" /\ poll.wait # "zero" =>
  \/ pipe > 0
  \/ /\ running # "no" /\ dispatchs = <<>> /\ Range(timeouts) \subseteq poll.armed
     /\ Range(watches) \subseteq Range(poll.socks)

\* A watch is called for an event of its own socket.
OwnEvents == cur.own

\* A callback that runs, and everything in the lists, is not freed; everything
\* that is not freed is in a list or runs; the two arrays go together, and a
\* watch is called for an event of its own socket.
ListsSound ==
  LET held == Range(watches) \union Range(timeouts) \union Range(dispatchs) \union ({cur.id} \ {"none"})
  IN  /\ held = {x \in Objects : life[x] = "added"}
      /\ \A i \in DOMAIN watches : events[i].sock = watches[i]
      /\ OwnEvents

\* The loop is woken for whatever it does not wait for, and calls, keeps and
\* frees exactly what is in its lists.
LoopSound == Woken /\ ListsSound

\* While the loop runs, a dispatch that was added is called or removed, and the
\* loop ends after it was told to.
LoopServes ==
  /\ \A d \in Dispatchs : running = "forever" /\ life[d] = "added" ~> running # "forever" \/ life[d] = "freed"
  /\ pc \notin {"out", "gone"} /\ running = "no" ~> pc \in {"out", "gone"}
===============================================================================
