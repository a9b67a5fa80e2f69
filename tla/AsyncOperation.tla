--------------------------- MODULE AsyncOperation ---------------------------
(* InfAsyncOperation: code that runs in a worker thread and hands its result *)
(* to the main thread, through a dispatch of the main loop's InfIo.  The     *)
(* worker of each operation and the main thread, which runs the owners and   *)
(* the main loop, share the operation's memory and its mutex.  Main may      *)
(* cancel at any time until it has dispatched the result.                    *)
CONSTANT Ops   \* the operations, all with the same InfIo

VARIABLES
  memory,     \* of each InfAsyncOperation: "none", "allocated" or "freed"
  field,      \* whether its fields io, dispatch and thread are not NULL
  mutex,      \* who holds it: "nobody", "main", "worker"; "none" if not initialized
  worker,     \* where the worker of each operation is
  main,       \* in which function for each operation the main thread is
  status,     \* what the owner knows of each operation
  result,     \* of run_func: "none", "held", "destroyed" by run_notify
  queue,      \* the dispatches the main loop has still to run
  weak,       \* the operations with a weak reference to the InfIo
  io_alive,   \* the InfIo still exists
  aborted     \* g_error was called

vars == <<memory, field, mutex, worker, main, status, result, queue, weak, io_alive, aborted>>

(* Main is in its loop, or an owner runs: called by the loop, or by          *)
(* done_func of some operation.                                              *)
Idle == \A o \in Ops : main[o] = "none"
OwnerRuns == \A o \in Ops : main[o] \in {"none", "calling"}

Init ==
  /\ memory = [o \in Ops |-> "none"]
  /\ field = [o \in Ops |-> [io |-> FALSE, dispatch |-> FALSE, thread |-> FALSE]]
  /\ mutex = [o \in Ops |-> "none"]
  /\ worker = [o \in Ops |-> "none"]
  /\ main = [o \in Ops |-> "none"]
  /\ status = [o \in Ops |-> "unknown"]
  /\ result = [o \in Ops |-> "none"]
  /\ queue = {} /\ weak = {} /\ io_alive = TRUE /\ aborted = FALSE

-----------------------------------------------------------------------------
(* inf_async_operation_new                                                   *)
New(o) ==
  /\ OwnerRuns /\ status[o] = "unknown" /\ io_alive
  /\ status' = [status EXCEPT ![o] = "new"]
  /\ memory' = [memory EXCEPT ![o] = "allocated"]
  /\ field' = [field EXCEPT ![o].io = TRUE]
  /\ weak' = weak \cup {o}
  /\ UNCHANGED <<mutex, worker, main, result, queue, io_alive, aborted>>

(* inf_async_operation_start up to the creation of the thread, which then    *)
(* runs while op->thread is not assigned yet ...                             *)
Start(o) ==
  /\ OwnerRuns /\ status[o] = "new"
  /\ mutex' = [mutex EXCEPT ![o] = "main"]
  /\ main' = [main EXCEPT ![o] = "starting"]
  /\ worker' = [worker EXCEPT ![o] = "running"]
  /\ status' = [status EXCEPT ![o] = "running"]
  /\ UNCHANGED <<memory, field, result, queue, weak, io_alive, aborted>>

Started(o) ==
  /\ main[o] = "starting"
  /\ field' = [field EXCEPT ![o].thread = TRUE]
  /\ mutex' = [mutex EXCEPT ![o] = "nobody"]
  /\ main' = [main EXCEPT ![o] = "none"]
  /\ UNCHANGED <<memory, worker, status, result, queue, weak, io_alive, aborted>>

(* ... or fails; the operation is freed with the mutex cleared again.        *)
StartFails(o) ==
  /\ OwnerRuns /\ status[o] = "new"
  /\ status' = [status EXCEPT ![o] = "refused"]
  /\ memory' = [memory EXCEPT ![o] = "freed"]
  /\ weak' = weak \ {o}
  /\ UNCHANGED <<field, mutex, worker, main, result, queue, io_alive, aborted>>

-----------------------------------------------------------------------------
(* inf_async_operation_thread_start: run_func computes a result,             *)
Run(o) ==
  /\ worker[o] = "running"
  /\ worker' = [worker EXCEPT ![o] = "computed"]
  /\ result' = [result EXCEPT ![o] = "held"]
  /\ UNCHANGED <<memory, field, mutex, main, status, queue, weak, io_alive, aborted>>

LockWorker(o) ==
  /\ worker[o] = "computed" /\ mutex[o] = "nobody"
  /\ worker' = [worker EXCEPT ![o] = "locked"]
  /\ mutex' = [mutex EXCEPT ![o] = "worker"]
  /\ UNCHANGED <<memory, field, main, status, result, queue, weak, io_alive, aborted>>

(* and if the operation was not cancelled, a dispatch is given to the InfIo. *)
(* The main loop may take it before op->dispatch is assigned.                *)
AddDispatch(o) ==
  /\ worker[o] = "locked" /\ field[o].io
  /\ worker' = [worker EXCEPT ![o] = "added"]
  /\ queue' = queue \cup {o}
  /\ UNCHANGED <<memory, field, mutex, main, status, result, weak, io_alive, aborted>>

AssignDispatch(o) ==
  /\ worker[o] = "added"
  /\ worker' = [worker EXCEPT ![o] = "exited"]
  /\ field' = [field EXCEPT ![o].dispatch = TRUE]
  /\ mutex' = [mutex EXCEPT ![o] = "nobody"]
  /\ UNCHANGED <<memory, main, status, result, queue, weak, io_alive, aborted>>

(* Otherwise the worker destroys the result and frees the operation.         *)
Discard(o) ==
  /\ worker[o] = "locked" /\ ~field[o].io
  /\ worker' = [worker EXCEPT ![o] = "unlocked"]
  /\ result' = [result EXCEPT ![o] = "destroyed"]
  /\ mutex' = [mutex EXCEPT ![o] = "nobody"]
  /\ UNCHANGED <<memory, field, main, status, queue, weak, io_alive, aborted>>

FreeByWorker(o) ==
  /\ worker[o] = "unlocked"
  /\ worker' = [worker EXCEPT ![o] = "exited"]
  /\ mutex' = [mutex EXCEPT ![o] = "none"]
  /\ memory' = [memory EXCEPT ![o] = "freed"]
  /\ UNCHANGED <<field, main, status, result, queue, weak, io_alive, aborted>>

-----------------------------------------------------------------------------
(* The main loop takes a dispatch and calls inf_async_operation_dispatch.    *)
TakeDispatch(o) ==
  /\ Idle /\ o \in queue
  /\ queue' = queue \ {o}
  /\ main' = [main EXCEPT ![o] = "dispatching"]
  /\ UNCHANGED <<memory, field, mutex, worker, status, result, weak, io_alive, aborted>>

ClearDispatchUnlocked(o) ==   \* mistake: the mutex is not locked
  /\ main[o] = "dispatching"
  /\ field' = [field EXCEPT ![o].dispatch = FALSE]
  /\ main' = [main EXCEPT ![o] = "dispatched"]
  /\ UNCHANGED <<memory, mutex, worker, status, result, queue, weak, io_alive, aborted>>

(* op->dispatch is reset with the mutex locked.                              *)
ClearDispatch(o) ==
  /\ main[o] = "dispatching" /\ mutex[o] = "nobody"
  /\ field' = [field EXCEPT ![o].dispatch = FALSE]
  /\ main' = [main EXCEPT ![o] = "dispatched"]
  /\ UNCHANGED <<memory, mutex, worker, status, result, queue, weak, io_alive, aborted>>

(* done_func is called with the result,                                      *)
Done(o) ==
  /\ main[o] = "dispatched"
  /\ status' = [status EXCEPT ![o] = "done"]
  /\ main' = [main EXCEPT ![o] = "calling"]
  /\ UNCHANGED <<memory, field, mutex, worker, result, queue, weak, io_alive, aborted>>

(* which is then destroyed, and the operation freed as one without a thread. *)
FreeDone(o) ==
  /\ main[o] = "calling" /\ OwnerRuns
  /\ result' = [result EXCEPT ![o] = "destroyed"]
  /\ field' = [field EXCEPT ![o].thread = FALSE]
  /\ mutex' = [mutex EXCEPT ![o] = "none"]
  /\ weak' = weak \ {o}
  /\ memory' = [memory EXCEPT ![o] = "freed"]
  /\ main' = [main EXCEPT ![o] = "none"]
  /\ UNCHANGED <<worker, status, queue, io_alive, aborted>>

-----------------------------------------------------------------------------
(* inf_async_operation_free, called by the owner.  The operation was not     *)
(* started,                                                                  *)
FreeNew(o) ==
  /\ OwnerRuns /\ status[o] \in {"new", "running"} /\ ~field[o].thread
  /\ status' = [status EXCEPT ![o] = "cancelled"]
  /\ weak' = weak \ {o}
  /\ memory' = [memory EXCEPT ![o] = "freed"]
  /\ UNCHANGED <<field, mutex, worker, main, result, queue, io_alive, aborted>>

(* or it runs, and main waits for the mutex.                                 *)
FreeStarted(o) ==
  /\ OwnerRuns /\ status[o] \in {"new", "running"} /\ field[o].thread
  /\ main' = [main EXCEPT ![o] = "locking"]
  /\ UNCHANGED <<memory, field, mutex, worker, status, result, queue, weak, io_alive, aborted>>

LockMain(o) ==
  /\ main[o] = "locking" /\ mutex[o] = "nobody"
  /\ mutex' = [mutex EXCEPT ![o] = "main"]
  /\ main' = [main EXCEPT ![o] = "freeing"]
  /\ UNCHANGED <<memory, field, worker, status, result, queue, weak, io_alive, aborted>>

FreeRunningLocked(o) ==   \* mistake: the mutex stays locked
  /\ main[o] = "freeing" /\ ~field[o].dispatch
  /\ status' = [status EXCEPT ![o] = "cancelled"]
  /\ weak' = weak \ {o}
  /\ field' = [field EXCEPT ![o].io = FALSE]
  /\ main' = [main EXCEPT ![o] = "none"]
  /\ UNCHANGED <<memory, mutex, worker, result, queue, io_alive, aborted>>

(* The worker has not given its result to the main loop: it will free the    *)
(* operation and must not use the InfIo any more.                            *)
FreeRunning(o) ==
  /\ main[o] = "freeing" /\ ~field[o].dispatch
  /\ status' = [status EXCEPT ![o] = "cancelled"]
  /\ weak' = weak \ {o}
  /\ field' = [field EXCEPT ![o].io = FALSE]
  /\ mutex' = [mutex EXCEPT ![o] = "nobody"]
  /\ main' = [main EXCEPT ![o] = "none"]
  /\ UNCHANGED <<memory, worker, result, queue, io_alive, aborted>>

FreeFinishedKeepsDispatch(o) ==   \* mistake: the dispatch is not removed
  /\ main[o] = "freeing" /\ field[o].dispatch
  /\ status' = [status EXCEPT ![o] = "cancelled"]
  /\ result' = [result EXCEPT ![o] = "destroyed"]
  /\ mutex' = [mutex EXCEPT ![o] = "nobody"]
  /\ memory' = [memory EXCEPT ![o] = "freed"]
  /\ main' = [main EXCEPT ![o] = "none"]
  /\ UNCHANGED <<field, worker, queue, weak, io_alive, aborted>>

(* The dispatch waits in the main loop: it is removed, and the operation is  *)
(* freed here.  The weak reference to the InfIo is not removed.              *)
FreeFinished(o) ==
  /\ main[o] = "freeing" /\ field[o].dispatch
  /\ status' = [status EXCEPT ![o] = "cancelled"]
  /\ queue' = queue \ {o}
  /\ result' = [result EXCEPT ![o] = "destroyed"]
  /\ mutex' = [mutex EXCEPT ![o] = "none"]
  /\ memory' = [memory EXCEPT ![o] = "freed"]
  /\ main' = [main EXCEPT ![o] = "none"]
  /\ UNCHANGED <<field, worker, weak, io_alive, aborted>>

-----------------------------------------------------------------------------
Over == {"unknown", "done", "cancelled", "refused"}

(* The owners drop the InfIo, as documented only after each has freed its    *)
(* operation or seen it done, and not from within done_func.  If a weak      *)
(* reference is left, inf_async_operation_io_unref_func calls g_error.       *)
DropIo ==
  /\ Idle /\ io_alive /\ \A o \in Ops : status[o] \in Over
  /\ io_alive' = FALSE
  /\ aborted' = (weak # {})
  /\ UNCHANGED <<memory, field, mutex, worker, main, status, result, queue, weak>>

Worker(o) ==
  Run(o) \/ LockWorker(o) \/ AddDispatch(o) \/ AssignDispatch(o) \/ Discard(o) \/ FreeByWorker(o)
Loop(o) ==
  Started(o) \/ TakeDispatch(o) \/ ClearDispatch(o) \/ Done(o) \/ FreeDone(o)
    \/ LockMain(o) \/ FreeRunning(o) \/ FreeFinished(o)
Owner(o) == New(o) \/ Start(o) \/ StartFails(o) \/ FreeNew(o) \/ FreeStarted(o)

Next == DropIo \/ \E o \in Ops : Worker(o) \/ Loop(o) \/ Owner(o)

Spec == Init /\ [][Next]_vars

(* Threads are scheduled, run_func returns, and the main loop runs.          *)
Fairness == \A o \in Ops : WF_vars(Worker(o)) /\ WF_vars(Loop(o))

FairSpec == Spec /\ Fairness

-----------------------------------------------------------------------------
Places == {"none", "starting", "dispatching", "dispatched", "calling", "locking", "freeing"}

(* The main thread is in one function at a time, done_func aside.            *)
OneCall ==
  \A o, p \in Ops :
    o # p /\ main[o] \notin {"none", "calling"} => main[p] \in {"none", "calling"}

(* The shared data have their types, and main is in one place.               *)
TypeOK ==
  /\ memory \in [Ops -> {"none", "allocated", "freed"}]
  /\ field \in [Ops -> [io : BOOLEAN, dispatch : BOOLEAN, thread : BOOLEAN]]
  /\ mutex \in [Ops -> {"none", "nobody", "main", "worker"}]
  /\ worker \in [Ops -> {"none", "running", "computed", "locked", "added", "unlocked", "exited"}]
  /\ main \in [Ops -> Places]
  /\ status \in [Ops -> {"unknown", "new", "running", "done", "cancelled", "refused"}]
  /\ result \in [Ops -> {"none", "held", "destroyed"}]
  /\ queue \subseteq Ops /\ weak \subseteq Ops
  /\ io_alive \in BOOLEAN /\ aborted \in BOOLEAN
  /\ OneCall

(* Whoever is still going to touch an operation finds its memory allocated   *)
(* and its mutex initialized: the worker until it has exited, the main loop  *)
(* as long as a dispatch waits or runs, the owner until it has freed it.     *)
NoUseAfterFree ==
  \A o \in Ops :
    (\/ worker[o] \notin {"none", "exited"}
     \/ o \in queue \/ main[o] # "none"
     \/ status[o] = "running") => memory[o] = "allocated" /\ mutex[o] # "none"

(* A worker gives its result only to an InfIo that still exists: the owner   *)
(* may drop the InfIo as soon as inf_async_operation_free has returned.      *)
DispatchToLiveIo ==
  \A o \in Ops : (worker[o] = "locked" /\ field[o].io) \/ o \in queue => io_alive

(* The result of run_func is destroyed before the operation is freed, by     *)
(* whichever side frees it, and is still there when done_func gets it.       *)
ResultDestroyed ==
  \A o \in Ops : /\ memory[o] = "freed" => result[o] # "held"
                 /\ main[o] \in {"dispatched", "calling"} => result[o] = "held"

(* Together: the threads never touch, give away or lose what they must not.  *)
OwnershipSound == NoUseAfterFree /\ DispatchToLiveIo /\ ResultDestroyed

Promise == INSTANCE AsyncPromise

(* done_func is called once and never for an operation that was cancelled.   *)
KeepsPromise == Promise!PromiseSpec

(* No operation that was started is left behind: one side frees it.          *)
EventuallyFreed ==
  \A o \in Ops : status[o] = "running" ~> memory[o] = "freed"

=============================================================================
