----------------------- MODULE AsyncOperationProofs ------------------------
(* Proofs about asynchronous operations, for every set of operations that    *)
(* share an InfIo.                                                           *)
EXTENDS AsyncOperation, TLAPS

(* Memory that is not allocated is out of everybody's reach.                 *)
Unreachable(o) ==
  memory[o] # "allocated" =>
    /\ worker[o] \in {"none", "exited"} /\ main[o] = "none" /\ o \notin queue
    /\ result[o] # "held"
    /\ status[o] \in Over

(* The life of an operation as its owner sees it, and what the two threads   *)
(* can be doing meanwhile                                                    *)
Life(o) ==
  /\ status[o] = "unknown" => memory[o] = "none" /\ worker[o] = "none" /\ mutex[o] = "none"
  /\ status[o] = "refused" => memory[o] = "freed"
  /\ status[o] \in {"unknown", "new"} =>
       /\ main[o] = "none" /\ result[o] = "none" /\ o \notin queue
       /\ ~field[o].dispatch /\ ~field[o].thread
  /\ status[o] = "new" => worker[o] = "none" /\ field[o].io /\ io_alive
  /\ status[o] = "running" =>
       /\ worker[o] \notin {"none", "unlocked"} /\ mutex[o] # "none"
       /\ field[o].io /\ io_alive /\ main[o] # "calling"
  /\ status[o] = "done" /\ memory[o] = "allocated" => main[o] = "calling"
  /\ status[o] = "cancelled" =>
       /\ main[o] = "none" /\ o \notin queue
       /\ memory[o] = "allocated" => /\ worker[o] \in {"running", "computed", "locked", "unlocked"}
                                     /\ mutex[o] # "none"
                                     /\ ~field[o].io /\ ~field[o].dispatch

(* The mutex is held by who is in a section it protects.                     *)
Locking(o) ==
  /\ mutex[o] = "worker" <=> worker[o] \in {"locked", "added"}
  /\ mutex[o] = "main" <=> main[o] \in {"starting", "freeing"}

(* Where the main thread is tells how far the operation is.                  *)
Calls(o) ==
  /\ main[o] \notin {"none", "calling"} => status[o] = "running"
  /\ main[o] \in {"dispatched", "calling"} =>
       worker[o] = "exited" /\ mutex[o] = "nobody" /\ result[o] = "held" /\ o \notin queue
  /\ main[o] = "calling" => status[o] = "done"
  /\ main[o] = "dispatching" => worker[o] \in {"added", "exited"} /\ o \notin queue
  /\ status[o] = "running" => (field[o].thread <=> main[o] # "starting")

(* Where the worker is tells what became of its result.                      *)
Progress(o) ==
  /\ worker[o] \in {"none", "running"} => result[o] = "none"
  /\ worker[o] \in {"computed", "locked", "added"} => result[o] = "held"
  /\ worker[o] = "exited" /\ memory[o] = "allocated" => result[o] = "held"
  /\ worker[o] = "unlocked" => status[o] = "cancelled" /\ result[o] = "destroyed"
  /\ worker[o] \notin {"none", "exited"} => ~field[o].dispatch
  /\ o \in queue =>
       /\ status[o] = "running" /\ worker[o] \in {"added", "exited"}
       /\ main[o] \in {"none", "starting", "locking", "freeing"}
  /\ worker[o] \in {"added", "exited"} /\ status[o] = "running" =>
       /\ o \in queue \/ main[o] \in {"dispatching", "dispatched"}
       /\ worker[o] = "exited" => field[o].dispatch \/ main[o] = "dispatched"

OpInv(o) == Unreachable(o) /\ Life(o) /\ Locking(o) /\ Calls(o) /\ Progress(o)

IInv == TypeOK /\ \A o \in Ops : OpInv(o)

-----------------------------------------------------------------------------
(* What a step that concerns another operation leaves alone                  *)
Same(o) ==
  /\ memory'[o] = memory[o] /\ field'[o] = field[o] /\ mutex'[o] = mutex[o]
  /\ worker'[o] = worker[o] /\ main'[o] = main[o] /\ status'[o] = status[o]
  /\ result'[o] = result[o] /\ (o \in queue' <=> o \in queue) /\ io_alive' = io_alive

(* Such a step preserves the invariant of the operation.                     *)
LEMMA SamePreserves ==
  ASSUME NEW o \in Ops, OpInv(o), Same(o)
  PROVE  OpInv(o)'
BY DEF OpInv, Same, Unreachable, Life, Locking, Calls, Progress, Over

(* Initially no operation exists.                                            *)
LEMMA InitIInv == Init => IInv
<1>1. Init => TypeOK
  <2>1. Init => field \in [Ops -> [io : BOOLEAN, dispatch : BOOLEAN, thread : BOOLEAN]]
    BY DEF Init
  <2>2. Init => /\ main \in [Ops -> Places]
                /\ worker \in [Ops -> {"none", "running", "computed", "locked", "added",
                                       "unlocked", "exited"}]
    BY DEF Init, Places
  <2>3. Init => /\ memory \in [Ops -> {"none", "allocated", "freed"}]
                /\ mutex \in [Ops -> {"none", "nobody", "main", "worker"}]
                /\ status \in [Ops -> {"unknown", "new", "running", "done", "cancelled",
                                       "refused"}]
                /\ result \in [Ops -> {"none", "held", "destroyed"}]
    BY DEF Init
  <2>4. Init => /\ queue \subseteq Ops /\ weak \subseteq Ops
                /\ io_alive \in BOOLEAN /\ aborted \in BOOLEAN
                /\ OneCall
    BY DEF Init, OneCall
  <2>5. QED
    BY <2>1, <2>2, <2>3, <2>4 DEF TypeOK
<1>2. ASSUME Init, NEW o \in Ops PROVE OpInv(o)
  <2>1. Unreachable(o)
    BY <1>2 DEF Init, Unreachable, Over
  <2>2. Life(o)
    BY <1>2 DEF Init, Life
  <2>3. Locking(o) /\ Calls(o) /\ Progress(o)
    BY <1>2 DEF Init, Locking, Calls, Progress
  <2>4. QED
    BY <2>1, <2>2, <2>3 DEF OpInv
<1>3. QED
  BY <1>1, <1>2 DEF IInv

(* The fields keep their types when one of them is assigned.                 *)
Fields == [io : BOOLEAN, dispatch : BOOLEAN, thread : BOOLEAN]

LEMMA FieldsTyped ==
  ASSUME NEW f \in [Ops -> Fields], NEW o \in Ops, NEW b \in BOOLEAN
  PROVE  /\ [f EXCEPT ![o].io = b] \in [Ops -> Fields]
         /\ [f EXCEPT ![o].dispatch = b] \in [Ops -> Fields]
         /\ [f EXCEPT ![o].thread = b] \in [Ops -> Fields]
<1>1. /\ [f[o] EXCEPT !.io = b] \in Fields
      /\ [f[o] EXCEPT !.dispatch = b] \in Fields
      /\ [f[o] EXCEPT !.thread = b] \in Fields
  BY DEF Fields
<1>2. QED
  BY <1>1

(* New preserves the invariant.                                             *)
LEMMA NewPreserves ==
  ASSUME IInv, NEW o \in Ops, New(o)
  PROVE  IInv'
<1>1. TypeOK'
  <2>1. status' \in [Ops -> {"unknown", "new", "running", "done", "cancelled", "refused"}]
    BY DEF IInv, TypeOK, New
  <2>2. memory' \in [Ops -> {"none", "allocated", "freed"}]
    BY DEF IInv, TypeOK, New
  <2>3. field' \in [Ops -> [io : BOOLEAN, dispatch : BOOLEAN, thread : BOOLEAN]]
    BY FieldsTyped DEF Fields, IInv, TypeOK, New
  <2>4. weak' \subseteq Ops /\ queue' \subseteq Ops
    BY DEF IInv, TypeOK, New
  <2>5. UNCHANGED <<mutex, worker, main, result, io_alive, aborted>>
    BY DEF New
  <2>6. OneCall'
    BY DEF IInv, TypeOK, OneCall, New, OwnerRuns
  <2>7. QED
    BY <2>1, <2>2, <2>3, <2>4, <2>5, <2>6 DEF IInv, TypeOK
<1>2. OpInv(o)'
  BY DEF IInv, TypeOK, New, OwnerRuns, OpInv, Unreachable, Life,
         Locking, Calls, Progress, Over
<1>3. ASSUME NEW p \in Ops, p # o PROVE OpInv(p)'
  BY <1>3, SamePreserves DEF IInv, TypeOK, Same, New
<1>4. QED
  BY <1>1, <1>2, <1>3 DEF IInv

(* Start preserves the invariant.                                           *)
LEMMA StartPreserves ==
  ASSUME IInv, NEW o \in Ops, Start(o)
  PROVE  IInv'
<1>1. TypeOK'
  BY DEF IInv, TypeOK, OneCall, Places, Start, OwnerRuns
<1>2. OpInv(o)'
  BY DEF IInv, TypeOK, Start, OwnerRuns, OpInv, Unreachable, Life,
         Locking, Calls, Progress, Over
<1>3. ASSUME NEW p \in Ops, p # o PROVE OpInv(p)'
  BY <1>3, SamePreserves DEF IInv, TypeOK, Same, Start
<1>4. QED
  BY <1>1, <1>2, <1>3 DEF IInv

(* Started preserves the invariant.                                         *)
LEMMA StartedPreserves ==
  ASSUME IInv, NEW o \in Ops, Started(o)
  PROVE  IInv'
<1>1. TypeOK'
  <2>1. field' \in [Ops -> [io : BOOLEAN, dispatch : BOOLEAN, thread : BOOLEAN]]
    BY FieldsTyped DEF Fields, IInv, TypeOK, Started
  <2>2. mutex' \in [Ops -> {"none", "nobody", "main", "worker"}]
    BY DEF IInv, TypeOK, Started
  <2>3. main' \in [Ops -> Places]
    BY DEF IInv, TypeOK, Places, Started
  <2>4. UNCHANGED <<memory, worker, status, result, queue, weak, io_alive, aborted>>
    BY DEF Started
  <2>5. OneCall'
    BY DEF IInv, TypeOK, OneCall, Started
  <2>6. QED
    BY <2>1, <2>2, <2>3, <2>4, <2>5 DEF IInv, TypeOK
<1>2. OpInv(o)'
  <2>1. status[o] = "running"
    BY DEF IInv, TypeOK, Started, OpInv, Unreachable, Life, Calls, Over
  <2>2. Unreachable(o)' /\ Life(o)'
    BY <2>1 DEF IInv, TypeOK, Started, OpInv, Unreachable, Life, Calls, Locking, Over
  <2>3. Locking(o)' /\ Calls(o)'
    <3>1. /\ main'[o] = "none" /\ mutex'[o] = "nobody" /\ field'[o].thread
          /\ worker[o] \notin {"locked", "added"} /\ worker'[o] = worker[o]
          /\ status'[o] = "running"
      BY <2>1 DEF IInv, TypeOK, Started, OpInv, Locking
    <3>2. QED
      BY <3>1 DEF Calls, Locking
  <2>4. Progress(o)'
    BY <2>1 DEF IInv, TypeOK, Started, OpInv, Progress, Calls, Locking
  <2>5. QED
    BY <2>2, <2>3, <2>4 DEF OpInv
<1>3. ASSUME NEW p \in Ops, p # o PROVE OpInv(p)'
  BY <1>3, SamePreserves DEF IInv, TypeOK, Same, Started
<1>4. QED
  BY <1>1, <1>2, <1>3 DEF IInv

(* StartFails preserves the invariant.                                      *)
LEMMA StartFailsPreserves ==
  ASSUME IInv, NEW o \in Ops, StartFails(o)
  PROVE  IInv'
<1>1. TypeOK'
  BY DEF IInv, TypeOK, OneCall, Places, StartFails, OwnerRuns
<1>2. OpInv(o)'
  BY DEF IInv, TypeOK, StartFails, OwnerRuns, OpInv, Unreachable, Life,
         Locking, Calls, Progress, Over
<1>3. ASSUME NEW p \in Ops, p # o PROVE OpInv(p)'
  BY <1>3, SamePreserves DEF IInv, TypeOK, Same, StartFails
<1>4. QED
  BY <1>1, <1>2, <1>3 DEF IInv

(* Run preserves the invariant.                                             *)
LEMMA RunPreserves ==
  ASSUME IInv, NEW o \in Ops, Run(o)
  PROVE  IInv'
<1>1. TypeOK'
  BY DEF IInv, TypeOK, OneCall, Places, Run
<1>2. OpInv(o)'
  BY DEF IInv, TypeOK, Run, OpInv, Unreachable, Life,
         Locking, Calls, Progress, Over
<1>3. ASSUME NEW p \in Ops, p # o PROVE OpInv(p)'
  BY <1>3, SamePreserves DEF IInv, TypeOK, Same, Run
<1>4. QED
  BY <1>1, <1>2, <1>3 DEF IInv

(* LockWorker preserves the invariant.                                      *)
LEMMA LockWorkerPreserves ==
  ASSUME IInv, NEW o \in Ops, LockWorker(o)
  PROVE  IInv'
<1>1. TypeOK'
  BY DEF IInv, TypeOK, OneCall, Places, LockWorker
<1>2. OpInv(o)'
  BY DEF IInv, TypeOK, LockWorker, OpInv, Unreachable, Life,
         Locking, Calls, Progress, Over
<1>3. ASSUME NEW p \in Ops, p # o PROVE OpInv(p)'
  BY <1>3, SamePreserves DEF IInv, TypeOK, Same, LockWorker
<1>4. QED
  BY <1>1, <1>2, <1>3 DEF IInv

(* AddDispatch preserves the invariant.                                     *)
LEMMA AddDispatchPreserves ==
  ASSUME IInv, NEW o \in Ops, AddDispatch(o)
  PROVE  IInv'
<1>1. TypeOK'
  BY DEF IInv, TypeOK, OneCall, Places, AddDispatch
<1>2. OpInv(o)'
  <2>1. status[o] = "running" /\ memory[o] = "allocated"
    BY DEF IInv, TypeOK, AddDispatch, OpInv, Unreachable, Life, Calls, Over
  <2>2. Unreachable(o)' /\ Life(o)'
    BY <2>1 DEF IInv, TypeOK, AddDispatch, OpInv, Unreachable, Life, Calls, Locking, Over
  <2>3. Locking(o)' /\ Calls(o)'
    BY <2>1 DEF IInv, TypeOK, AddDispatch, OpInv, Calls, Locking
  <2>4. Progress(o)'
    <3>1. /\ worker[o] = "locked" /\ worker'[o] = "added" /\ o \in queue'
          /\ main[o] \in Places \ {"starting", "freeing", "dispatching", "dispatched", "calling"}
      BY <2>1 DEF IInv, TypeOK, AddDispatch, OpInv, Calls, Locking
    <3>2. /\ main'[o] = main[o] /\ status'[o] = "running" /\ result'[o] = "held"
          /\ ~field'[o].dispatch
      BY <2>1 DEF IInv, TypeOK, AddDispatch, OpInv, Progress
    <3>3. QED
      BY <3>1, <3>2 DEF Progress, Places
  <2>5. QED
    BY <2>2, <2>3, <2>4 DEF OpInv
<1>3. ASSUME NEW p \in Ops, p # o PROVE OpInv(p)'
  BY <1>3, SamePreserves DEF IInv, TypeOK, Same, AddDispatch
<1>4. QED
  BY <1>1, <1>2, <1>3 DEF IInv

(* AssignDispatch preserves the invariant.                                  *)
LEMMA AssignDispatchPreserves ==
  ASSUME IInv, NEW o \in Ops, AssignDispatch(o)
  PROVE  IInv'
<1>1. TypeOK'
  <2>1. worker' \in [Ops -> {"none", "running", "computed", "locked", "added", "unlocked", "exited"}]
    BY DEF IInv, TypeOK, AssignDispatch
  <2>2. field' \in [Ops -> [io : BOOLEAN, dispatch : BOOLEAN, thread : BOOLEAN]]
    BY FieldsTyped DEF Fields, IInv, TypeOK, AssignDispatch
  <2>3. mutex' \in [Ops -> {"none", "nobody", "main", "worker"}]
    BY DEF IInv, TypeOK, AssignDispatch
  <2>4. UNCHANGED <<memory, main, status, result, queue, weak, io_alive, aborted>>
    BY DEF AssignDispatch
  <2>5. OneCall'
    BY DEF IInv, TypeOK, OneCall, AssignDispatch
  <2>6. QED
    BY <2>1, <2>2, <2>3, <2>4, <2>5 DEF IInv, TypeOK
<1>2. OpInv(o)'
  <2>1. Unreachable(o)' /\ Life(o)'
    BY DEF IInv, TypeOK, AssignDispatch, OpInv, Unreachable, Life, Progress, Over
  <2>2. Locking(o)'
    BY DEF IInv, TypeOK, AssignDispatch, OpInv, Locking, Progress
  <2>3. Calls(o)'
    BY DEF IInv, TypeOK, AssignDispatch, OpInv, Locking, Calls
  <2>4. Progress(o)'
    BY DEF IInv, TypeOK, AssignDispatch, OpInv, Locking, Calls, Progress
  <2>5. QED
    BY <2>1, <2>2, <2>3, <2>4 DEF OpInv
<1>3. ASSUME NEW p \in Ops, p # o PROVE OpInv(p)'
  BY <1>3, SamePreserves DEF IInv, TypeOK, Same, AssignDispatch
<1>4. QED
  BY <1>1, <1>2, <1>3 DEF IInv

(* Discard preserves the invariant.                                         *)
LEMMA DiscardPreserves ==
  ASSUME IInv, NEW o \in Ops, Discard(o)
  PROVE  IInv'
<1>1. TypeOK'
  BY DEF IInv, TypeOK, OneCall, Places, Discard
<1>2. OpInv(o)'
  BY DEF IInv, TypeOK, Discard, OpInv, Unreachable, Life,
         Locking, Calls, Progress, Over
<1>3. ASSUME NEW p \in Ops, p # o PROVE OpInv(p)'
  BY <1>3, SamePreserves DEF IInv, TypeOK, Same, Discard
<1>4. QED
  BY <1>1, <1>2, <1>3 DEF IInv

(* FreeByWorker preserves the invariant.                                    *)
LEMMA FreeByWorkerPreserves ==
  ASSUME IInv, NEW o \in Ops, FreeByWorker(o)
  PROVE  IInv'
<1>1. TypeOK'
  BY DEF IInv, TypeOK, OneCall, Places, FreeByWorker
<1>2. OpInv(o)'
  BY DEF IInv, TypeOK, FreeByWorker, OpInv, Unreachable, Life,
         Locking, Calls, Progress, Over
<1>3. ASSUME NEW p \in Ops, p # o PROVE OpInv(p)'
  BY <1>3, SamePreserves DEF IInv, TypeOK, Same, FreeByWorker
<1>4. QED
  BY <1>1, <1>2, <1>3 DEF IInv

(* TakeDispatch preserves the invariant.                                    *)
LEMMA TakeDispatchPreserves ==
  ASSUME IInv, NEW o \in Ops, TakeDispatch(o)
  PROVE  IInv'
<1>1. TypeOK'
  BY DEF IInv, TypeOK, OneCall, Places, TakeDispatch, Idle
<1>2. OpInv(o)'
  BY DEF IInv, TypeOK, TakeDispatch, Idle, OpInv, Unreachable, Life,
         Locking, Calls, Progress, Over
<1>3. ASSUME NEW p \in Ops, p # o PROVE OpInv(p)'
  BY <1>3, SamePreserves DEF IInv, TypeOK, Same, TakeDispatch
<1>4. QED
  BY <1>1, <1>2, <1>3 DEF IInv

(* ClearDispatch preserves the invariant.                                   *)
LEMMA ClearDispatchPreserves ==
  ASSUME IInv, NEW o \in Ops, ClearDispatch(o)
  PROVE  IInv'
<1>1. TypeOK'
  <2>1. field' \in [Ops -> [io : BOOLEAN, dispatch : BOOLEAN, thread : BOOLEAN]]
    BY FieldsTyped DEF Fields, IInv, TypeOK, ClearDispatch
  <2>2. main' \in [Ops -> Places]
    BY DEF IInv, TypeOK, Places, ClearDispatch
  <2>3. UNCHANGED <<memory, mutex, worker, status, result, queue, weak, io_alive, aborted>>
    BY DEF ClearDispatch
  <2>4. OneCall'
    BY DEF IInv, TypeOK, OneCall, ClearDispatch
  <2>5. QED
    BY <2>1, <2>2, <2>3, <2>4 DEF IInv, TypeOK
<1>2. OpInv(o)'
  BY DEF IInv, TypeOK, ClearDispatch, OpInv, Unreachable, Life,
         Locking, Calls, Progress, Over
<1>3. ASSUME NEW p \in Ops, p # o PROVE OpInv(p)'
  BY <1>3, SamePreserves DEF IInv, TypeOK, Same, ClearDispatch
<1>4. QED
  BY <1>1, <1>2, <1>3 DEF IInv

(* Done preserves the invariant.                                            *)
LEMMA DonePreserves ==
  ASSUME IInv, NEW o \in Ops, Done(o)
  PROVE  IInv'
<1>1. TypeOK'
  BY DEF IInv, TypeOK, OneCall, Places, Done
<1>2. OpInv(o)'
  BY DEF IInv, TypeOK, Done, OpInv, Unreachable, Life,
         Locking, Calls, Progress, Over
<1>3. ASSUME NEW p \in Ops, p # o PROVE OpInv(p)'
  BY <1>3, SamePreserves DEF IInv, TypeOK, Same, Done
<1>4. QED
  BY <1>1, <1>2, <1>3 DEF IInv

(* FreeDone preserves the invariant.                                        *)
LEMMA FreeDonePreserves ==
  ASSUME IInv, NEW o \in Ops, FreeDone(o)
  PROVE  IInv'
<1>1. TypeOK'
  <2>1. result' \in [Ops -> {"none", "held", "destroyed"}]
    BY DEF IInv, TypeOK, FreeDone
  <2>2. field' \in [Ops -> [io : BOOLEAN, dispatch : BOOLEAN, thread : BOOLEAN]]
    BY FieldsTyped DEF Fields, IInv, TypeOK, FreeDone
  <2>3. mutex' \in [Ops -> {"none", "nobody", "main", "worker"}]
    BY DEF IInv, TypeOK, FreeDone
  <2>4. memory' \in [Ops -> {"none", "allocated", "freed"}]
    BY DEF IInv, TypeOK, FreeDone
  <2>5. main' \in [Ops -> Places]
    BY DEF IInv, TypeOK, Places, FreeDone
  <2>6. weak' \subseteq Ops /\ queue' \subseteq Ops
    BY DEF IInv, TypeOK, FreeDone
  <2>7. UNCHANGED <<worker, status, io_alive, aborted>>
    BY DEF FreeDone
  <2>8. OneCall'
    BY DEF IInv, TypeOK, OneCall, FreeDone, OwnerRuns
  <2>9. QED
    BY <2>1, <2>2, <2>3, <2>4, <2>5, <2>6, <2>7, <2>8 DEF IInv, TypeOK
<1>2. OpInv(o)'
  BY DEF IInv, TypeOK, FreeDone, OwnerRuns, OpInv, Unreachable, Life,
         Locking, Calls, Progress, Over
<1>3. ASSUME NEW p \in Ops, p # o PROVE OpInv(p)'
  BY <1>3, SamePreserves DEF IInv, TypeOK, Same, FreeDone
<1>4. QED
  BY <1>1, <1>2, <1>3 DEF IInv

(* FreeNew preserves the invariant.                                         *)
LEMMA FreeNewPreserves ==
  ASSUME IInv, NEW o \in Ops, FreeNew(o)
  PROVE  IInv'
<1>1. TypeOK'
  BY DEF IInv, TypeOK, OneCall, Places, FreeNew, OwnerRuns
<1>2. OpInv(o)'
  BY DEF IInv, TypeOK, FreeNew, OwnerRuns, OpInv, Unreachable, Life,
         Locking, Calls, Progress, Over
<1>3. ASSUME NEW p \in Ops, p # o PROVE OpInv(p)'
  BY <1>3, SamePreserves DEF IInv, TypeOK, Same, FreeNew
<1>4. QED
  BY <1>1, <1>2, <1>3 DEF IInv

(* FreeStarted preserves the invariant.                                     *)
LEMMA FreeStartedPreserves ==
  ASSUME IInv, NEW o \in Ops, FreeStarted(o)
  PROVE  IInv'
<1>1. TypeOK'
  BY DEF IInv, TypeOK, OneCall, Places, FreeStarted, OwnerRuns
<1>2. OpInv(o)'
  BY DEF IInv, TypeOK, FreeStarted, OwnerRuns, OpInv, Unreachable, Life,
         Locking, Calls, Progress, Over
<1>3. ASSUME NEW p \in Ops, p # o PROVE OpInv(p)'
  BY <1>3, SamePreserves DEF IInv, TypeOK, Same, FreeStarted
<1>4. QED
  BY <1>1, <1>2, <1>3 DEF IInv

(* LockMain preserves the invariant.                                        *)
LEMMA LockMainPreserves ==
  ASSUME IInv, NEW o \in Ops, LockMain(o)
  PROVE  IInv'
<1>1. TypeOK'
  BY DEF IInv, TypeOK, OneCall, Places, LockMain
<1>2. OpInv(o)'
  BY DEF IInv, TypeOK, LockMain, OpInv, Unreachable, Life,
         Locking, Calls, Progress, Over
<1>3. ASSUME NEW p \in Ops, p # o PROVE OpInv(p)'
  BY <1>3, SamePreserves DEF IInv, TypeOK, Same, LockMain
<1>4. QED
  BY <1>1, <1>2, <1>3 DEF IInv

(* FreeRunning preserves the invariant.                                     *)
LEMMA FreeRunningPreserves ==
  ASSUME IInv, NEW o \in Ops, FreeRunning(o)
  PROVE  IInv'
<1>1. TypeOK'
  <2>1. status' \in [Ops -> {"unknown", "new", "running", "done", "cancelled", "refused"}]
    BY DEF IInv, TypeOK, FreeRunning
  <2>2. field' \in [Ops -> [io : BOOLEAN, dispatch : BOOLEAN, thread : BOOLEAN]]
    BY FieldsTyped DEF Fields, IInv, TypeOK, FreeRunning
  <2>3. mutex' \in [Ops -> {"none", "nobody", "main", "worker"}]
    BY DEF IInv, TypeOK, FreeRunning
  <2>4. main' \in [Ops -> Places]
    BY DEF IInv, TypeOK, Places, FreeRunning
  <2>5. weak' \subseteq Ops /\ queue' \subseteq Ops
    BY DEF IInv, TypeOK, FreeRunning
  <2>6. UNCHANGED <<memory, worker, result, io_alive, aborted>>
    BY DEF FreeRunning
  <2>7. OneCall'
    BY DEF IInv, TypeOK, OneCall, FreeRunning
  <2>8. QED
    BY <2>1, <2>2, <2>3, <2>4, <2>5, <2>6, <2>7 DEF IInv, TypeOK
<1>2. OpInv(o)'
  BY DEF IInv, TypeOK, FreeRunning, OpInv, Unreachable, Life,
         Locking, Calls, Progress, Over
<1>3. ASSUME NEW p \in Ops, p # o PROVE OpInv(p)'
  BY <1>3, SamePreserves DEF IInv, TypeOK, Same, FreeRunning
<1>4. QED
  BY <1>1, <1>2, <1>3 DEF IInv

(* FreeFinished preserves the invariant.                                    *)
LEMMA FreeFinishedPreserves ==
  ASSUME IInv, NEW o \in Ops, FreeFinished(o)
  PROVE  IInv'
<1>1. TypeOK'
  BY DEF IInv, TypeOK, OneCall, Places, FreeFinished
<1>2. OpInv(o)'
  BY DEF IInv, TypeOK, FreeFinished, OpInv, Unreachable, Life,
         Locking, Calls, Progress, Over
<1>3. ASSUME NEW p \in Ops, p # o PROVE OpInv(p)'
  BY <1>3, SamePreserves DEF IInv, TypeOK, Same, FreeFinished
<1>4. QED
  BY <1>1, <1>2, <1>3 DEF IInv

(* Dropping the InfIo preserves it: no operation is running then.            *)
LEMMA DropIoPreserves ==
  ASSUME IInv, DropIo
  PROVE  IInv'
<1>1. TypeOK'
  BY DEF IInv, TypeOK, OneCall, DropIo
<1>2. ASSUME NEW p \in Ops PROVE OpInv(p)'
  <2>1. status[p] \in Over /\ OpInv(p)
    BY DEF IInv, DropIo
  <2>2. QED
    BY <2>1 DEF DropIo, Over, OpInv, Unreachable, Life, Locking, Calls, Progress
<1>3. QED
  BY <1>1, <1>2 DEF IInv

(* Every step preserves the invariant.                                       *)
LEMMA StepPreserves == IInv /\ [Next]_vars => IInv'
<1> SUFFICES ASSUME IInv, [Next]_vars PROVE IInv'
  OBVIOUS
<1>1. ASSUME NEW o \in Ops, Worker(o) PROVE IInv'
  BY <1>1, RunPreserves, LockWorkerPreserves, AddDispatchPreserves,
     AssignDispatchPreserves, DiscardPreserves, FreeByWorkerPreserves DEF Worker
<1>2. ASSUME NEW o \in Ops, Loop(o) PROVE IInv'
  BY <1>2, StartedPreserves, TakeDispatchPreserves, ClearDispatchPreserves,
     DonePreserves, FreeDonePreserves, LockMainPreserves,
     FreeRunningPreserves, FreeFinishedPreserves DEF Loop
<1>3. ASSUME NEW o \in Ops, Owner(o) PROVE IInv'
  BY <1>3, NewPreserves, StartPreserves, StartFailsPreserves,
     FreeNewPreserves, FreeStartedPreserves DEF Owner
<1>4. CASE DropIo
  BY <1>4, DropIoPreserves
<1>5. CASE UNCHANGED vars
  <2>1. TypeOK'
    BY <1>5 DEF vars, IInv, TypeOK, OneCall
  <2>2. ASSUME NEW p \in Ops PROVE OpInv(p)'
    BY <1>5, SamePreserves DEF vars, IInv, Same
  <2>3. QED
    BY <2>1, <2>2 DEF IInv
<1>6. QED
  BY <1>1, <1>2, <1>3, <1>4, <1>5 DEF Next

LEMMA Invariance == Spec => []IInv
BY InitIInv, StepPreserves, PTL DEF Spec

(* The shared data of the threads always have their types.                   *)
THEOREM AsyncTypeCorrect == Spec => []TypeOK
<1>1. IInv => TypeOK
  BY DEF IInv
<1>2. QED
  BY <1>1, Invariance, PTL

(* Nobody touches an operation that was freed: inf_async_operation_free, the *)
(* worker and the dispatch agree on who frees it.                            *)
THEOREM MemorySafe == Spec => []NoUseAfterFree
<1>1. IInv => NoUseAfterFree
  <2> SUFFICES ASSUME IInv, NEW o \in Ops,
                      \/ worker[o] \notin {"none", "exited"}
                      \/ o \in queue \/ main[o] # "none"
                      \/ status[o] = "running"
               PROVE  memory[o] = "allocated" /\ mutex[o] # "none"
    BY DEF NoUseAfterFree
  <2>1. memory[o] = "allocated"
    BY DEF IInv, OpInv, Unreachable, Over
  <2>2. QED
    BY <2>1 DEF IInv, TypeOK, Places, OpInv, Life, Locking, Calls, Progress
<1>2. QED
  BY <1>1, Invariance, PTL

(* A worker never gives its result to an InfIo that its owner has dropped.   *)
THEOREM IoStaysAlive == Spec => []DispatchToLiveIo
<1>1. IInv => DispatchToLiveIo
  BY DEF IInv, TypeOK, DispatchToLiveIo, OpInv, Unreachable, Life,
         Locking, Calls, Progress, Over
<1>2. QED
  BY <1>1, Invariance, PTL

(* The result is destroyed with the operation and not before done_func.      *)
THEOREM ResultNotLeaked == Spec => []ResultDestroyed
<1>1. IInv => ResultDestroyed
  BY DEF IInv, ResultDestroyed, OpInv, Unreachable, Calls
<1>2. QED
  BY <1>1, Invariance, PTL

(* Whoever has memory, a result or the InfIo in use, the threads agree on it. *)
THEOREM OwnershipAgreed == Spec => []OwnershipSound
BY MemorySafe, IoStaysAlive, ResultNotLeaked, PTL DEF OwnershipSound

(* done_func is called at most once, and never after a cancellation: the     *)
(* threads implement the promise.                                            *)
THEOREM PromiseKept == Spec => KeepsPromise
<1>1. Init => Promise!PromiseInit
  BY DEF Init, Promise!PromiseInit
<1>2. IInv /\ [Next]_vars => [Promise!PromiseNext]_status
  <2> SUFFICES ASSUME IInv, [Next]_vars PROVE [Promise!PromiseNext]_status
    OBVIOUS
  <2>1. ASSUME NEW o \in Ops, Worker(o) PROVE UNCHANGED status
    BY <2>1 DEF Worker, Run, LockWorker, AddDispatch, AssignDispatch, Discard, FreeByWorker
  <2>2. ASSUME NEW o \in Ops, Loop(o) PROVE [Promise!PromiseNext]_status
    <3>1. status[o] = "running" \/ UNCHANGED status
      BY <2>2 DEF Loop, Started, TakeDispatch, ClearDispatch, Done, FreeDone, LockMain,
             FreeRunning, FreeFinished, IInv, OpInv, Calls
    <3>2. QED
      BY <2>2, <3>1 DEF Loop, Started, TakeDispatch, ClearDispatch, Done, FreeDone,
                        LockMain, FreeRunning, FreeFinished,
                        Promise!PromiseNext, Promise!Change
  <2>3. ASSUME NEW o \in Ops, Owner(o) PROVE [Promise!PromiseNext]_status
    BY <2>3 DEF Owner, New, Start, StartFails, FreeNew, FreeStarted,
              Promise!PromiseNext, Promise!Change
  <2>4. QED
    BY <2>1, <2>2, <2>3 DEF Next, DropIo, vars
<1>3. QED
  BY <1>1, <1>2, Invariance, PTL DEF Spec, KeepsPromise, Promise!PromiseSpec
=============================================================================
