---------------------------- MODULE AsyncPromise ----------------------------
(* What an asynchronous operation promises its owner: once started, it is    *)
(* either done, by one call of done_func with the result, or cancelled by    *)
(* the owner, and never both.                                                *)

CONSTANT Ops   \* the operations

VARIABLE status   \* of each operation

Status == {"unknown", "new", "running", "done", "cancelled", "refused"}

Change(o, from, to) == status[o] \in from /\ status' = [status EXCEPT ![o] = to]

PromiseInit == status = [o \in Ops |-> "unknown"]

PromiseNext ==
  \E o \in Ops : \/ Change(o, {"unknown"}, "new")
                 \/ Change(o, {"new"}, "running") \/ Change(o, {"new"}, "refused")
                 \/ Change(o, {"running"}, "done")
                 \/ Change(o, {"new", "running"}, "cancelled")

PromiseSpec == PromiseInit /\ [][PromiseNext]_status
=============================================================================
