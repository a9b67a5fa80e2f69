--------------------------- MODULE RequestLogSpec ---------------------------
(* One request log as a state machine: the calls of its public interface in  *)
(* any order their preconditions allow.  Its callers number a log, with      *)
(* set_begin or with its first request, before they cache anything in it.    *)
EXTENDS RequestLog

CONSTANTS MaxIndex,   \* bound: requests are numbered 0 .. MaxIndex - 1
          CacheKeys   \* what tells vectors with the same own component apart

ASSUME MaxIndexAssumption == MaxIndex \in Nat

VARIABLE log

Init == log = NewLog(0)

Add(n, type) ==
  LET request == [type |-> type]
  IN /\ CanAddRequest(log, n, request)
     /\ n = log.end \/ log.cache = {}
     /\ log' = AddRequest(log, n, request)

AddDo(n) == Add(n, DO)
AddUndo(n) == Add(n, UNDO)
AddRedo(n) == Add(n, REDO)

SetLogBegin(n) ==
  /\ IsEmpty(log) /\ log.cache = {}
  /\ log' = SetBegin(log, n)

Remove(up_to) ==
  /\ CanRemoveRequests(log, up_to)
  /\ log' = RemoveRequests(log, up_to)

(* A translated version of request number n enters the cache: of one in the  *)
(* log, or of the one that is being executed and will be added next.         *)
Cache(n, k) ==
  /\ n \in log.begin .. log.end
  /\ LookupCachedRequest(log, <<n, k>>) = {}
  /\ log' = AddCachedRequest(log, [index |-> n, vector |-> <<n, k>>])

Next ==
  \/ \E n \in 0 .. MaxIndex - 1 : AddDo(n) \/ AddUndo(n) \/ AddRedo(n)
  \/ \E n \in 0 .. MaxIndex : SetLogBegin(n) \/ Remove(n)
  \/ \E n \in 0 .. MaxIndex - 1, k \in CacheKeys : Cache(n, k)

Spec == Init /\ [][Next]_log

-----------------------------------------------------------------------------
Index == 0 .. MaxIndex - 1
Link(L) == [Entries(L) -> Index \cup {NULL}]

(* The fields of the log have their types and the functions its entries as   *)
(* domain (struct _InfAdoptedRequestLogPrivate).                             *)
TypeOK ==
  /\ DOMAIN log = DOMAIN NewLog(0)
  /\ log.begin \in 0 .. MaxIndex /\ log.end \in log.begin .. MaxIndex
  /\ log.request \in [Entries(log) -> [type : RequestType]]
  /\ log.original \in Link(log) /\ log.next \in Link(log) /\ log.prev \in Link(log)
  /\ log.lower \in Link(log) /\ log.upper \in Link(log)
  /\ log.next_undo \in Entries(log) \cup {NULL}
  /\ log.next_redo \in Entries(log) \cup {NULL}
  /\ \A c \in log.cache :
       c.index \in Index /\ \E k \in CacheKeys : c.vector = <<c.index, k>>

(* What inf_adopted_request_log_verify_related asserts and the documentation *)
(* of upper_related says: the sets of related requests are disjoint, each an *)
(* interval of the log that lies in the log.                                 *)
RelatedDisjoint ==
  \A n \in Entries(log) :
    /\ log.lower[n] \in log.begin .. n
    /\ log.upper[n] \in n .. log.end - 1
    /\ \A x \in log.lower[n] .. log.upper[n] :
         log.lower[x] = log.lower[n] /\ log.upper[x] = log.upper[n]

(* Everything an entry refers to is related to it.  With RelatedDisjoint     *)
(* this is what makes remove_requests safe: remaining requests do not refer  *)
(* to removed ones.                                                          *)
LinksRelated ==
  \A n \in Entries(log) :
    LET related == log.lower[n] .. log.upper[n]
    IN /\ log.original[n] \in related
       /\ log.next[n] # NULL => log.next[n] \in related
       /\ log.prev[n] # NULL => log.prev[n] \in related

(* Associations are a matching of the right types: an undo refers to a do or *)
(* redo, a redo to an undo, each entry is undone or redone at most once, and *)
(* original is the DO at the start of the chain of associated requests.      *)
AssociationsMatch ==
  \A n \in Entries(log) :
    LET type == log.request[n].type
        p == log.prev[n]
    IN /\ type = DO => p = NULL /\ log.original[n] = n
       /\ type # DO => /\ p \in log.begin .. n - 1
                       /\ (type = UNDO) = (log.request[p].type # UNDO)
                       /\ log.next[p] = n
                       /\ log.original[n] = log.original[p]
       /\ log.next[n] # NULL => log.next[n] \in Entries(log) /\ log.prev[log.next[n]] = n

(* The request to undo or redo next is one that is not undone (redone) yet,  *)
(* which the walk of find_associated has to ensure.                          *)
NextIsOpen ==
  /\ log.next_undo # NULL => /\ log.next_undo \in Entries(log)
                             /\ log.next[log.next_undo] = NULL
                             /\ log.request[log.next_undo].type # UNDO
  /\ log.next_redo # NULL => /\ log.next_redo \in Entries(log)
                             /\ log.next[log.next_redo] = NULL
                             /\ log.request[log.next_redo].type = UNDO

(* No translation of a removed request survives in the cache, where a later  *)
(* lookup would find it.                                                     *)
CacheFresh == \A c \in log.cache : c.index >= log.begin

(* Nothing in a log ever refers to what inf_adopted_request_log_remove_requests *)
(* has removed, or will remove without it.                                   *)
LogSound == RelatedDisjoint /\ LinksRelated /\ CacheFresh

(* As long as an entry is kept, what it is and what it refers to never       *)
(* change, a request once undone stays undone, and its related set only      *)
(* grows.                                                                    *)
EntriesStable ==
  [][\A n \in Entries(log) \cap Entries(log)' :
       /\ log'.request[n] = log.request[n]
       /\ log'.original[n] = log.original[n]
       /\ log'.prev[n] = log.prev[n]
       /\ log.next[n] # NULL => log'.next[n] = log.next[n]
       /\ log'.lower[n] <= log.lower[n] /\ log'.upper[n] >= log.upper[n]]_log

-----------------------------------------------------------------------------
(* The refinement of the undo stack: a request is done when its chain of     *)
(* associated requests ends in a do or redo, and can be redone when the      *)
(* chain ends in an undo that is newer than the newest DO.                   *)
Open == {n \in Entries(log) : log.next[n] = NULL}
Done == {log.original[n] : n \in {m \in Open : log.request[m].type # UNDO}}
Undone ==
  {log.original[n] :
     n \in {m \in Open : /\ log.request[m].type = UNDO
                         /\ \A d \in m .. log.end - 1 : log.request[d].type # DO}}

Stack == INSTANCE UndoStack WITH Requests <- Index, done <- Done, undone <- Undone

(* The log implements the undo stack,                                        *)
ImplementsUndoStack == Stack!StackSpec

(* and the next_undo and next_redo it computes by walking back through its   *)
(* entries belong to the top of the two stacks.                              *)
NextIsTop ==
  /\ IF Done = {} THEN log.next_undo = NULL
     ELSE log.next_undo # NULL /\ log.original[log.next_undo] = Stack!Largest(Done)
  /\ IF Undone = {} THEN log.next_redo = NULL
     ELSE log.next_redo # NULL /\ log.original[log.next_redo] = Stack!Smallest(Undone)

(* What is undone or redone next is always what the user expects: together    *)
(* with the matching of the entries, the walks of find_associated find it.    *)
UndoSound == AssociationsMatch /\ NextIsOpen /\ NextIsTop

(* The history of a user is kept: nothing that a step does makes an entry     *)
(* something else, and undo and redo go through it as through a stack.        *)
HistoryKept == ImplementsUndoStack /\ EntriesStable
=============================================================================
