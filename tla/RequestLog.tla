----------------------------- MODULE RequestLog -----------------------------
(* The data type InfAdoptedRequestLog: the requests one user has issued, in  *)
(* the order of their index, with the do/undo/redo structure among them.     *)
(* A log is a record of functions over begin .. end - 1; a C pointer to an   *)
(* entry is the index of the request in that entry, NULL is -1.  The array   *)
(* that holds the entries (alloc, offset, and the fix-up of the pointers     *)
(* when it is moved) is abstracted: no index depends on it.                  *)
EXTENDS Integers

NULL == -1

DO == "do"
UNDO == "undo"
REDO == "redo"
RequestType == {DO, UNDO, REDO}

(* inf_adopted_request_log_new: an empty log whose first request is number b *)
NewLog(b) ==
  LET none == [n \in b .. b - 1 |-> NULL]
  IN [begin |-> b, end |-> b,
      request |-> [n \in b .. b - 1 |-> [type |-> DO]],
      original |-> none, next |-> none, prev |-> none,
      lower |-> none, upper |-> none,
      next_undo |-> NULL, next_redo |-> NULL, cache |-> {}]

Entries(log) == log.begin .. log.end - 1

IsEmpty(log) == log.begin = log.end

-----------------------------------------------------------------------------
(* The loop of inf_adopted_request_log_find_associated walks back from an    *)
(* entry n: from an entry of the type it looks for it jumps to the entry     *)
(* before its prev_associated, at any other entry it stops.  The entries it  *)
(* visits are the least set that holds n and is closed under the jumps.      *)
WalkClosed(log, type, W) ==
  \A x \in W : log.request[x].type = type /\ log.prev[x] > log.begin
                 => log.prev[x] - 1 \in W

Walk(log, type, n) ==
  {e \in Entries(log) :
     \A W \in SUBSET Entries(log) :
       (n \in Entries(log) => n \in W) /\ WalkClosed(log, type, W) => e \in W}

FindAssociatedDO(log, type) ==   \* mistake: a redo does not stop at a DO
  LET stops == {e \in Walk(log, type, log.end - 1) : log.request[e].type # type}
  IN IF stops = {} THEN NULL ELSE CHOOSE e \in stops : TRUE

(* Where the loop stops: what is undone (redone) if the next request is an   *)
(* undo (redo).  A redo finds nothing when the walk meets a DO.              *)
FindAssociated(log, type) ==
  LET stops == {e \in Walk(log, type, log.end - 1) :
                  /\ log.request[e].type # type
                  /\ type = REDO => log.request[e].type # DO}
  IN IF stops = {} THEN NULL ELSE CHOOSE e \in stops : TRUE

-----------------------------------------------------------------------------
(* The request that a request of the given type, added now, would undo/redo. *)
Associate(log, type) ==
  CASE type = DO   -> NULL
    [] type = UNDO -> log.next_undo
    [] type = REDO -> log.next_redo

(* The assertions on entry of inf_adopted_request_log_add_request_handler.   *)
CanAddRequest(log, n, request) ==
  /\ IsEmpty(log) \/ n = log.end
  /\ request.type # DO => Associate(log, request.type) # NULL

AppendEntryPrev(log, n, request) ==   \* mistake: relates down to prev_associated only
  LET b == IF IsEmpty(log) THEN n ELSE log.begin
      prev == Associate(log, request.type)
      lower == IF prev = NULL THEN n ELSE prev
  IN [log EXCEPT
        !.begin = b, !.end = n + 1,
        !.request = [x \in b .. n |-> IF x = n THEN request ELSE log.request[x]],
        !.original = [x \in b .. n |-> IF x < n THEN log.original[x]
                                      ELSE IF prev = NULL THEN n ELSE log.original[prev]],
        !.prev = [x \in b .. n |-> IF x = n THEN prev ELSE log.prev[x]],
        !.next = [x \in b .. n |-> IF x = n THEN NULL ELSE IF x = prev THEN n ELSE log.next[x]],
        !.lower = [x \in b .. n |-> IF x >= lower THEN lower ELSE log.lower[x]],
        !.upper = [x \in b .. n |-> IF x >= lower THEN n ELSE log.upper[x]]]

AppendEntryOriginal(log, n, request) ==   \* mistake: the set's lower end is the original
  LET grown == AppendEntryPrev(log, n, request)
      lower == grown.original[n]
  IN [grown EXCEPT !.lower = [x \in DOMAIN @ |-> IF x >= lower THEN lower ELSE @[x]],
                   !.upper = [x \in DOMAIN @ |-> IF x >= lower THEN n ELSE @[x]]]

(* The new entry with its links.  An undo or redo joins the related set of   *)
(* its original: everything from that set's lower end up to the new entry    *)
(* becomes one related set.                                                  *)
AppendEntry(log, n, request) ==
  LET b == IF IsEmpty(log) THEN n ELSE log.begin
      prev == Associate(log, request.type)
      original == IF prev = NULL THEN n ELSE log.original[prev]
      lower == IF prev = NULL THEN n ELSE log.lower[original]
  IN [log EXCEPT
        !.begin = b,
        !.end = n + 1,
        !.request = [x \in b .. n |-> IF x = n THEN request ELSE log.request[x]],
        !.original = [x \in b .. n |-> IF x = n THEN original ELSE log.original[x]],
        !.prev = [x \in b .. n |-> IF x = n THEN prev ELSE log.prev[x]],
        !.next = [x \in b .. n |-> IF x = n THEN NULL
                                   ELSE IF x = prev THEN n ELSE log.next[x]],
        !.lower = [x \in b .. n |-> IF x >= lower THEN lower ELSE log.lower[x]],
        !.upper = [x \in b .. n |-> IF x >= lower THEN n ELSE log.upper[x]]]

AddRequestKeepsRedo(log, n, request) ==   \* mistake: a DO leaves next_redo alone
  LET grown == AppendEntry(log, n, request)
  IN [grown EXCEPT !.next_undo = IF request.type = UNDO THEN FindAssociated(grown, UNDO) ELSE n,
                   !.next_redo = CASE request.type = DO -> @
                                   [] request.type = UNDO -> n
                                   [] request.type = REDO -> FindAssociated(grown, REDO)]

(* inf_adopted_request_log_add_request                                       *)
AddRequest(log, n, request) ==
  LET grown == AppendEntry(log, n, request)
      type == request.type
  IN [grown EXCEPT
        !.next_undo = IF type = UNDO THEN FindAssociated(grown, UNDO) ELSE n,
        !.next_redo = CASE type = DO   -> NULL
                        [] type = UNDO -> n
                        [] type = REDO -> FindAssociated(grown, REDO)]

(* inf_adopted_request_log_set_begin, for an empty log only                  *)
SetBegin(log, n) ==
  [NewLog(n) EXCEPT !.cache = log.cache, !.next_undo = log.next_undo,
                    !.next_redo = log.next_redo]

-----------------------------------------------------------------------------
CanRemoveAny(log, up_to) == up_to \in log.begin .. log.end   \* mistake: splits related sets

(* The two g_return_if_fail of inf_adopted_request_log_remove_requests: only *)
(* whole related sets are removed.                                           *)
CanRemoveRequests(log, up_to) ==
  /\ up_to \in log.begin .. log.end
  /\ up_to # log.begin => log.upper[up_to - 1] = up_to - 1

RemoveRequestsKeepsCache(log, up_to) ==   \* mistake: the cache is left alone
  LET Kept(f) == [n \in up_to .. log.end - 1 |-> f[n]]
      Clear(n) == IF n < up_to THEN NULL ELSE n
  IN [log EXCEPT
        !.begin = up_to,
        !.request = Kept(@), !.original = Kept(@), !.next = Kept(@), !.prev = Kept(@),
        !.lower = Kept(@), !.upper = Kept(@),
        !.next_undo = Clear(@), !.next_redo = Clear(@)]

RemoveRequests(log, up_to) ==
  LET Kept(f) == [n \in up_to .. log.end - 1 |-> f[n]]
      Clear(n) == IF n < up_to THEN NULL ELSE n
  IN [log EXCEPT
        !.begin = up_to,
        !.request = Kept(log.request), !.original = Kept(log.original),
        !.next = Kept(log.next), !.prev = Kept(log.prev),
        !.lower = Kept(log.lower), !.upper = Kept(log.upper),
        !.next_undo = Clear(log.next_undo), !.next_redo = Clear(log.next_redo),
        !.cache = {c \in log.cache : c.index >= up_to}]

-----------------------------------------------------------------------------
(* The queries of a request.  next_associated and the related requests are   *)
(* asked of a request in the log; a request with index end is treated as if  *)
(* it were the newest one.                                                   *)
NextAssociated(log, n) == log.next[n]

PrevAssociated(log, n, type) ==
  IF n = log.end THEN Associate(log, type) ELSE log.prev[n]

(* The index of the DO that request number n, of this type, undoes or redoes;*)
(* n itself for a DO, and for an undo or redo with nothing to refer to.      *)
OriginalRequest(log, n, type) ==
  IF n = log.end
    THEN LET a == Associate(log, type) IN IF a = NULL THEN n ELSE log.original[a]
    ELSE IF type = DO THEN n ELSE log.original[n]

UpperRelated(log, n) == log.upper[n]
LowerRelated(log, n) == log.lower[n]

(* The cache of translated requests is looked up by state vector; its order  *)
(* starts with the component of the log's user, here c.index, so that the    *)
(* translations of removed requests can be dropped together.                 *)
LookupCachedRequest(log, vector) == {c \in log.cache : c.vector = vector}

AddCachedRequest(log, cached) == [log EXCEPT !.cache = @ \cup {cached}]
=============================================================================
