------------------------------ MODULE UndoGrouping ------------------------------
(***************************************************************************)
(* The grouping of a user's requests that are undone together,             *)
(* inf-adopted-undo-grouping.c.  It follows the request log of the user    *)
(* and keeps the requests that can be undone and redone in a ring; those   *)
(* that the algorithm may drop from the log are given up before.           *)
(***************************************************************************)
EXTENDS RequestLog, FiniteSets, Sequences, TLC

CONSTANTS MaxTotal,   \* max-total-log-size of the algorithm
          MinAlloc,   \* what is allocated at first, 16 in the code
          MaxRequests,\* bound: requests of the user
          MaxOthers   \* bound: requests of others

VARIABLES log,     \* the user's request log; a request has its type and vector
          others,  \* requests of others that were executed
          ring,    \* items, n_alloc, first_item, n_items, item_pos
          group,   \* group_ref and group_flags
          broken   \* an assertion failed
groupingVars == <<log, others, ring, group, broken>>

NoRing == [items |-> <<>>, alloc |-> 0, first |-> 0, n |-> 0, pos |-> 0]
Init ==
  /\ log = NewLog(0) /\ others = 0 /\ ring = NoRing
  /\ group = [ref |-> 0, flags |-> {}] /\ broken = FALSE

Least(a, b) == IF a < b THEN a ELSE b
Most(a, b) == IF a < b THEN b ELSE a

\* inf_adopted_state_vector_vdiff of a request and the user's vector, of which
\* only the user's own component and the sum of the others matter.
VDiff(L, o, n) == (L.end - n) + (o - L.request[n].others)

Slot(r, i) == (r.first + i) % r.alloc
Item(r, i) == r.items[Slot(r, i)]

\* The same of the first item, whose request the log may have dropped.
ItemDiff(r, L, o) == (L.end - Item(r, 0).req) + (o - Item(r, 0).others)

\* The ring grows when its items reach the end of the array.
Grow(r) ==
  LET max == (MaxTotal \div 2) + 1
      size == Most(Least(r.alloc * 2, max), Least(MinAlloc, max))
  IN  IF r.first + r.pos = r.alloc /\ r.alloc < max
      THEN [r EXCEPT !.alloc = size,
                     !.items = [i \in 0..size - 1 |-> IF i < r.alloc THEN r.items[i]
                                                      ELSE [req |-> NULL, others |-> 0, grouped |-> FALSE]]]
      ELSE r

\* Whether a new request joins the group of the one before it; together is what
\* the handlers of group-requests say.
InGroup(r, together) ==
  IF r.pos = 0 THEN FALSE
  ELSE IF "first after" \in group.flags /\ "with next" \notin group.flags THEN FALSE
  ELSE IF group.ref > 0 /\ "first in" \in group.flags /\ "with prev" \notin group.flags THEN FALSE
  ELSE IF group.ref > 0 /\ "first in" \notin group.flags THEN TRUE
  ELSE together


\* inf_adopted_undo_grouping_add_request of a DO: what could be redone is
\* forgotten.
AddItem(R, n, together) ==
  LET r == Grow(R)
  IN  [r EXCEPT !.items[Slot(r, r.pos)] = [req |-> n, others |-> others, grouped |-> InGroup(r, together)],
                !.n = r.pos + 1, !.pos = @ + 1]

\* A variant for the mutation checks: not all requests that must be undone first
\* are counted.
RECURSIVE CleanupDiff(_, _, _)
CleanupDiff(r, L, o) ==
  IF r.n = 0 \/ ItemDiff(r, L, o) <= MaxTotal THEN r
  ELSE IF r.pos = 0 THEN [r EXCEPT !.first = 0, !.n = 0]
  ELSE LET s == [r EXCEPT !.first = (@ + 1) % r.alloc, !.n = @ - 1, !.pos = @ - 1]
       IN  CleanupDiff(IF s.n = 0 THEN [s EXCEPT !.first = 0]
                       ELSE [s EXCEPT !.items[s.first].grouped = FALSE], L, o)

\* inf_adopted_undo_grouping_cleanup
RECURSIVE Cleanup(_, _, _)
Cleanup(r, L, o) ==
  IF r.n = 0 \/ ItemDiff(r, L, o) + r.pos <= MaxTotal THEN r
  ELSE IF r.pos = 0 THEN [r EXCEPT !.first = 0, !.n = 0]
  ELSE LET s == [r EXCEPT !.first = (@ + 1) % r.alloc, !.n = @ - 1, !.pos = @ - 1]
       IN  Cleanup(IF s.n = 0 THEN [s EXCEPT !.first = 0]
                   ELSE [s EXCEPT !.items[s.first].grouped = FALSE], L, o)

\* inf_adopted_algorithm_can_undo_redo
CanUndoRedo(n) == n # NULL /\ VDiff(log, others, log.original[n]) < MaxTotal

\* inf_adopted_algorithm_cleanup, which may keep requests longer for the sake of
\* other users.
Dropped(L, o, lag) ==
  LET dropped == {n \in L.begin + 1..L.end :
                    /\ L.upper[n - 1] = n - 1
                    /\ \A m \in L.begin..n - 1 : L.lower[m] = m => VDiff(L, o, m) >= MaxTotal + lag}
  IN  IF dropped = {} THEN L ELSE RemoveRequests(L, CHOOSE n \in dropped : \A m \in dropped : m <= n)

\* A request of the user is executed: it is added to its log,
\* inf_adopted_undo_grouping_add_request_cb, the grouping and then the log are
\* cleaned up.
Execute(type, together, lag) ==
  LET L == AddRequest(log, log.end, [type |-> type, others |-> others])
      r == CASE type = DO   -> AddItem(ring, log.end, together)
             [] type = UNDO -> [ring EXCEPT !.pos = @ - 1]
             [] type = REDO -> [ring EXCEPT !.pos = @ + 1]
  IN  /\ log.end < MaxRequests /\ ~broken
      /\ type = UNDO => CanUndoRedo(log.next_undo)
      /\ type = REDO => CanUndoRedo(log.next_redo)
      /\ IF (type = UNDO /\ ring.pos = 0) \/ (type = REDO /\ ring.pos = ring.n)
            \/ (type = DO /\ ring.pos >= Grow(ring).alloc)
         THEN broken' = TRUE /\ UNCHANGED <<log, ring, group>>
         ELSE /\ ring' = Cleanup(r, L, others) /\ log' = Dropped(L, others, lag)
              /\ group' = IF type = DO THEN [group EXCEPT !.flags = @ \ {"first in", "first after"}]
                          ELSE group
              /\ UNCHANGED broken
      /\ UNCHANGED others

\* A request of another user is executed.
ExecuteOther(lag) ==
  /\ others < MaxOthers /\ ~broken
  /\ others' = others + 1
  /\ ring' = Cleanup(ring, log, others + 1)
  /\ log' = Dropped(log, others + 1, lag)
  /\ UNCHANGED <<group, broken>>

\* inf_adopted_undo_grouping_start_group, inf_adopted_undo_grouping_end_group
StartGroup(allow) ==
  /\ ~broken /\ group.ref = 0
  /\ group' = [ref |-> 1, flags |-> {"first in"} \union (IF allow THEN {"with prev"} ELSE {})]
  /\ UNCHANGED <<log, others, ring, broken>>
EndGroup(allow) ==
  /\ ~broken /\ group.ref = 1
  /\ group' = [ref |-> 0, flags |-> {"first after"} \union (IF allow THEN {"with next"} ELSE {})]
  /\ UNCHANGED <<log, others, ring, broken>>

Next ==
  \/ \E together \in BOOLEAN, lag \in 0..1 : Execute(DO, together, lag)
  \/ \E type \in {UNDO, REDO}, lag \in 0..1 : Execute(type, FALSE, lag)
  \/ \E lag \in 0..1 : ExecuteOther(lag)
  \/ \E allow \in BOOLEAN : StartGroup(allow) \/ EndGroup(allow)
Spec == Init /\ [][Next]_groupingVars

(***************************************************************************)
(* Properties                                                              *)
(***************************************************************************)
\* How many requests are undone with the next one: the rule of
\* inf_adopted_undo_grouping_get_undo_size, with each item looked up where it is in the
\* ring.  (The code's lookup forgets first_item: see README.)
RECURSIVE GroupSize(_)
GroupSize(p) ==
  LET n == Item(ring, p - 1).req
  IN  IF n \notin Entries(log) THEN NULL
      ELSE IF VDiff(log, others, log.lower[n]) + ring.pos - p >= MaxTotal THEN ring.pos - p
      ELSE IF Item(ring, p - 1).grouped THEN GroupSize(p - 1)
      ELSE ring.pos - (p - 1)

================================================================================
