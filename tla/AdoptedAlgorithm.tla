-------------------------- MODULE AdoptedAlgorithm --------------------------
(* InfAdoptedAlgorithm: the adOPTed algorithm of one site.  A site holds the *)
(* state vector of its document, the document, and a request log with the    *)
(* translation cache for each user.  Requests are translated through the     *)
(* state space: transformed against requests of other users, folded over     *)
(* pairs of requests that cancel each other, and mirrored into an undo.      *)
EXTENDS StateVector, TextOperation, RequestLog

CONSTANTS UserOrder,       \* the users, in the order of users_begin: their ids
          MaxTotalLogSize  \* the property max-total-log-size

Unlimited == -1   \* G_MAXUINT

ASSUME UserOrderAssumption ==
  /\ UserOrder \in Seq(Nat \ {0})
  /\ \A i, j \in DOMAIN UserOrder : i # j => UserOrder[i] # UserOrder[j]

ASSUME MaxTotalLogSizeAssumption == MaxTotalLogSize \in Nat \cup {Unlimited}

Users == {UserOrder[i] : i \in DOMAIN UserOrder}

(* A request: its type, its user, the state it was made at, and for a DO the *)
(* operation.                                                                *)
Request(type, user, vector, op) ==
  [type |-> type, user |-> user, vector |-> vector, op |-> op]

RequestIndex(r) == r.vector[r.user]   \* inf_adopted_request_get_index

(* The site of user local when its algorithm is constructed for an           *)
(* unmodified buffer.  vector holds for each user a state that user is known *)
(* to have reached; can_undo and can_redo are those of the local user.       *)
(* saved is the document when the buffer was last set to be unmodified, at   *)
(* state modified_time unless that is forgotten.  failed says that a request *)
(* was rejected or could not be applied, aborted that an assertion failed.   *)
NewSite(local, document) ==
  LET zero == [u \in Users |-> 0]
  IN [local |-> local, current |-> zero, vector |-> [u \in Users |-> zero],
      doc |-> document, log |-> [u \in Users |-> NewLog(0)],
      can_undo |-> FALSE, can_redo |-> FALSE,
      modified |-> FALSE, modified_time |-> zero, saved |-> document,
      failed |-> FALSE, aborted |-> FALSE]

Forgotten == <<>>   \* buffer_modified_time is NULL

(* The original request of r: r itself or the DO in the log it refers to     *)
Original(site, r) ==
  LET n == OriginalRequest(site.log[r.user], RequestIndex(r), r.type)
  IN IF n = RequestIndex(r) THEN r ELSE site.log[r.user].request[n]

-----------------------------------------------------------------------------
RequestTransformSelf(r, against, r_lcs, ag_lcs) ==   \* mistake: everybody is self
  [r EXCEPT !.op = Transform(@, against.op, r_lcs, ag_lcs, CONCURRENCY_SELF),
            !.vector = Add(@, against.user, 1)]

(* inf_adopted_request_transform, both requests being at the same state.     *)
(* The user with the higher id is said to be the other.                      *)
RequestTransform(r, against, r_lcs, ag_lcs) ==
  [r EXCEPT !.op = Transform(@, against.op, r_lcs, ag_lcs,
                             IF r.user > against.user THEN CONCURRENCY_OTHER
                             ELSE CONCURRENCY_SELF),
            !.vector = Add(@, against.user, 1)]

RequestMirrorPlain(r, by) ==   \* mistake: the operation is not reverted
  [r EXCEPT !.vector = Add(@, r.user, by)]

(* inf_adopted_request_mirror: by is odd, from a DO to one of its undos      *)
RequestMirror(r, by) ==
  [r EXCEPT !.op = Revert(@), !.vector = Add(@, r.user, by)]

(* inf_adopted_request_fold: by is even, over a do/undo pair of user into    *)
RequestFold(r, into, by) == [r EXCEPT !.vector = Add(@, into, by)]

CanCacheAll(r) == TRUE   \* mistake: also caches what cannot be reverted
(* inf_adopted_algorithm_can_cache                                           *)
CanCache(r) == r.type # DO \/ IsReversible(r.op)

-----------------------------------------------------------------------------
(* The next request of user u on the way of r to the state "to": the one r   *)
(* is folded over, up to and including the request that undoes it ...        *)
Foldable(site, r, to, u) ==
  LET next == NextAssociated(site.log[u], r.vector[u]) IN next # NULL /\ next < to[u]

(* ... or the original of the one r is transformed against, provided it was  *)
(* made before r's state.                                                    *)
Against(site, r, u) ==
  LET log == site.log[u]
      n == r.vector[u]
  IN log.request[OriginalRequest(log, n, log.request[n].type)]

Ahead(r, to) == {u \in Users \ {r.user} : r.vector[u] < to[u]}

(* The users whose requests on that way have been cleaned up                 *)
Lost(site, r, to) == {u \in Ahead(r, to) : r.vector[u] < site.log[u].begin}

Usable(site, r, to) ==
  {u \in Ahead(r, to) \ Lost(site, r, to) : Foldable(site, r, to, u) \/
                        CausallyBefore(Against(site, r, u).vector, r.vector)}

First(S) == UserOrder[CHOOSE i \in DOMAIN UserOrder :
                        UserOrder[i] \in S /\ \A j \in 1 .. i - 1 : UserOrder[j] \notin S]

(* Late mirror, only if no transformation or fold is possible: the index of  *)
(* the undo that reverts r.  It might not be in the log yet; then r's entry  *)
(* is the next one to be undone or redone, and the undo is request to[user]. *)
LateMirrorIndex(site, r, to) ==
  LET log == site.log[r.user]
      n == RequestIndex(r)
      next == NextAssociated(log, n)
  IN IF next # NULL THEN next
     ELSE IF n = (IF log.request[n].type = UNDO THEN log.next_redo ELSE log.next_undo)
       THEN to[r.user] ELSE NULL

RECURSIVE TranslateRequest(_, _, _), TranslateForward(_, _, _)

(* Request r and the request it is transformed against, translated to the    *)
(* same state one after the other                                            *)
TranslateSecond(a, r, to) ==
  TranslateRequest(a.site, r, to) @@ [against |-> a.request]
TranslateBoth(site, r, against, to) ==
  TranslateSecond(TranslateRequest(site, against, to), r, to)

Transformed(pair, lcs_op, lcs_against, site) ==
  [site |-> site,
   request |-> RequestTransform(pair.request, pair.against, lcs_op, lcs_against)]

TransformAtLCS(pair, lcs) ==
  IF lcs.site.aborted THEN lcs
  ELSE Transformed(pair, lcs.request.op, lcs.against.op, lcs.site)

TransformPair(pair, r, against, at) ==
  LET lcs == LeastCommonSuccessor(r.vector, against.vector)
  IN IF pair.site.aborted THEN pair
     ELSE IF ~NeedConcurrencyId(pair.request.op, pair.against.op)
       THEN Transformed(pair, NoOperation, NoOperation, pair.site)
     ELSE TransformAtLCS(pair, IF lcs = at THEN pair
                               ELSE TranslateBoth(pair.site, r, against, lcs))

(* inf_adopted_algorithm_transform_request: both requests are translated to  *)
(* the state at (which fills the cache) before they are transformed; the     *)
(* least common successor decides a tie.                                     *)
TransformRequest(site, r, against, at) ==
  TransformPair(TranslateBoth(site, r, against, at), r, against, at)

(* One step of inf_adopted_algorithm_translate_request_forward.  It looks at *)
(* the users in their order until one is usable and asserts for each that    *)
(* its log still has the next request, ...                                   *)
AbortTranslation(site, r) == [site |-> [site EXCEPT !.aborted = TRUE], request |-> r]

TransformForward(t, r) == TransformRequest(t.site, r, t.request, r.vector)

StepOver(site, r, to, u) ==
  IF u \in Lost(site, r, to) THEN AbortTranslation(site, r)
  ELSE IF Foldable(site, r, to, u)
    THEN [site |-> site,
          request |-> RequestFold(r, u, NextAssociated(site.log[u], r.vector[u])
                                          - r.vector[u] + 1)]
  ELSE TransformForward(TranslateRequest(site, Against(site, r, u), r.vector), r)

(* ... and in the end that one way was open.                                 *)
StepMirror(site, r, to, mirror) ==
  IF mirror \in RequestIndex(r) + 1 .. to[r.user]
    THEN [site |-> site, request |-> RequestMirror(r, mirror - RequestIndex(r))]
    ELSE AbortTranslation(site, r)

StepForward(site, r, to, users) ==
  IF users # {} THEN StepOver(site, r, to, First(users))
  ELSE StepMirror(site, r, to, LateMirrorIndex(site, r, to))

Forward(t, to) == TranslateForward(t.site, t.request, to)

TranslateForward(site, r, to) ==
  IF site.aborted \/ r.vector = to THEN [request |-> r, site |-> site]
  ELSE Forward(StepForward(site, r, to, Usable(site, r, to) \cup Lost(site, r, to)), to)

(* inf_adopted_algorithm_translate_request: a request that was translated to *)
(* this state before comes from the cache of its user's log.                 *)
EnterCache(t, to) ==
  IF t.site.aborted \/ ~CanCache(t.request) THEN t
  ELSE [t EXCEPT !.site.log[t.request.user] =
          AddCachedRequest(@, [index |-> RequestIndex(t.request), vector |-> to,
                               op |-> t.request.op])]

TranslateRequest(site, r, to) ==
  LET hit == LookupCachedRequest(site.log[r.user], to)
  IN IF hit # {}
       THEN [request |-> Request(DO, r.user, to, (CHOOSE c \in hit : TRUE).op), site |-> site]
       ELSE EnterCache(TranslateForward(site, r, to), to)

-----------------------------------------------------------------------------
(* The requests of a log from number n - 1 on down to number m that are left *)
(* when every undo and redo is skipped together with what it undoes: where   *)
(* the loop of inf_adopted_algorithm_buffer_states_equivalent ends.          *)
RECURSIVE SkipPairs(_, _, _)
SkipPairs(log, n, m) ==
  IF n <= m \/ n <= log.begin \/ log.request[n - 1].type = DO THEN n
  ELSE SkipPairs(log, PrevAssociated(log, n - 1, log.request[n - 1].type), m)

StatesEquivalentOwn(site, first, second) ==   \* mistake: only the first user is looked at
  LET u == UserOrder[1] IN SkipPairs(site.log[u], second[u], first[u]) = first[u]

StatesEquivalent(site, first, second) ==
  \A u \in Users : SkipPairs(site.log[u], second[u], first[u]) = first[u]

(* inf_adopted_algorithm_buffer_notify_modified_cb, when somebody modifies   *)
(* the buffer directly ...                                                   *)
BufferModified(site) ==
  [site EXCEPT !.modified = TRUE,
               !.modified_time =
                 IF ~site.modified /\ @ # Forgotten /\ StatesEquivalent(site, @, site.current)
                   THEN Forgotten ELSE @]

(* ... and when it is saved.                                                 *)
BufferSaved(site) ==
  IF ~site.modified THEN site
  ELSE [site EXCEPT !.modified = FALSE, !.modified_time = site.current, !.saved = site.doc]

(* inf_adopted_algorithm_can_undo_redo: is it request number n of user u     *)
(* that the user can undo or redo?  Not if others might have dropped it.     *)
CanUndoRedo(site, u, n) ==
  /\ n # NULL
  /\ MaxTotalLogSize # Unlimited =>
       LET original == site.log[u].request[site.log[u].original[n]]
       IN Vdiff(original.vector, site.vector[u]) < MaxTotalLogSize

(* inf_adopted_algorithm_update_undo_redo, after a request was executed      *)
UpdateUndoRedo(site) ==
  [site EXCEPT !.can_undo = CanUndoRedo(site, site.local, site.log[site.local].next_undo),
               !.can_redo = CanUndoRedo(site, site.local, site.log[site.local].next_redo)]

(* inf_adopted_algorithm_can_undo and can_redo, as execute_request uses them *)
CanExecute(site, r) ==
  CASE r.type = DO -> TRUE
    [] r.type # DO /\ r.user # site.local ->
         CanUndoRedo(site, r.user, Associate(site.log[r.user], r.type))
    [] r.type = UNDO /\ r.user = site.local -> site.can_undo
    [] r.type = REDO /\ r.user = site.local -> site.can_redo

(* inf_adopted_algorithm_log_request, for a request that affects the buffer  *)
LogRequest(site, r) ==
  LET logged == [site EXCEPT !.log[r.user] = AddRequest(@, RequestIndex(r), r),
                             !.current = Add(@, r.user, 1),
                             !.vector[site.local] = Add(site.current, r.user, 1)]
  IN IF /\ logged.modified_time # Forgotten
        /\ StatesEquivalent(logged, logged.modified_time, logged.current)
       THEN [logged EXCEPT !.modified = FALSE, !.modified_time = logged.current]
       ELSE logged

(* inf_adopted_algorithm_apply_request: a delete whose text only the         *)
(* execution tells is logged in its reversible form.                         *)
LogApplied(site, result, log_request) ==
  IF ~result.ok THEN [site EXCEPT !.doc = result.doc, !.failed = TRUE]
  ELSE UpdateUndoRedo(LogRequest([site EXCEPT !.doc = result.doc, !.modified = TRUE],
                                 log_request))

ApplyRequest(site, r, translated) ==
  LogApplied(site, Apply(translated.op, site.doc),
             IF r.type = DO
               THEN [r EXCEPT !.op = ReversibleOperation(@, translated.op, site.doc)] ELSE r)

(* inf_adopted_algorithm_execute_request.  A local DO is already in the      *)
(* buffer when it is executed (apply is FALSE).  That there is an original   *)
(* DO request is an assertion.                                               *)
ExecuteTranslated(t, r, apply) ==
  IF t.site.aborted THEN t.site
  ELSE IF ~apply THEN UpdateUndoRedo(LogRequest(t.site, r))
  ELSE ApplyRequest(t.site, r, t.request)

ExecuteRequest(site, r, apply) ==
  LET original == Original(site, r)
  IN IF ~CanExecute(site, r) THEN [site EXCEPT !.failed = TRUE]
     ELSE IF original.type # DO THEN [site EXCEPT !.aborted = TRUE]
     ELSE ExecuteTranslated(TranslateRequest(site, original, site.current), r, apply)

-----------------------------------------------------------------------------
(* inf_adopted_algorithm_cleanup.  lcp is the latest state that all users    *)
(* are known to have reached; whole related sets are removed from the start  *)
(* of each log as long as they are processed by everybody and too old.       *)
LCP(site) == FoldFunction(LeastCommonPredecessor, site.current, site.vector)

RemovableOld(log, n, u, lcp) ==   \* mistake: old enough is enough
  Vdiff(log.request[n].vector, lcp) >= MaxTotalLogSize

Removable(log, n, u, lcp) ==
  /\ CausallyBeforeInc(log.request[UpperRelated(log, n)].vector, lcp, u)
  /\ Vdiff(log.request[n].vector, lcp) >= MaxTotalLogSize

RECURSIVE CleanUpTo(_, _, _, _)
CleanUpTo(log, n, u, lcp) ==
  IF n < log.end /\ Removable(log, n, u, lcp)
    THEN CleanUpTo(log, UpperRelated(log, n) + 1, u, lcp) ELSE n

Cleanup(site) ==
  IF MaxTotalLogSize = Unlimited THEN site
  ELSE LET lcp == LCP(site)
       IN [site EXCEPT !.log = [u \in Users |->
             RemoveRequests(@[u], CleanUpTo(@[u], @[u].begin, u, lcp))]]
=============================================================================
