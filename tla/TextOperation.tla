--------------------------- MODULE TextOperation ----------------------------
(* Split operations and the operations on all of them: transformation,       *)
(* application, the operation to keep in the log, and its reverse.  The      *)
(* parts of a split operation may be split operations.                       *)
EXTENDS TextTransform

RECURSIVE Transform(_, _, _, _, _)

(* inf_adopted_split_operation_transform                                     *)
SplitTransform(op, against, op_lcs, ag_lcs, cid) ==
  LET both == IsSplit(op_lcs)
      first_lcs == IF both THEN op_lcs.first ELSE op_lcs
      second_lcs == IF both THEN op_lcs.second ELSE op_lcs
      new_ag_lcs == IF both THEN Transform(ag_lcs, first_lcs, ag_lcs, first_lcs, -cid)
                    ELSE ag_lcs
      new_against == Transform(against, op.first, ag_lcs, first_lcs, -cid)
  IN Split(Transform(op.first, against, first_lcs, ag_lcs, cid),
           Transform(op.second, new_against, second_lcs, new_ag_lcs, cid))

(* inf_adopted_split_operation_transform_other, seen from the operation that *)
(* is transformed                                                            *)
TransformAgainstSplit(op, against, op_lcs, ag_lcs, cid) ==
  LET both == IsSplit(ag_lcs)
      first_lcs == IF both THEN ag_lcs.first ELSE ag_lcs
      second_lcs == IF both THEN ag_lcs.second ELSE ag_lcs
      tmp_lcs == IF both THEN Transform(op_lcs, first_lcs, op_lcs, first_lcs, cid)
                 ELSE op_lcs
      tmp == Transform(op, against.first, op_lcs, first_lcs, cid)
  IN Transform(tmp, against.second, tmp_lcs, second_lcs, cid)

(* inf_adopted_operation_transform: includes the effect of against in op.    *)
(* op_lcs and ag_lcs are the two at an earlier state, or NoOperation.        *)
Transform(op, against, op_lcs, ag_lcs, cid) ==
  CASE IsSplit(against) -> TransformAgainstSplit(op, against, op_lcs, ag_lcs, cid)
    [] ~IsSplit(against) /\ IsSplit(op) -> SplitTransform(op, against, op_lcs, ag_lcs, cid)
    [] ~IsSplit(against) /\ ~IsSplit(op) -> TransformSimple(op, against, op_lcs, ag_lcs, cid)

(* inf_adopted_operation_need_concurrency_id: does a tie have to be broken?  *)
RECURSIVE NeedConcurrencyId(_, _)
NeedConcurrencyId(op, against) ==
  CASE IsSplit(against) \/ IsSplit(op) ->
         LET split == IF IsSplit(against) THEN against ELSE op
             other == IF IsSplit(against) THEN op ELSE against
         IN \/ NeedConcurrencyId(split.first, other)
            \/ NeedConcurrencyId(split.second,
                 Transform(other, split.first, NoOperation, NoOperation, CONCURRENCY_NONE))
    [] ~IsSplit(against) /\ ~IsSplit(op) -> NeedConcurrencyIdSimple(op, against)

-----------------------------------------------------------------------------
(* inf_adopted_split_operation_unsplit: the operations to apply one by one   *)
RECURSIVE Unsplit(_)
Unsplit(op) == IF IsSplit(op) THEN Unsplit(op.first) \o Unsplit(op.second) ELSE <<op>>

(* inf_adopted_operation_apply.  The parts of a split before the one that    *)
(* fails stay applied.                                                       *)
Apply(op, doc) ==
  FoldLeft(LAMBDA acc, part : IF acc.ok /\ InBounds(part, acc.doc)
                                THEN [acc EXCEPT !.doc = ApplySimple(part, @)]
                                ELSE [acc EXCEPT !.ok = FALSE],
           [doc |-> doc, ok |-> TRUE], Unsplit(op))

(* inf_adopted_operation_is_reversible                                       *)
IsReversible(op) == \A i \in DOMAIN Unsplit(op) : Unsplit(op)[i].kind # "remote"

(* inf_text_remote_delete_operation_apply_transformed: the text a remote     *)
(* delete deletes, put together from the known pieces and from the buffer,   *)
(* part by part as they are applied.  aligned is the assertion that every    *)
(* piece ends up at its position.                                            *)
Reconstruct(transformed, doc) ==
  LET Step(acc, part) ==
        LET pieces == IF part.length = 0 THEN part.recon
                      ELSE ReconFeed(part.recon, 0, Substring(acc.doc, part.pos, part.length))
            Put(a, piece) ==
              [text |-> a.text \o piece.text,
               aligned |-> a.aligned /\ part.offset + piece.position = Len(a.text)]
            put == FoldLeft(Put, [text |-> acc.text, aligned |-> acc.aligned], pieces)
        IN [doc |-> ApplySimple(part, acc.doc), text |-> put.text, aligned |-> put.aligned]
  IN FoldLeft(Step, [doc |-> doc, text |-> <<>>, aligned |-> TRUE], Unsplit(transformed))

ReversibleOperationShrunk(op, transformed, doc) ==   \* mistake: only what is still there
  IF op.kind = "remote" /\ transformed.kind = "remote"
    THEN Delete(op.pos, Substring(doc, transformed.pos, transformed.length)) ELSE op

(* inf_adopted_operation_apply_transformed: the operation to keep in the     *)
(* request log, reversible if possible.                                      *)
ReversibleOperation(op, transformed, doc) ==
  IF op.kind = "remote" THEN Delete(op.pos, Reconstruct(transformed, doc).text) ELSE op

RECURSIVE RevertInOrder(_)
RevertInOrder(op) ==   \* mistake: the parts are not swapped
  IF IsSplit(op) THEN Split(RevertInOrder(op.first), RevertInOrder(op.second))
  ELSE RevertSimple(op)

(* inf_adopted_operation_revert                                              *)
RECURSIVE Revert(_)
Revert(op) ==
  IF IsSplit(op) THEN Split(Revert(op.second), Revert(op.first)) ELSE RevertSimple(op)
=============================================================================
