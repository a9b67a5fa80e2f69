---------------------------- MODULE TextTransform ----------------------------
(* The text operations and their inclusion transformation: the default       *)
(* insert and delete operations, the remote delete operation (which knows    *)
(* only the length of the text it deletes and reconstructs the text from the *)
(* operations it is transformed against), and the split operation that a     *)
(* delete becomes when text is inserted into its range.  A chunk of text is  *)
(* a sequence of characters.  The transformation of split operations, which  *)
(* nest, is in TextOperation.                                                *)
EXTENDS Integers, Sequences, SequencesExt

Insert(pos, text) == [kind |-> "insert", pos |-> pos, text |-> text]
Delete(pos, text) == [kind |-> "delete", pos |-> pos, text |-> text]
Split(first, second) == [kind |-> "split", first |-> first, second |-> second]

(* recon is the text already deleted by others, as pieces in order, each     *)
(* with its position relative to offset in the text the operation deleted    *)
(* originally.                                                               *)
RemoteDelete(pos, length, recon, offset) ==
  [kind |-> "remote", pos |-> pos, length |-> length,
   recon |-> recon, offset |-> offset]

NoOperation == [kind |-> "none"]   \* a NULL operation pointer

IsSplit(op) == op.kind = "split"
IsInsert(op) == op.kind = "insert"
IsDelete(op) == op.kind \in {"delete", "remote"}
Length(op) == IF op.kind = "remote" THEN op.length ELSE Len(op.text)

CONCURRENCY_OTHER == -1
CONCURRENCY_NONE == 0
CONCURRENCY_SELF == 1

(* inf_text_chunk_substring and inf_text_chunk_erase; offsets count from 0   *)
Substring(text, begin, length) == SubSeq(text, begin + 1, begin + length)
Erase(text, begin, length) ==
  SubSeq(text, 1, begin) \o SubSeq(text, begin + length + 1, Len(text))

-----------------------------------------------------------------------------
InsertTransformInsertTie(op, against, op_lcs, ag_lcs, cid) ==   \* mistake: nobody yields
  IF op.pos <= against.pos THEN op ELSE [op EXCEPT !.pos = @ + Length(against)]

(* inf_text_insert_operation_transform_insert: at equal positions the order  *)
(* of the operations at an earlier state decides, then the concurrency id.   *)
InsertTransformInsert(op, against, op_lcs, ag_lcs, cid) ==
  LET stays == \/ op.pos < against.pos
               \/ /\ op.pos = against.pos
                  /\ \/ op_lcs.pos < ag_lcs.pos
                     \/ op_lcs.pos = ag_lcs.pos /\ cid = CONCURRENCY_OTHER
  IN IF stays THEN op ELSE [op EXCEPT !.pos = @ + Length(against)]

InsertTransformDelete(op, against) ==
  [op EXCEPT !.pos = IF @ >= against.pos + Length(against) THEN @ - Length(against)
                     ELSE IF @ < against.pos THEN @ ELSE against.pos]

(* inf_text_remote_delete_operation_recon_feed: adds the text at a position  *)
(* of the text that is still to be deleted, between the known pieces.        *)
ReconFeed(recon, position, text) ==
  LET Feed(acc, piece) ==
        LET at == position + acc.fed + acc.len
            room == piece.position - at
            left == Len(text) - acc.fed
            take == IF room > 0 /\ left > 0 THEN (IF room < left THEN room ELSE left) ELSE 0
            new == IF take = 0 THEN <<>>
                   ELSE <<[position |-> at, text |-> Substring(text, acc.fed, take)]>>
        IN [fed |-> acc.fed + take, len |-> acc.len + Len(piece.text),
            list |-> acc.list \o new \o <<piece>>]
      end == FoldLeft(Feed, [fed |-> 0, len |-> 0, list |-> <<>>], recon)
  IN IF end.fed = Len(text) THEN end.list
     ELSE Append(end.list, [position |-> position + end.fed + end.len,
                            text |-> Substring(text, end.fed, Len(text) - end.fed)])

TransformSplitOffset(op, split_pos, split_len) ==   \* mistake: offset without the pieces
  IF op.kind = "delete"
    THEN Split([op EXCEPT !.text = Substring(@, 0, split_pos)],
               [op EXCEPT !.pos = @ + split_len,
                          !.text = Substring(@, split_pos, Len(@) - split_pos)])
    ELSE Split(RemoteDelete(op.pos, split_pos, op.recon, op.offset),
               RemoteDelete(op.pos + split_len, op.length - split_pos, <<>>,
                            op.offset + split_pos))

(* The transform_split functions of the two delete operations.  The pieces   *)
(* of a remote delete go to the part that deletes the text around them.      *)
TransformSplit(op, split_pos, split_len) ==
  IF op.kind = "delete"
    THEN Split([op EXCEPT !.text = Substring(@, 0, split_pos)],
               [op EXCEPT !.pos = @ + split_len,
                          !.text = Substring(@, split_pos, Len(@) - split_pos)])
    ELSE LET Deal(acc, piece) ==
               IF piece.position - acc.len <= split_pos
                 THEN [acc EXCEPT !.len = @ + Len(piece.text), !.first = Append(@, piece)]
                 ELSE [acc EXCEPT !.second =
                         Append(@, [piece EXCEPT !.position = @ - (split_pos + acc.len)])]
             end == FoldLeft(Deal, [len |-> 0, first |-> <<>>, second |-> <<>>], op.recon)
         IN Split(RemoteDelete(op.pos, split_pos, end.first, op.offset),
                  RemoteDelete(op.pos + split_len, op.length - split_pos, end.second,
                               op.offset + split_pos + end.len))

DeleteTransformInsert(op, against) ==
  IF against.pos >= op.pos + Length(op) THEN op
  ELSE IF against.pos <= op.pos THEN [op EXCEPT !.pos = @ + Length(against)]
  ELSE TransformSplit(op, against.pos - op.pos, Length(against))

(* transform_overlap: length characters from begin on are deleted already    *)
TransformOverlap(op, other, position, begin, other_begin, length) ==
  IF op.kind = "delete"
    THEN Delete(position, Erase(op.text, begin, length))
    ELSE RemoteDelete(position, op.length - length,
                      ReconFeed(op.recon, begin, Substring(other.text, other_begin, length)),
                      op.offset)

DeleteTransformDelete(op, against) ==
  LET opEnd == op.pos + Length(op)
      agEnd == against.pos + Length(against)
  IN IF opEnd <= against.pos THEN op
     ELSE IF op.pos >= agEnd THEN [op EXCEPT !.pos = @ - Length(against)]
     ELSE IF against.pos <= op.pos
       THEN TransformOverlap(op, against, against.pos, 0, op.pos - against.pos,
                             IF agEnd >= opEnd THEN Length(op) ELSE agEnd - op.pos)
       ELSE TransformOverlap(op, against, op.pos, against.pos - op.pos, 0,
                             IF agEnd >= opEnd THEN opEnd - against.pos ELSE Length(against))

-----------------------------------------------------------------------------
(* The transformation of an insert or delete against another one: the class  *)
(* of the one and the type of the other choose the function.                 *)
TransformSimple(op, against, op_lcs, ag_lcs, cid) ==
  CASE IsInsert(op) /\ IsInsert(against) ->
         InsertTransformInsert(op, against, op_lcs, ag_lcs, cid)
    [] IsInsert(op) /\ IsDelete(against) -> InsertTransformDelete(op, against)
    [] IsDelete(op) /\ IsInsert(against) -> DeleteTransformInsert(op, against)
    [] IsDelete(op) /\ IsDelete(against) -> DeleteTransformDelete(op, against)

(* Two of them need a concurrency id where both insert.                      *)
NeedConcurrencyIdSimple(op, against) ==
  IsInsert(op) /\ IsInsert(against) /\ op.pos = against.pos

-----------------------------------------------------------------------------
(* Whether the buffer has the positions the operation refers to; otherwise   *)
(* apply fails with an INF_TEXT_OPERATION_ERROR.                             *)
InBounds(op, doc) ==
  IF IsInsert(op) THEN op.pos <= Len(doc) ELSE op.pos + Length(op) <= Len(doc)

ApplySimple(op, doc) ==
  IF IsInsert(op)
    THEN SubSeq(doc, 1, op.pos) \o op.text \o SubSeq(doc, op.pos + 1, Len(doc))
    ELSE Erase(doc, op.pos, Length(op))

(* inf_adopted_operation_revert of a default operation                       *)
RevertSimple(op) ==
  IF IsInsert(op) THEN Delete(op.pos, op.text) ELSE Insert(op.pos, op.text)
=============================================================================
