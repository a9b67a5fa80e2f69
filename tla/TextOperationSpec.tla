-------------------------- MODULE TextOperationSpec --------------------------
(* The way of one text operation through the operations of another user: the *)
(* operation is issued, is transformed against what the other user does      *)
(* concurrently, is executed and undone, and so on.  It is followed in the   *)
(* two forms it has, as its issuer knows it and as others receive it: they   *)
(* differ for a delete, which is sent without its text.                      *)
EXTENDS TextOperation

CONSTANTS Document,     \* the document when the operation is issued
          MaxOthers,    \* bound: concurrent operations of the other user
          MaxMirrors,   \* bound: how often the operation is executed and undone
          MaxText       \* bound: length of deleted text, and the length of inserted text

VARIABLES doc,        \* the document at the current state
          issued,     \* the operation when it was issued
          own,        \* the issuer's form, translated to the current state
          received,   \* the form received by others, translated likewise
          cid,        \* concurrency id of the operation against the other user
          others, mirrors   \* counters for the bounds

vars == <<doc, issued, own, received, cid, others, mirrors>>

(* Fresh characters: no two inserted characters are equal                    *)
NewText(length) == [i \in 1 .. length |-> 10 * (others + 1) + i]

Ranges(d, max) == {r \in (0 .. Len(d)) \X (1 .. max) : r[1] + r[2] <= Len(d)}
Inserts(d) == {Insert(p, NewText(MaxText)) : p \in 0 .. Len(d)}
Deletes(d, max) == {Delete(r[1], Substring(d, r[1], r[2])) : r \in Ranges(d, max)}
Operations(d) == Inserts(d) \cup Deletes(d, MaxText)

(* What a delete becomes on the wire: position and length                    *)
OnWire(op) == IF op.kind = "delete" THEN RemoteDelete(op.pos, Len(op.text), <<>>, 0) ELSE op

Init ==
  /\ doc = Document
  /\ others = 0 /\ mirrors = 0
  /\ issued \in Inserts(Document) \cup Deletes(Document, Len(Document))
  /\ own = issued /\ received = OnWire(issued)
  /\ cid \in {CONCURRENCY_SELF, CONCURRENCY_OTHER}

(* Transformation at one state, the lcs being the operations themselves      *)
At(op, against, id) ==
  IF NeedConcurrencyId(op, against) THEN Transform(op, against, op, against, id)
  ELSE Transform(op, against, NoOperation, NoOperation, id)

(* The other user's operation op is executed first.                          *)
Concurrent(op) ==
  /\ others < MaxOthers
  /\ others' = others + 1
  /\ doc' = Apply(op, doc).doc
  /\ own' = At(own, op, cid)
  /\ received' = At(received, op, cid)
  /\ UNCHANGED <<issued, cid, mirrors>>

(* The operation itself is executed; what its user can issue now is the      *)
(* undo (or, the second time, the redo).                                     *)
Mirror ==
  /\ mirrors < MaxMirrors
  /\ mirrors' = mirrors + 1
  /\ doc' = Apply(received, doc).doc
  /\ own' = Revert(own)
  /\ received' = Revert(own)
  /\ UNCHANGED <<issued, cid, others>>

Next == Mirror \/ \E op \in Operations(doc) : Concurrent(op)

Spec == Init /\ [][Next]_vars

-----------------------------------------------------------------------------
(* The positions and lengths an operation applies, without the texts         *)
Effect(op) == [i \in DOMAIN Unsplit(op) |-> <<Unsplit(op)[i].pos, Length(Unsplit(op)[i])>>]

(* Every form keeps to the positions of the document it is translated to, so *)
(* that apply cannot fail.                                                   *)
TypeOK ==
  /\ doc \in Seq(Nat) /\ others \in 0 .. MaxOthers /\ mirrors \in 0 .. MaxMirrors
  /\ cid \in {CONCURRENCY_SELF, CONCURRENCY_OTHER}
  /\ Apply(own, doc).ok /\ Apply(received, doc).ok

(* Transformation property 1 (test_c1 of inf-test-text-operations.c), at     *)
(* every state the operation can be translated to and for whatever the other *)
(* user does next: the two orders of execution give the same document.       *)
Convergent ==
  \A op \in Operations(doc) :
    LET thenOther == Apply(At(op, own, -cid), Apply(own, doc).doc)
        thenOwn   == Apply(At(own, op, cid), Apply(op, doc).doc)
    IN thenOther.ok /\ thenOwn.ok /\ thenOther.doc = thenOwn.doc

(* Undoing what was just executed restores the document (test_undo).         *)
UndoRestores == Apply(Revert(own), Apply(own, doc).doc) = [doc |-> doc, ok |-> TRUE]

(* A delete received without its text does the same to the document as the   *)
(* issuer's delete, also after both were split and shrunk on the way, and    *)
(* recovers exactly the text that the issuer deleted, so that all logs agree *)
(* on what an undo has to bring back.                                        *)
Reconstructed ==
  /\ Effect(received) = Effect(own)
  /\ ~IsReversible(received) =>
       LET r == Reconstruct(received, doc) IN r.aligned /\ r.text = issued.text
=============================================================================
