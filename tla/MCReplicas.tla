----------------------------- MODULE MCReplicas -----------------------------
(* Two or three users for TLC.                                               *)
EXTENDS Replicas

TwoUsers == <<1, 2>>
ThreeUsers == <<1, 2, 3>>
OneCharacter == <<1>>
TwoCharacters == <<1, 2>>

Anywhere == 9
KindUpTo(k, l, p) == [kind |-> k, length |-> l, last |-> p]
Kind(k, l) == KindUpTo(k, l, Anywhere)
DeleteAndInsert ==
  [u \in Users |-> IF u = 1 THEN {Kind("delete", 1), Kind("delete", 2)}
                   ELSE {KindUpTo("insert", 1, 1)}]
DeleteAndInserts ==
  [u \in Users |-> {Kind(IF u = 1 THEN "delete" ELSE "insert", 1)}]
OneEach == [u \in Users |-> 1]
ThreeAndTwo == [u \in Users |-> IF u = 1 THEN 3 ELSE 2]
FirstSaves == [u \in Users |-> IF u = 1 THEN 1 ELSE 0]
NobodySaves == [u \in Users |-> 0]
=============================================================================
