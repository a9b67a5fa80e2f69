----------------------------- MODULE UndoStack ------------------------------
(* What a request log promises the user about undo and redo: undo takes back *)
(* the latest request that is not undone, redo brings back the one that was  *)
(* undone last, and a new request gives up everything that could be redone.  *)
(* Requests are numbers that grow with time, so the request to undo is the   *)
(* largest of the done ones and the request to redo the smallest of the      *)
(* undone ones.                                                              *)
EXTENDS Integers

CONSTANT Requests   \* the requests a user may issue: a set of integers

VARIABLES done,    \* the requests that could be undone, one after the other
          undone   \* the requests that could be redone

stackVars == <<done, undone>>

Largest(S) == CHOOSE m \in S : \A x \in S : x <= m
Smallest(S) == CHOOSE m \in S : \A x \in S : m <= x

StackInit == done = {} /\ undone = {}

Do == \E d \in Requests : /\ \A x \in done : x < d
                          /\ done' = done \cup {d}
                          /\ undone' = {}

Undo == /\ done # {}
        /\ done' = done \ {Largest(done)}
        /\ undone' = undone \cup {Largest(done)}

Redo == /\ undone # {}
        /\ done' = done \cup {Smallest(undone)}
        /\ undone' = undone \ {Smallest(undone)}

(* The oldest requests are forgotten; those that could be redone go only     *)
(* together with everything else.                                            *)
Forget == \/ /\ \E S \in SUBSET done : /\ \A x \in S, y \in done \ S : x < y
                                       /\ done' = done \ S
             /\ UNCHANGED undone
          \/ done' = {} /\ undone' = {}

StackNext == Do \/ Undo \/ Redo \/ Forget

StackSpec == StackInit /\ [][StackNext]_stackVars
=============================================================================
