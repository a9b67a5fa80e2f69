---------------------------- MODULE StateVector -----------------------------
(* InfAdoptedStateVector: how many requests of each user have been processed *)
(* at a state.  The sorted array of (id, n) pairs is a function from users   *)
(* to numbers; a component that is not in the array counts as 0 everywhere.  *)
EXTENDS Integers, Functions

(* inf_adopted_state_vector_add                                              *)
Add(v, u, n) == [v EXCEPT ![u] = @ + n]

(* inf_adopted_state_vector_causally_before, also said v <= w                *)
CausallyBefore(v, w) == \A u \in DOMAIN v : v[u] <= w[u]

(* inf_adopted_state_vector_causally_before_inc                              *)
CausallyBeforeInc(v, w, inc) == CausallyBefore(Add(v, inc, 1), w)

(* inf_adopted_state_vector_vdiff: how many requests lie between v and w     *)
SumOf(v) == FoldFunction(LAMBDA x, y : x + y, 0, v)
Vdiff(v, w) == SumOf(w) - SumOf(v)

(* inf_adopted_algorithm_least_common_successor, _predecessor                *)
LeastCommonSuccessor(v, w) == [u \in DOMAIN v |-> IF v[u] >= w[u] THEN v[u] ELSE w[u]]
LeastCommonPredecessor(v, w) == [u \in DOMAIN v |-> IF v[u] <= w[u] THEN v[u] ELSE w[u]]
=============================================================================
