-------------------------- MODULE CausalBroadcast ---------------------------
(* What sessions promise the algorithm: a site executes a request of another *)
(* site's user once, and only when it has executed every request that user   *)
(* had executed before.                                                      *)
EXTENDS StateVector, Sequences

CONSTANTS Users, Sites, Home

VARIABLES issued,    \* of each user, the states at which it made its requests
          current    \* of each site, the number of each user's requests it has executed

bvars == <<issued, current>>

BroadcastInit ==
  /\ issued = [u \in Users |-> <<>>]
  /\ current = [s \in Sites |-> [u \in Users |-> 0]]

(* A user issues requests, one after the other, executed at its own site     *)
Issue(u) ==
  LET n == Len(issued'[u]) - Len(issued[u])
  IN /\ n > 0
     /\ issued' = [issued EXCEPT ![u] = @ \o [i \in 1 .. n |-> Add(current[Home[u]], u, i - 1)]]
     /\ current' = [current EXCEPT ![Home[u]] = Add(@, u, n)]

(* A site executes requests of others, and what they depend on before        *)
Deliver(s) ==
  /\ UNCHANGED issued
  /\ \A t \in Sites \ {s} : current'[t] = current[t]
  /\ \A u \in Users :
       /\ current'[s][u] \in current[s][u] .. Len(issued[u])
       /\ Home[u] = s => current'[s][u] = current[s][u]
       /\ \A i \in 1 .. current'[s][u] : CausallyBefore(issued[u][i], current'[s])

BroadcastNext == (\E u \in Users : Issue(u)) \/ (\E s \in Sites : Deliver(s))

BroadcastSpec == BroadcastInit /\ [][BroadcastNext]_bvars
=============================================================================
