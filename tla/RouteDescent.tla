---------------------------- MODULE RouteDescent ----------------------------
(***************************************************************************)
(* What the routing layer promises, without messages, tables or threads.   *)
(*                                                                         *)
(* Every node has a cost and a next hop for every destination.  In one     *)
(* step one node improves some of its costs through ONE neighbour, never   *)
(* below "link cost + what that neighbour currently claims", and makes     *)
(* that neighbour the next hop of exactly the destinations it improved.    *)
(* No node ever gives up a cost it has claimed.                            *)
(*                                                                         *)
(* That is enough to make the next hops free of loops at every instant.    *)
(***************************************************************************)
EXTENDS Overlay

VARIABLES
    cost,           \* cost[i][d]: what node i claims it takes to reach d
    route           \* route[i][d]: the next hop of node i towards d

vars == <<cost, route>>

(* Only a node's neighbours are known at the start.                        *)
Init ==
    /\ cost  = [i \in Node |-> InitialRow(i)]
    /\ route = [i \in Node |-> InitialRoutes(i)]

(* Node i has heard from node j.                                           *)
Improve(i, j) ==
    /\ cost'  \in [Node -> [Dest -> Cost]]
    /\ route' \in [Node -> [Dest -> Node \cup {NoRoute}]]
    /\ \A k \in Node \ {i} : cost'[k] = cost[k] /\ route'[k] = route[k]
    /\ \A d \in Dest :
          \/ /\ cost'[i][d] < cost[i][d]
             /\ cost'[i][d] >= NbrCost(i, j) + cost[j][d]
             /\ route'[i][d] = j
          \/ /\ cost'[i][d] = cost[i][d]
             /\ route'[i][d] = route[i][d]

Next == \E i, j \in Node : Improve(i, j)

Spec == Init /\ [][Next]_vars

-----------------------------------------------------------------------------
(* A node with a next hop claims at least one link more than the next hop  *)
(* claims now; without one it claims nothing, and needs none for itself.   *)
Descent ==
    \A i \in Node, d \in Dest :
        LET n == route[i][d]
        IN  /\ n # NoRoute => /\ n \in Nbr(i)
                             /\ NbrCost(i, n) + cost[n][d] =< cost[i][d]
                             /\ cost[i][d] < INFINITE_COST
            /\ (n = NoRoute /\ i # d) => cost[i][d] = INFINITE_COST
            /\ i = d => (n = NoRoute /\ cost[i][d] = 0)

(* No set of nodes keeps a destination's traffic to itself: following the  *)
(* next hops from any node leads out of every set it is in, so to a node   *)
(* without a next hop, and never around a loop.                            *)
LoopFree ==
    \A d \in Dest : \A S \in (SUBSET Node) \ {{}} :
        \E i \in S : route[i][d] \notin S
=============================================================================
