------------------------------- MODULE Overlay -------------------------------
(***************************************************************************)
(* The overlay as topology.dat describes it: what topology.c,              *)
(* nbrcosttable.c and the initialisation of the two routing tables read    *)
(* from it.                                                                *)
(***************************************************************************)
EXTENDS Naturals

CONSTANTS
    Node,           \* node IDs of topology.dat
    Dest,           \* the destinations whose table entries are looked at
    Link,           \* Link[i][j]: direct link cost, INFINITE_COST if no link
    INFINITE_COST,  \* constants.h: 999
    NoRoute,        \* routingtable_getnextnode's -1
    Shortest        \* Shortest[i][d]: no path from i to d is cheaper than this

Cost == 0 .. INFINITE_COST
Row  == [Dest -> Cost]

(* topology_getNbrArray.                                                   *)
Nbr(i) == {j \in Node \ {i} : Link[i][j] < INFINITE_COST}

(* nbrcosttable_getcost: INFINITE_COST for a node that is no neighbour.    *)
NbrCost(i, j) == IF j \in Nbr(i) THEN Link[i][j] ELSE INFINITE_COST

(* The own row of a new distance vector table.                             *)
InitialRow(i) == [d \in Dest |-> IF d = i THEN 0 ELSE NbrCost(i, d)]

(* A new routing table: every neighbour is its own next hop.               *)
InitialRoutes(i) == [d \in Dest |-> IF d \in Nbr(i) THEN d ELSE NoRoute]

ASSUME OverlayAssumption ==
    /\ Dest \subseteq Node
    /\ INFINITE_COST \in Nat \ {0}
    /\ Link \in [Node -> [Node -> 1 .. INFINITE_COST]]
    /\ NoRoute \notin Node

(* Shortest is any lower estimate consistent with the links; a model gives *)
(* it the real shortest path costs.                                        *)
ASSUME ShortestAssumption ==
    /\ Shortest \in [Node -> [Dest -> Cost]]
    /\ \A d \in Dest : Shortest[d][d] = 0
    /\ \A i, j \in Node, d \in Dest :
          Shortest[i][d] =< NbrCost(i, j) + Shortest[j][d]
=============================================================================
