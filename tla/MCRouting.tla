------------------------------ MODULE MCRouting ------------------------------
(***************************************************************************)
(* Instances of Routing for TLC.                                           *)
(***************************************************************************)
EXTENDS Routing

CONSTANTS csnetlab_1, csnetlab_2, csnetlab_3

MCInfinite == 20

(* The cost of the links of an undirected graph, given as a function from  *)
(* pairs of nodes.                                                         *)
LinkCosts(nodes, weight) ==
    [i \in nodes |-> [j \in nodes |->
        IF {i, j} \in DOMAIN weight THEN weight[{i, j}] ELSE MCInfinite]]

(* Floyd and Warshall's: the cheapest paths whose inner nodes are among    *)
(* the first n of the given list of nodes.                                 *)
CheapestPaths(nodes, list, link) ==
    LET Smaller(a, b) == IF a < b THEN a ELSE b
        D[n \in 0 .. Len(list)] ==
            IF n = 0
            THEN [i \in nodes |-> [d \in nodes |-> IF i = d THEN 0 ELSE link[i][d]]]
            ELSE [i \in nodes |-> [d \in nodes |->
                     Smaller(D[n-1][i][d], D[n-1][i][list[n]] + D[n-1][list[n]][d])]]
    IN  D[Len(list)]

Restricted(cost, dests) == [i \in DOMAIN cost |-> [d \in dests |-> cost[i][d]]]

(* The triangle of the nodes 1, 2, 3 in which the direct link 1-3 is dear. *)
TriNodes == {csnetlab_1, csnetlab_2, csnetlab_3}
TriLink ==
    LinkCosts(TriNodes, [e \in {{csnetlab_1, csnetlab_2}, {csnetlab_2, csnetlab_3},
                                {csnetlab_1, csnetlab_3}} |->
                            IF e = {csnetlab_1, csnetlab_3} THEN 4 ELSE 1])

(* The SIP process of 2, the node in the middle, starts at a time of its   *)
(* own: until then 1 and 3 talk to each other only over the dear link.     *)
MidStarted == {csnetlab_1, csnetlab_3}
MCSources == {csnetlab_1}
TriDest == {csnetlab_3}
TriShortest ==
    Restricted(CheapestPaths(TriNodes, <<csnetlab_1, csnetlab_2, csnetlab_3>>, TriLink), TriDest)
=============================================================================
