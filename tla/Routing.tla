------------------------------- MODULE Routing -------------------------------
(***************************************************************************)
(* The SIP layer of simpleNet: distance-vector routing between the nodes   *)
(* of the overlay, and the forwarding of SIP packets along its tables.     *)
(*                                                                         *)
(* Three threads of each SIP process are modelled: routeupdate_daemon      *)
(* (Snapshot, Broadcast), pkthandler (HandleRouteUpdate, HandleSipPacket)  *)
(* and waitSTCP (SendSegment).  The path from one SIP process to the SIP   *)
(* process of a neighbour (its SON process, a TCP connection, the SON of   *)
(* the neighbour) is one FIFO channel; the neighbour's SON discards what   *)
(* arrives before its SIP process is connected (DiscardWithoutSIP).        *)
(***************************************************************************)
EXTENDS Overlay, Sequences, FiniteSets

CONSTANTS
    Started,        \* nodes whose SIP process is up in the initial state
    NoRow,          \* routeupdate_daemon holds no copy of its distance vector
    Sources,        \* bound: nodes whose STCP process sends segments
    MaxInFlight,    \* bound: packets in one channel (a full one blocks the sender)
    MaxPackets      \* bound: SIP packets sent in a run

PacketId == 1 .. MaxPackets

ASSUME RoutingAssumption ==
    /\ Started \in SUBSET Node
    /\ NoRow \notin Row
    /\ Sources \subseteq Node
    /\ MaxInFlight \in Nat
    /\ MaxPackets \in Nat

VARIABLES
    running,        \* nodes whose SIP process is connected to SON
    dv,             \* dv[i][s][d]: node i's distance vector table
    route,          \* route[i][d]: node i's routing table
    snapshot,       \* snapshot[i]: the row routeupdate_daemon copied and has not sent
    chan,           \* chan[i][j]: packets on their way from i's SIP to j's SIP
    sent,           \* number of SIP packets taken from STCP
    delivered       \* ids of the packets handed to the destination's STCP

vars == <<running, dv, route, snapshot, chan, sent, delivered>>
tables == <<dv, route>>

-----------------------------------------------------------------------------
(* Packets.  quoted and travelled are history: the cost the source's table *)
(* showed when the packet left, and the link costs it has crossed since.   *)

UpdatePacket(row) == [type |-> "ROUTE_UPDATE", row |-> row]

SipPacket(id, d, quoted, travelled) ==
    [type |-> "SIP", id |-> id, dest |-> d, quoted |-> quoted, travelled |-> travelled]

Packet == [type : {"ROUTE_UPDATE"}, row : Row]
          \cup [type : {"SIP"}, id : PacketId, dest : Dest, quoted : Nat, travelled : Nat]

HasRoom(i, j) == Len(chan[i][j]) < MaxInFlight

(* The channels once i has taken the first packet from j, and once i has   *)
(* sent p to n.                                                            *)
Take(i, j) == [chan EXCEPT ![j][i] = Tail(@)]

Put(c, i, n, p) == [c EXCEPT ![i][n] = Append(@, p)]

Receives(i, j, type) == chan[j][i] # <<>> /\ Head(chan[j][i]).type = type

-----------------------------------------------------------------------------
(* dvtable_create: a node knows itself and its direct links; the rows of   *)
(* its neighbours are all INFINITE_COST until they are heard of.           *)
InitialTable(i) ==
    [s \in Node |-> IF s = i THEN InitialRow(i) ELSE [d \in Dest |-> INFINITE_COST]]

Init ==
    /\ running = Started
    /\ dv = [i \in Node |-> InitialTable(i)]
    /\ route = [i \in Node |-> InitialRoutes(i)]
    /\ snapshot = [i \in Node |-> NoRow]
    /\ chan = [i \in Node |-> [j \in Node |-> <<>>]]
    /\ sent = 0
    /\ delivered = {}

(* main: the tables exist, the connection to SON is up, the threads start. *)
SipStart(i) ==
    /\ i \notin running
    /\ running' = running \cup {i}
    /\ UNCHANGED <<dv, route, snapshot, chan, sent, delivered>>

(* listen_to_neighbor of node i while sip_conn is -1: the packet from j is *)
(* read off the connection and dropped.                                    *)
DiscardWithoutSIP(i, j) ==
    /\ i \notin running
    /\ chan[j][i] # <<>>
    /\ chan' = Take(i, j)
    /\ UNCHANGED <<running, dv, route, snapshot, sent, delivered>>

(* routeupdate_daemon wakes up and copies its own row under dv_mutex.      *)
Snapshot(i) ==
    /\ i \in running
    /\ snapshot[i] = NoRow
    /\ snapshot' = [snapshot EXCEPT ![i] = dv[i][i]]
    /\ UNCHANGED <<running, dv, route, chan, sent, delivered>>

(* ... and, the mutex released, broadcasts it to every neighbour.          *)
Broadcast(i) ==
    /\ snapshot[i] # NoRow
    /\ \A j \in Nbr(i) : HasRoom(i, j)
    /\ chan' = [chan EXCEPT ![i] = [j \in Node |->
                    IF j \in Nbr(i) THEN Append(@[j], UpdatePacket(snapshot[i])) ELSE @[j]]]
    /\ snapshot' = [snapshot EXCEPT ![i] = NoRow]
    /\ UNCHANGED <<running, dv, route, sent, delivered>>

-----------------------------------------------------------------------------
(* Mutant: a route is compared with the direct link, not with the own row. *)
ImprovedOverDirectLink(i, j, row) ==
    {d \in Dest : NbrCost(i, j) + row[d] < NbrCost(i, d)}

(* Mutant: the link to the neighbour is left out of the comparison.        *)
ImprovedWithoutLink(i, j, row) == {d \in Dest : row[d] < dv[i][i][d]}

(* The destinations that node i reaches more cheaply through j, if j's row *)
(* is the given one.                                                       *)
Improved(i, j, row) ==
    {d \in Dest : NbrCost(i, j) + row[d] < dv[i][i][d]}

(* Mutants: the link's cost is not added, the own row is always replaced,  *)
(* the own row is never written.                                           *)
RelaxedRowWithoutLink(i, j, row) ==
    [d \in Dest |-> IF d \in Improved(i, j, row) THEN row[d] ELSE dv[i][i][d]]

RelaxedRowReplaced(i, j, row) == [d \in Dest |-> NbrCost(i, j) + row[d]]

RelaxedRowKept(i, j, row) == dv[i][i]

RelaxedRow(i, j, row) ==
    [d \in Dest |-> IF d \in Improved(i, j, row) THEN NbrCost(i, j) + row[d] ELSE dv[i][i][d]]

RelaxedRoutes(i, j, row) ==
    [d \in Dest |-> IF d \in Improved(i, j, row) THEN j ELSE route[i][d]]

(* pkthandler stores the neighbour's row and relaxes its own through it,   *)
(* both tables locked.                                                     *)
StoreAndRelax(i, j, row) ==
    /\ dv' = [dv EXCEPT ![i] = [@ EXCEPT ![j] = row, ![i] = RelaxedRow(i, j, row)]]
    /\ route' = [route EXCEPT ![i] = RelaxedRoutes(i, j, row)]

HandleRouteUpdate(i, j) ==
    /\ i \in running
    /\ Receives(i, j, "ROUTE_UPDATE")
    /\ StoreAndRelax(i, j, Head(chan[j][i]).row)
    /\ chan' = Take(i, j)
    /\ UNCHANGED <<running, snapshot, sent, delivered>>

(* Mutant: the next hop is looked up before the destination is compared    *)
(* with the own node ID.                                                   *)
HandleSipPacketLookupFirst(i, j) ==
    /\ i \in running
    /\ Receives(i, j, "SIP")
    /\ LET p == Head(chan[j][i])
           n == route[i][p.dest]
       IN  IF n = NoRoute
           THEN chan' = Take(i, j)
           ELSE HasRoom(i, n) /\ chan' = Put(Take(i, j), i, n, p)
    /\ UNCHANGED <<running, tables, snapshot, sent, delivered>>

(* pkthandler, SIP packet: hand it to STCP, or look the next hop up and    *)
(* send it on.  SON drops a packet whose next hop is -1.                   *)
HandleSipPacket(i, j) ==
    /\ i \in running
    /\ Receives(i, j, "SIP")
    /\ LET p == Head(chan[j][i])
           n == route[i][p.dest]
           onward == SipPacket(p.id, p.dest, p.quoted, p.travelled + NbrCost(i, n))
       IN  \/ /\ p.dest = i
              /\ delivered' = delivered \cup {p.id}
              /\ chan' = Take(i, j)
           \/ /\ p.dest # i /\ n = NoRoute
              /\ chan' = Take(i, j)
              /\ UNCHANGED delivered
           \/ /\ p.dest # i /\ n # NoRoute
              /\ HasRoom(i, n)
              /\ chan' = Put(Take(i, j), i, n, onward)
              /\ UNCHANGED delivered
    /\ UNCHANGED <<running, tables, snapshot, sent>>

(* waitSTCP wraps a segment for d into a packet and sends it to the next   *)
(* hop; without one (d unknown, or d this very node) SON drops it.         *)
SendSegment(i, d) ==
    /\ i \in running
    /\ i \in Sources
    /\ sent < MaxPackets
    /\ sent' = sent + 1
    /\ LET n == route[i][d]
           p == SipPacket(sent + 1, d, dv[i][i][d], NbrCost(i, n))
       IN  \/ /\ n = NoRoute
              /\ UNCHANGED chan
           \/ /\ n # NoRoute
              /\ HasRoom(i, n)
              /\ chan' = Put(chan, i, n, p)
    /\ UNCHANGED <<running, tables, snapshot, delivered>>

Next ==
    \/ \E i \in Node : SipStart(i) \/ Snapshot(i) \/ Broadcast(i)
    \/ \E i \in Node, d \in Dest : SendSegment(i, d)
    \/ \E i, j \in Node :
          DiscardWithoutSIP(i, j) \/ HandleRouteUpdate(i, j) \/ HandleSipPacket(i, j)

(* Every thread keeps running: the processes are started, the daemon's     *)
(* sleep ends, and SON's and pkthandler's receive loops take what arrives. *)
(* Strong fairness: pkthandler may find the connection full again and      *)
(* again, but the daemon, the only other writer, sleeps five seconds       *)
(* between two broadcasts.  Nothing is assumed of STCP.                    *)
Fairness ==
    /\ \A i \in Node :
          WF_vars(SipStart(i)) /\ WF_vars(Snapshot(i)) /\ WF_vars(Broadcast(i))
    /\ \A i \in Node : \A j \in Nbr(i) :
          WF_vars(HandleRouteUpdate(i, j)) /\ SF_vars(HandleSipPacket(i, j))

Spec == Init /\ [][Next]_vars

FairSpec == Spec /\ Fairness
-----------------------------------------------------------------------------
TypeOK ==
    /\ running \in SUBSET Node
    /\ dv \in [Node -> [Node -> Row]]
    /\ route \in [Node -> [Dest -> Node \cup {NoRoute}]]
    /\ snapshot \in [Node -> Row \cup {NoRow}]
    /\ chan \in [Node -> [Node -> Seq(Packet)]]
    /\ sent \in 0 .. MaxPackets
    /\ delivered \in SUBSET PacketId

OwnCost == [i \in Node |-> dv[i][i]]

Abs == INSTANCE RouteDescent WITH cost <- OwnCost

(* The tables of all nodes, rewritten one message at a time from rows that *)
(* are already out of date, only ever take the steps of RouteDescent: a    *)
(* node improves its costs through one neighbour and never undercuts what  *)
(* that neighbour claims NOW (pkthandler, sip.c:158-184).                  *)
ImplementsRouteDescent == Abs!Spec

(* At no instant, while updates are under way and half applied, do the     *)
(* next hops of the nodes form a loop (routing table, sip.c:181).          *)
LoopFree == Abs!LoopFree

InFlight(i, j) == {chan[i][j][n] : n \in DOMAIN chan[i][j]}

SipInFlight(i, j) == {p \in InFlight(i, j) : p.type = "SIP"}

(* A SIP packet under way never travels further than the cost its source's *)
(* table showed when it left: even while the tables change under it, what  *)
(* it has crossed and what the node ahead still claims fit in that quote   *)
(* (the next hop is looked up at every node, sip.c:199).                   *)
TravelWithinQuote ==
    \A i, j \in Node : \A p \in SipInFlight(i, j) :
        p.travelled + OwnCost[j][p.dest] =< p.quoted /\ p.quoted < INFINITE_COST

(* Rows are always old news, never too good: a row copied by the daemon    *)
(* but not yet sent, or under way, claims at least what its sender claims  *)
(* by now (the daemon sends after releasing dv_mutex, sip.c:117-118).      *)
RowsAreOld ==
    /\ \A i \in Node : snapshot[i] # NoRow =>
          \A d \in Dest : OwnCost[i][d] =< snapshot[i][d]
    /\ \A i, j \in Node : \A p \in InFlight(i, j) :
          p.type = "ROUTE_UPDATE" => \A d \in Dest : OwnCost[i][d] =< p.row[d]

(* The inductive invariant behind all of them.                             *)
IInv == TypeOK /\ Abs!Descent /\ RowsAreOld /\ TravelWithinQuote

(* A packet that found a next hop at its source finds one at every node on *)
(* its way (pkthandler's lookup, sip.c:199, never returns -1).             *)
NeverStranded ==
    \A i, j \in Node : \A p \in SipInFlight(i, j) :
        p.dest # j => route[j][p.dest] # NoRoute

(* No sequence of stale, early or repeated updates makes a node believe in *)
(* a path cheaper than the cheapest one there is.                          *)
NeverBelowShortest ==
    \A i \in Node, d \in Dest : OwnCost[i][d] >= Shortest[i][d]

(* Every node ends up with the cheapest cost to every destination, and     *)
(* with a next hop that is first on a cheapest path, although updates sent *)
(* before a neighbour's SIP process is up are lost.                        *)
OnShortestPath(i, d) ==
    /\ OwnCost[i][d] = Shortest[i][d]
    /\ LET n == route[i][d]
       IN  i # d /\ Shortest[i][d] < INFINITE_COST =>
              n # NoRoute /\ NbrCost(i, n) + Shortest[n][d] = Shortest[i][d]

Converges == <>[](\A i \in Node, d \in Dest : OnShortestPath(i, d))

(* Once all SIP processes are up, a packet that is under way is handed to  *)
(* the STCP process of its destination.                                    *)
Underway(id) == \E i, j \in Node : \E p \in SipInFlight(i, j) : p.id = id

PacketsArrive ==
    \A id \in PacketId : (running = Node /\ Underway(id)) ~> id \in delivered
=============================================================================
