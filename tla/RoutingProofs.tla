---------------------------- MODULE RoutingProofs ----------------------------
(***************************************************************************)
(* Theorems about Routing, for every overlay, every number of packets and  *)
(* every channel bound.                                                    *)
(***************************************************************************)
EXTENDS Routing, TLAPS, WellFoundedInduction

-----------------------------------------------------------------------------
(* Sequences.                                                              *)

(* The first element of a nonempty sequence, and the places of the others. *)
LEMMA TailElements ==
    ASSUME NEW T, NEW s \in Seq(T), s # <<>>
    PROVE  /\ Head(s) \in T
           /\ Tail(s) \in Seq(T)
           /\ 1 \in DOMAIN s /\ Head(s) = s[1]
           /\ \A n \in DOMAIN Tail(s) : n + 1 \in DOMAIN s /\ Tail(s)[n] = s[n + 1]
  OBVIOUS

(* The elements of a sequence to which one has been appended.              *)
LEMMA AppendElements ==
    ASSUME NEW T, NEW s \in Seq(T), NEW e \in T
    PROVE  /\ Append(s, e) \in Seq(T)
           /\ \A n \in DOMAIN Append(s, e) :
                 \/ n \in DOMAIN s /\ Append(s, e)[n] = s[n]
                 \/ Append(s, e)[n] = e
  OBVIOUS

-----------------------------------------------------------------------------
(* Types.                                                                  *)

(* The tables dvtable_create and routingtable_create build are well typed. *)
LEMMA InitialTypes ==
    /\ \A i \in Node : InitialRow(i) \in Row
    /\ \A i \in Node : InitialTable(i) \in [Node -> Row]
    /\ \A i \in Node : InitialRoutes(i) \in [Dest -> Node \cup {NoRoute}]
  BY OverlayAssumption
     DEF InitialRow, InitialTable, InitialRoutes, Row, Cost, NbrCost, Nbr

(* What routeupdate_daemon sends is a packet.                              *)
LEMMA UpdatePacketType ==
    ASSUME NEW row \in Row
    PROVE  UpdatePacket(row) \in Packet
  BY DEF UpdatePacket, Packet

(* What waitSTCP and pkthandler send is a packet.                          *)
LEMMA SipPacketType ==
    ASSUME NEW id \in PacketId, NEW d \in Dest, NEW q \in Nat, NEW t \in Nat
    PROVE  SipPacket(id, d, q, t) \in Packet
  BY DEF SipPacket, Packet

(* The fields a packet of each type has.                                   *)
LEMMA PacketFields ==
    ASSUME NEW p \in Packet
    PROVE  /\ p.type \in {"ROUTE_UPDATE", "SIP"}
           /\ p.type = "ROUTE_UPDATE" => p.row \in Row
           /\ p.type = "SIP" => /\ p.id \in PacketId
                                /\ p.dest \in Dest
                                /\ p.quoted \in Nat
                                /\ p.travelled \in Nat
  BY DEF Packet

(* The channels, and what one step does to them: an element afterwards was *)
(* there before, or is the packet sent.                                    *)
Channels == [Node -> [Node -> Seq(Packet)]]

(* Taking the first packet of a channel: the packet was in it, and what is *)
(* left was there before.                                                  *)
LEMMA TakeChannels ==
    ASSUME chan \in Channels, NEW i \in Node, NEW j \in Node, chan[j][i] # <<>>
    PROVE  /\ Take(i, j) \in Channels
           /\ Head(chan[j][i]) \in Packet
           /\ 1 \in DOMAIN chan[j][i] /\ Head(chan[j][i]) = chan[j][i][1]
           /\ \A a, b \in Node : \A n \in DOMAIN Take(i, j)[a][b] :
                 \E m \in DOMAIN chan[a][b] : Take(i, j)[a][b][n] = chan[a][b][m]
<1>1. chan[j][i] \in Seq(Packet)
  BY DEF Channels
<1>2. Take(i, j) \in Channels
  BY <1>1, TailElements DEF Take, Channels
<1>3. ASSUME NEW a \in Node, NEW b \in Node, NEW n \in DOMAIN Take(i, j)[a][b]
      PROVE  \E m \in DOMAIN chan[a][b] : Take(i, j)[a][b][n] = chan[a][b][m]
  <2>1. CASE a = j /\ b = i
    <3>1. Take(i, j)[a][b] = Tail(chan[j][i])
      BY <2>1 DEF Take, Channels
    <3>2. n + 1 \in DOMAIN chan[j][i] /\ Tail(chan[j][i])[n] = chan[j][i][n + 1]
      BY <1>1, <1>3, <3>1, TailElements
    <3> QED BY <2>1, <3>1, <3>2
  <2>2. CASE ~(a = j /\ b = i)
    BY <1>3, <2>2 DEF Take, Channels
  <2> QED BY <2>1, <2>2
<1> QED BY <1>1, <1>2, <1>3, TailElements

(* Sending a packet leaves channels of packets.                            *)
LEMMA PutChannels ==
    ASSUME NEW c \in Channels, NEW i \in Node, NEW k \in Node, NEW p \in Packet
    PROVE  Put(c, i, k, p) \in Channels
  BY AppendElements DEF Put, Channels

(* After a packet has been sent, an element of a channel was there before  *)
(* or is that packet.                                                      *)
LEMMA PutElements ==
    ASSUME NEW c \in Channels, NEW i \in Node, NEW k \in Node, NEW p \in Packet,
           NEW a \in Node, NEW b \in Node, NEW n \in DOMAIN Put(c, i, k, p)[a][b]
    PROVE  \/ n \in DOMAIN c[a][b] /\ Put(c, i, k, p)[a][b][n] = c[a][b][n]
           \/ a = i /\ b = k /\ Put(c, i, k, p)[a][b][n] = p
<1>1. CASE a = i /\ b = k
  <2>1. Put(c, i, k, p)[a][b] = Append(c[i][k], p)
    BY <1>1 DEF Put, Channels
  <2>2. c[i][k] \in Seq(Packet)
    BY DEF Channels
  <2> QED BY <1>1, <2>1, <2>2, AppendElements
<1>2. CASE ~(a = i /\ b = k)
  BY <1>2 DEF Put, Channels
<1> QED BY <1>1, <1>2

(* nbrcosttable_getcost returns a positive cost.                           *)
LEMMA NbrCostType ==
    ASSUME NEW i \in Node, NEW j
    PROVE  NbrCost(i, j) \in Cost /\ NbrCost(i, j) \in Nat /\ NbrCost(i, j) >= 1
  BY OverlayAssumption DEF NbrCost, Nbr, Cost

(* The entries of a row are numbers up to INFINITE_COST.                   *)
LEMMA RowType ==
    ASSUME NEW row \in Row, NEW d \in Dest
    PROVE  row[d] \in Nat /\ row[d] =< INFINITE_COST /\ INFINITE_COST \in Nat
  BY OverlayAssumption DEF Row, Cost

(* So are the entries of the own rows of a table.                          *)
LEMMA OwnType ==
    ASSUME NEW table \in [Node -> [Node -> Row]], NEW a \in Node, NEW d \in Dest
    PROVE  table[a][a][d] \in Nat /\ table[a][a][d] =< INFINITE_COST
  BY RowType

(* What pkthandler writes when a row arrives.                              *)
LEMMA RelaxType ==
    ASSUME TypeOK, NEW i \in Node, NEW j \in Node, NEW row \in Row,
           StoreAndRelax(i, j, row)
    PROVE  /\ dv' \in [Node -> [Node -> Row]]
           /\ route' \in [Node -> [Dest -> Node \cup {NoRoute}]]
<1>1. RelaxedRow(i, j, row) \in Row
  <2>1. ASSUME NEW d \in Dest PROVE RelaxedRow(i, j, row)[d] \in Cost
    <3>1. dv[i][i][d] \in Cost /\ row[d] \in Cost /\ NbrCost(i, j) \in Nat
      BY NbrCostType DEF TypeOK, Row
    <3> QED BY <3>1, OverlayAssumption DEF RelaxedRow, Improved, Cost
  <2> QED BY <2>1 DEF RelaxedRow, Row
<1>2. RelaxedRoutes(i, j, row) \in [Dest -> Node \cup {NoRoute}]
  BY DEF TypeOK, RelaxedRoutes
<1> QED BY <1>1, <1>2 DEF TypeOK, StoreAndRelax

(* The tables are well typed when the SIP processes start.                 *)
LEMMA TypeInit == Init => TypeOK
  BY InitialTypes, OverlayAssumption, RoutingAssumption
     DEF Init, TypeOK, Packet, PacketId

(* Every step of every thread keeps the types.                             *)
LEMMA TypeNext == TypeOK /\ [Next]_vars => TypeOK'
<1> SUFFICES ASSUME TypeOK, [Next]_vars PROVE TypeOK'
  OBVIOUS
<1>c. chan \in Channels
  BY DEF TypeOK, Channels
<1>1. ASSUME NEW i \in Node, SipStart(i) PROVE TypeOK'
  BY <1>1 DEF SipStart, TypeOK
<1>2. ASSUME NEW i \in Node, Snapshot(i) PROVE TypeOK'
  BY <1>2 DEF Snapshot, TypeOK
<1>3. ASSUME NEW i \in Node, Broadcast(i) PROVE TypeOK'
  <2>1. snapshot[i] \in Row
    BY <1>3 DEF Broadcast, TypeOK
  <2>2. \A j \in Node : Append(chan[i][j], UpdatePacket(snapshot[i])) \in Seq(Packet)
    BY <1>c, <2>1, UpdatePacketType, AppendElements DEF Channels
  <2>3. chan' \in Channels
    BY <1>3, <1>c, <2>2 DEF Broadcast, Channels
  <2> QED BY <1>3, <2>3 DEF Broadcast, TypeOK, Channels
<1>4. ASSUME NEW i \in Node, NEW d \in Dest, SendSegment(i, d) PROVE TypeOK'
  <2> DEFINE p == SipPacket(sent + 1, d, dv[i][i][d], NbrCost(i, route[i][d]))
  <2>1. sent + 1 \in PacketId /\ sent' \in 0 .. MaxPackets
    BY <1>4, RoutingAssumption DEF SendSegment, PacketId, TypeOK
  <2>2. p \in Packet
    <3>1. dv[i][i][d] \in Nat
      BY OverlayAssumption DEF Row, Cost, TypeOK
    <3> QED BY <2>1, <3>1, NbrCostType, SipPacketType
  <2>3. chan' \in Channels
    <3>1. CASE chan' = chan
      BY <1>c, <3>1
    <3>2. CASE route[i][d] # NoRoute /\ chan' = Put(chan, i, route[i][d], p)
      <4>1. route[i][d] \in Node
        BY <3>2 DEF TypeOK
      <4> HIDE DEF p
      <4> QED BY <1>c, <2>2, <3>2, <4>1, PutChannels
    <3> QED BY <1>4, <3>1, <3>2 DEF SendSegment
  <2> QED BY <1>4, <2>1, <2>3 DEF SendSegment, tables, TypeOK, Channels
<1>5. ASSUME NEW i \in Node, NEW j \in Node, DiscardWithoutSIP(i, j) PROVE TypeOK'
  <2>1. chan' \in Channels
    BY <1>5, <1>c, TakeChannels DEF DiscardWithoutSIP
  <2> QED BY <1>5, <2>1 DEF DiscardWithoutSIP, TypeOK, Channels
<1>6. ASSUME NEW i \in Node, NEW j \in Node, HandleRouteUpdate(i, j) PROVE TypeOK'
  <2>1. Head(chan[j][i]) \in Packet /\ chan' \in Channels
    BY <1>6, <1>c, TakeChannels DEF HandleRouteUpdate, Receives
  <2>2. Head(chan[j][i]).row \in Row
    BY <1>6, <2>1, PacketFields DEF HandleRouteUpdate, Receives
  <2>3. dv' \in [Node -> [Node -> Row]] /\ route' \in [Node -> [Dest -> Node \cup {NoRoute}]]
    BY <1>6, <2>2, RelaxType DEF HandleRouteUpdate
  <2> QED BY <1>6, <2>1, <2>3 DEF HandleRouteUpdate, TypeOK, Channels
<1>7. ASSUME NEW i \in Node, NEW j \in Node, HandleSipPacket(i, j) PROVE TypeOK'
  <2> DEFINE p == Head(chan[j][i])
             n == route[i][p.dest]
             onward == SipPacket(p.id, p.dest, p.quoted, p.travelled + NbrCost(i, n))
  <2>1. p \in Packet /\ Take(i, j) \in Channels /\ p.type = "SIP"
    BY <1>7, <1>c, TakeChannels DEF HandleSipPacket, Receives
  <2>2. p.id \in PacketId /\ p.dest \in Dest /\ p.quoted \in Nat /\ p.travelled \in Nat
    BY <2>1, PacketFields
  <2>3. onward \in Packet
    <3>1. p.travelled + NbrCost(i, n) \in Nat
      BY <2>2, NbrCostType
    <3> QED BY <2>2, <3>1, SipPacketType
  <2>4. delivered' \in SUBSET PacketId
    BY <1>7, <2>2 DEF HandleSipPacket, TypeOK
  <2>5. chan' \in Channels
    <3>1. CASE chan' = Take(i, j)
      BY <2>1, <3>1
    <3>2. ASSUME n # NoRoute, chan' = Put(Take(i, j), i, n, onward)
          PROVE  chan' \in Channels
      <4>1. n \in Node
        BY <2>2, <3>2 DEF TypeOK
      <4> HIDE DEF n, onward
      <4> QED BY <2>1, <2>3, <3>2, <4>1, PutChannels
    <3> QED BY <1>7, <3>1, <3>2 DEF HandleSipPacket
  <2> QED BY <1>7, <2>4, <2>5 DEF HandleSipPacket, tables, TypeOK, Channels
<1>8. CASE UNCHANGED vars
  BY <1>8 DEF vars, TypeOK
<1> QED BY <1>1, <1>2, <1>3, <1>4, <1>5, <1>6, <1>7, <1>8 DEF Next

(* Every reachable state is well typed: costs stay within 0..INFINITE_COST *)
(* (the handler's sum is stored only when it is below the cost it          *)
(* replaces), every next hop is a node or -1.                              *)
THEOREM TypeCorrect == Spec => []TypeOK
  BY TypeInit, TypeNext, PTL DEF Spec

-----------------------------------------------------------------------------
(* The inductive invariant.                                                *)

(* The packet conditions of RowsAreOld and TravelWithinQuote, for a packet *)
(* on its way from a to b.                                                 *)
PacketOK(table, a, b, p) ==
    /\ p.type = "ROUTE_UPDATE" => \A d \in Dest : table[a][a][d] =< p.row[d]
    /\ p.type = "SIP" => /\ p.travelled + table[b][b][p.dest] =< p.quoted
                         /\ p.quoted < INFINITE_COST

PacketsOK == \A a, b \in Node : \A n \in DOMAIN chan[a][b] : PacketOK(dv, a, b, chan[a][b][n])

SnapshotsOK ==
    \A i \in Node : snapshot[i] # NoRow => \A d \in Dest : dv[i][i][d] =< snapshot[i][d]

(* OwnCost, the abstract cost, is the own row of the table.                *)
LEMMA OwnCostIs == \A i \in Node : OwnCost[i] = dv[i][i]
  BY DEF OwnCost

(* The invariant, its packet conditions written per place in a channel.    *)
LEMMA InvariantParts == IInv <=> TypeOK /\ Abs!Descent /\ SnapshotsOK /\ PacketsOK
  BY OwnCostIs DEF IInv, RowsAreOld, TravelWithinQuote, InFlight, SipInFlight,
                   SnapshotsOK, PacketsOK, PacketOK

(* Abs!Descent, with the own rows written out.                             *)
DescentAt(i, d) ==
    /\ route[i][d] # NoRoute =>
          /\ route[i][d] \in Nbr(i)
          /\ NbrCost(i, route[i][d]) + dv[route[i][d]][route[i][d]][d] =< dv[i][i][d]
          /\ dv[i][i][d] < INFINITE_COST
    /\ (route[i][d] = NoRoute /\ i # d) => dv[i][i][d] = INFINITE_COST
    /\ i = d => (route[i][d] = NoRoute /\ dv[i][i][d] = 0)

OwnDescent == \A i \in Node, d \in Dest : DescentAt(i, d)

(* Descent of the abstract specification is OwnDescent.                    *)
LEMMA DescentIs == Abs!Descent <=> OwnDescent
<1>1. \A i \in Node : Nbr(i) \subseteq Node
  BY DEF Nbr
<1>2. \A i \in Node : \A j : Abs!Nbr(i) = Nbr(i) /\ Abs!NbrCost(i, j) = NbrCost(i, j)
  BY DEF Abs!Nbr, Nbr, Abs!NbrCost, NbrCost
<1> QED BY <1>1, <1>2, OwnCostIs DEF Abs!Descent, OwnDescent, DescentAt

(* No step raises a cost a node has claimed.                               *)
OwnNotRaised == \A a \in Node, d \in Dest : dv'[a][a][d] =< dv[a][a][d]

(* Packets stay good when claims fall: it is enough to look at new ones.   *)
LEMMA PacketsStayOK ==
    ASSUME TypeOK, TypeOK', PacketsOK, OwnNotRaised,
           \A a, b \in Node : \A n \in DOMAIN chan'[a][b] :
              \/ \E m \in DOMAIN chan[a][b] : chan'[a][b][n] = chan[a][b][m]
              \/ PacketOK(dv', a, b, chan'[a][b][n])
    PROVE  PacketsOK'
<1> SUFFICES ASSUME NEW a \in Node, NEW b \in Node, NEW n \in DOMAIN chan'[a][b],
                    NEW m \in DOMAIN chan[a][b], chan'[a][b][n] = chan[a][b][m]
             PROVE  PacketOK(dv', a, b, chan'[a][b][n])
  BY DEF PacketsOK
<1> DEFINE p == chan[a][b][m]
<1>0. p \in Packet /\ PacketOK(dv, a, b, p) /\ p = chan'[a][b][n]
  BY DEF PacketsOK, TypeOK
<1>1. \A d \in Dest : /\ dv[a][a][d] \in Nat /\ dv'[a][a][d] \in Nat
                      /\ dv[b][b][d] \in Nat /\ dv'[b][b][d] \in Nat
  BY OwnType DEF TypeOK
<1> HIDE DEF p
<1>2. CASE p.type = "ROUTE_UPDATE"
  <2>1. \A d \in Dest : p.row[d] \in Nat
    BY <1>0, <1>2, PacketFields, RowType
  <2> QED BY <1>0, <1>1, <1>2, <2>1 DEF PacketOK, OwnNotRaised
<1>3. CASE p.type = "SIP"
  <2>1. p.dest \in Dest /\ p.quoted \in Nat /\ p.travelled \in Nat
    BY <1>0, <1>3, PacketFields
  <2> QED BY <1>0, <1>1, <1>3, <2>1 DEF PacketOK, OwnNotRaised
<1> QED BY <1>0, <1>2, <1>3, PacketFields

(* What a handled row does to the tables of node i.                        *)
LEMMA RelaxEffect ==
    ASSUME TypeOK, NEW i \in Node, NEW j \in Node, NEW row \in Row,
           StoreAndRelax(i, j, row)
    PROVE  /\ \A k \in Node \ {i} : dv'[k] = dv[k] /\ route'[k] = route[k]
           /\ \A d \in Dest :
                \/ /\ NbrCost(i, j) + row[d] < dv[i][i][d]
                   /\ dv'[i][i][d] = NbrCost(i, j) + row[d]
                   /\ route'[i][d] = j
                   /\ j \in Nbr(i)
                \/ /\ dv'[i][i][d] = dv[i][i][d]
                   /\ route'[i][d] = route[i][d]
           /\ OwnNotRaised
<1>1. /\ dv'[i][i] = RelaxedRow(i, j, row)
      /\ route'[i] = RelaxedRoutes(i, j, row)
      /\ \A k \in Node \ {i} : dv'[k] = dv[k] /\ route'[k] = route[k]
  BY DEF StoreAndRelax, TypeOK
<1>2. ASSUME NEW d \in Dest, d \in Improved(i, j, row)
      PROVE  /\ NbrCost(i, j) + row[d] < dv[i][i][d]
             /\ dv'[i][i][d] = NbrCost(i, j) + row[d]
             /\ route'[i][d] = j
             /\ j \in Nbr(i)
  <2>1. NbrCost(i, j) + row[d] < dv[i][i][d]
    BY <1>2 DEF Improved
  <2>2. NbrCost(i, j) # INFINITE_COST
    BY <2>1, OwnType, RowType DEF TypeOK
  <2> QED BY <1>1, <1>2, <2>1, <2>2 DEF RelaxedRow, RelaxedRoutes, NbrCost
<1>3. ASSUME NEW d \in Dest, d \notin Improved(i, j, row)
      PROVE  dv'[i][i][d] = dv[i][i][d] /\ route'[i][d] = route[i][d]
  BY <1>1, <1>3 DEF RelaxedRow, RelaxedRoutes
<1>4. ASSUME NEW a \in Node, NEW d \in Dest PROVE dv'[a][a][d] =< dv[a][a][d]
  <2>1. dv[a][a][d] \in Nat /\ row[d] \in Nat /\ NbrCost(i, j) \in Nat
    BY OwnType, RowType, NbrCostType DEF TypeOK
  <2> QED BY <1>1, <1>2, <1>3, <2>1
<1> QED BY <1>1, <1>2, <1>3, <1>4 DEF OwnNotRaised

(* The invariant holds when the SIP processes start.                       *)
LEMMA InvInit == Init => IInv
<1> SUFFICES ASSUME Init PROVE IInv
  OBVIOUS
<1>1. TypeOK
  BY TypeInit
<1>2. \A i \in Node : dv[i][i] = InitialRow(i) /\ route[i] = InitialRoutes(i)
  BY DEF Init, InitialTable
<1>3. Abs!Descent
  <2> SUFFICES ASSUME NEW i \in Node, NEW d \in Dest PROVE DescentAt(i, d)
    BY DescentIs DEF OwnDescent
  <2> USE DEF DescentAt
  <2>1. d \in Node /\ Nbr(i) \subseteq Node /\ i \notin Nbr(i) /\ NoRoute \notin Node
    BY OverlayAssumption DEF Nbr
  <2>2. CASE d \in Nbr(i)
    <3>1. route[i][d] = d /\ dv[i][i][d] = NbrCost(i, d) /\ dv[d][d][d] = 0
      BY <1>2, <2>1, <2>2 DEF InitialRow, InitialRoutes
    <3>2. NbrCost(i, d) < INFINITE_COST /\ NbrCost(i, d) \in Nat
      BY <2>2, NbrCostType DEF NbrCost, Nbr
    <3> QED BY <2>1, <2>2, <3>1, <3>2
  <2>3. CASE d \notin Nbr(i)
    <3>1. route[i][d] = NoRoute
      BY <1>2, <2>3 DEF InitialRoutes
    <3>2. dv[i][i][d] = IF d = i THEN 0 ELSE INFINITE_COST
      BY <1>2, <2>3 DEF InitialRow, NbrCost
    <3> QED BY <3>1, <3>2
  <2> QED BY <2>2, <2>3
<1>4. SnapshotsOK
  BY DEF Init, SnapshotsOK
<1>5. PacketsOK
  BY DEF Init, PacketsOK
<1> QED BY <1>1, <1>3, <1>4, <1>5, InvariantParts

(* Descent survives a handled row because the row claims no less than its  *)
(* sender does by now.                                                     *)
LEMMA DescentAfterRelax ==
    ASSUME TypeOK, TypeOK', Abs!Descent, NEW i \in Node, NEW j \in Node, NEW row \in Row,
           \A d \in Dest : dv[j][j][d] =< row[d],
           StoreAndRelax(i, j, row)
    PROVE  Abs!Descent'
<1>1. SUFFICES ASSUME NEW k \in Node, NEW d \in Dest PROVE DescentAt(k, d)'
  <2>1. (Abs!Descent <=> OwnDescent)'
    BY DescentIs, PTL
  <2> QED BY <2>1 DEF OwnDescent
<1> USE DEF DescentAt
<1>2. DescentAt(k, d)
  BY DescentIs DEF OwnDescent
<1>3. /\ \A a \in Node \ {i} : dv'[a] = dv[a] /\ route'[a] = route[a]
      /\ \/ /\ NbrCost(i, j) + row[d] < dv[i][i][d]
            /\ dv'[i][i][d] = NbrCost(i, j) + row[d]
            /\ route'[i][d] = j
            /\ j \in Nbr(i)
         \/ /\ dv'[i][i][d] = dv[i][i][d]
            /\ route'[i][d] = route[i][d]
      /\ \A a \in Node : dv'[a][a][d] =< dv[a][a][d]
  BY RelaxEffect DEF OwnNotRaised
<1>4. \A a \in Node : /\ dv[a][a][d] \in Nat /\ dv'[a][a][d] \in Nat
                      /\ dv[a][a][d] =< INFINITE_COST
                      /\ NbrCost(k, a) \in Nat
                      /\ Nbr(a) \subseteq Node \ {a}
  BY OwnType, NbrCostType DEF TypeOK, Nbr
<1>5. row[d] \in Nat /\ dv[j][j][d] =< row[d] /\ INFINITE_COST \in Nat /\ NbrCost(i, j) \in Nat
  BY RowType, NbrCostType
<1>6. CASE route'[k][d] = route[k][d] /\ dv'[k][k][d] = dv[k][k][d]
  BY <1>2, <1>3, <1>4, <1>6
<1>7. CASE k = i /\ /\ NbrCost(i, j) + row[d] < dv[i][i][d]
                    /\ dv'[i][i][d] = NbrCost(i, j) + row[d]
                    /\ route'[i][d] = j
                    /\ j \in Nbr(i)
  <2>1. j # i /\ j # NoRoute /\ dv'[j][j][d] = dv[j][j][d]
    BY <1>3, <1>4, <1>7, OverlayAssumption
  <2>2. k # d
    BY <1>2, <1>5, <1>7
  <2> QED BY <1>4, <1>5, <1>7, <2>1, <2>2
<1> QED BY <1>3, <1>6, <1>7

(* Every step of every thread keeps the invariant.                         *)
LEMMA InvNext == IInv /\ [Next]_vars => IInv'
<1> SUFFICES ASSUME IInv, [Next]_vars PROVE IInv'
  OBVIOUS
<1>t. TypeOK /\ Abs!Descent /\ SnapshotsOK /\ PacketsOK
  BY InvariantParts
<1>p. TypeOK'
  BY <1>t, TypeNext
<1>c. chan \in Channels
  BY <1>t DEF TypeOK, Channels
<1>s. SUFFICES Abs!Descent' /\ SnapshotsOK' /\ PacketsOK'
  <2>1. IInv' <=> TypeOK' /\ Abs!Descent' /\ SnapshotsOK' /\ PacketsOK'
    BY InvariantParts, PTL
  <2> QED BY <1>p, <2>1
<1>u. ASSUME UNCHANGED tables
      PROVE  Abs!Descent' /\ OwnNotRaised
  <2>1. Abs!Descent'
    BY <1>t, <1>u DEF tables, Abs!Descent, OwnCost
  <2>2. OwnNotRaised
    <3>1. dv' = dv /\ dv \in [Node -> [Node -> Row]]
      BY <1>t, <1>u DEF tables, TypeOK
    <3> QED BY <3>1, OwnType DEF OwnNotRaised
  <2> QED BY <2>1, <2>2
<1>1. CASE UNCHANGED <<tables, snapshot, chan>>
  <2>1. Abs!Descent'
    BY <1>1, <1>u
  <2>2. SnapshotsOK' /\ PacketsOK'
    BY <1>t, <1>1 DEF tables, SnapshotsOK, PacketsOK, PacketOK
  <2> QED BY <2>1, <2>2
<1>2. ASSUME NEW i \in Node, Snapshot(i) PROVE Abs!Descent' /\ SnapshotsOK' /\ PacketsOK'
  <2>1. Abs!Descent' /\ PacketsOK'
    BY <1>t, <1>2, <1>u DEF Snapshot, tables, PacketsOK, PacketOK
  <2>2. SnapshotsOK'
    <3>1. dv' = dv /\ dv \in [Node -> [Node -> Row]]
      BY <1>t, <1>2 DEF Snapshot, TypeOK
    <3>2. ASSUME NEW a \in Node, NEW d \in Dest, snapshot'[a] # NoRow
          PROVE  dv[a][a][d] =< snapshot'[a][d]
      <4>1. CASE a = i
        BY <1>t, <1>2, <3>1, <4>1, OwnType DEF Snapshot, TypeOK
      <4>2. CASE a # i
        BY <1>t, <1>2, <3>2, <4>2 DEF Snapshot, TypeOK, SnapshotsOK
      <4> QED BY <4>1, <4>2
    <3> QED BY <3>1, <3>2 DEF SnapshotsOK
  <2> QED BY <2>1, <2>2
<1>3. ASSUME NEW i \in Node, Broadcast(i) PROVE Abs!Descent' /\ SnapshotsOK' /\ PacketsOK'
  <2>1. Abs!Descent' /\ OwnNotRaised
    BY <1>3, <1>u DEF Broadcast, tables
  <2>2. SnapshotsOK'
    BY <1>t, <1>3 DEF Broadcast, SnapshotsOK, TypeOK
  <2>3. PacketsOK'
    <3>1. snapshot[i] \in Row /\ \A d \in Dest : dv[i][i][d] =< snapshot[i][d]
      BY <1>t, <1>3 DEF Broadcast, SnapshotsOK, TypeOK
    <3>2. dv' = dv
      BY <1>3 DEF Broadcast
    <3> SUFFICES ASSUME NEW a \in Node, NEW b \in Node, NEW n \in DOMAIN chan'[a][b]
                 PROVE  \/ \E m \in DOMAIN chan[a][b] : chan'[a][b][n] = chan[a][b][m]
                        \/ PacketOK(dv', a, b, chan'[a][b][n])
      BY <1>t, <1>p, <2>1, PacketsStayOK
    <3>3. CASE a = i /\ b \in Nbr(i)
      <4>1. chan'[a][b] = Append(chan[a][b], UpdatePacket(snapshot[i]))
        BY <1>3, <1>c, <3>3 DEF Broadcast, Channels
      <4>2. chan[a][b] \in Seq(Packet) /\ UpdatePacket(snapshot[i]) \in Packet
        BY <1>c, <3>1, UpdatePacketType DEF Channels
      <4>3. \/ n \in DOMAIN chan[a][b] /\ chan'[a][b][n] = chan[a][b][n]
            \/ chan'[a][b][n] = UpdatePacket(snapshot[i])
        BY <4>1, <4>2, AppendElements
      <4> QED BY <3>1, <3>2, <3>3, <4>3 DEF PacketOK, UpdatePacket
    <3>4. CASE ~(a = i /\ b \in Nbr(i))
      BY <1>3, <1>c, <3>4 DEF Broadcast, Channels
    <3> QED BY <3>3, <3>4
  <2> QED BY <2>1, <2>2, <2>3
<1>4. ASSUME NEW i \in Node, NEW d \in Dest, SendSegment(i, d)
      PROVE  Abs!Descent' /\ SnapshotsOK' /\ PacketsOK'
  <2>1. Abs!Descent' /\ OwnNotRaised /\ dv' = dv
    BY <1>4, <1>u DEF SendSegment, tables
  <2>2. SnapshotsOK'
    BY <1>t, <1>4 DEF SendSegment, tables, SnapshotsOK
  <2>3. CASE chan' = chan
    BY <1>t, <2>1, <2>2, <2>3 DEF PacketsOK, PacketOK
  <2>4. CASE route[i][d] # NoRoute /\ chan' = Put(chan, i, route[i][d],
                   SipPacket(sent + 1, d, dv[i][i][d], NbrCost(i, route[i][d])))
    <3> DEFINE k == route[i][d]
               p == SipPacket(sent + 1, d, dv[i][i][d], NbrCost(i, k))
    <3>1. DescentAt(i, d) /\ k \in Node
      BY <1>t, <2>4, DescentIs DEF OwnDescent, TypeOK
    <3>2. p \in Packet
      <4>1. sent + 1 \in PacketId
        BY <1>t, <1>4, RoutingAssumption DEF SendSegment, TypeOK, PacketId
      <4>2. dv[i][i][d] \in Nat /\ NbrCost(i, k) \in Nat
        BY <1>t, OwnType, NbrCostType DEF TypeOK
      <4> QED BY <4>1, <4>2, SipPacketType
    <3>3. PacketOK(dv', i, k, p)
      BY <2>1, <2>4, <3>1 DEF PacketOK, SipPacket, DescentAt
    <3>4. ASSUME NEW a \in Node, NEW b \in Node, NEW n \in DOMAIN chan'[a][b]
          PROVE  \/ \E m \in DOMAIN chan[a][b] : chan'[a][b][n] = chan[a][b][m]
                 \/ PacketOK(dv', a, b, chan'[a][b][n])
      <4>1. \/ n \in DOMAIN chan[a][b] /\ chan'[a][b][n] = chan[a][b][n]
            \/ a = i /\ b = k /\ chan'[a][b][n] = p
        <5>1. chan' = Put(chan, i, k, p)
          BY <2>4
        <5> HIDE DEF p, k
        <5>2. n \in DOMAIN Put(chan, i, k, p)[a][b]
          BY <3>4, <5>1
        <5> QED BY <1>c, <3>1, <3>2, <5>1, <5>2, PutElements
      <4> QED BY <3>3, <4>1 DEF PacketOK
    <3> QED BY <1>t, <1>p, <2>1, <2>2, <3>4, PacketsStayOK
  <2> QED BY <1>4, <2>3, <2>4 DEF SendSegment
<1>5. ASSUME NEW i \in Node, NEW j \in Node, DiscardWithoutSIP(i, j)
      PROVE  Abs!Descent' /\ SnapshotsOK' /\ PacketsOK'
  <2>1. Abs!Descent' /\ OwnNotRaised
    BY <1>5, <1>u DEF DiscardWithoutSIP, tables
  <2>2. SnapshotsOK'
    BY <1>t, <1>5 DEF DiscardWithoutSIP, SnapshotsOK
  <2>3. chan' = Take(i, j) /\ chan[j][i] # <<>>
    BY <1>5 DEF DiscardWithoutSIP
  <2> QED BY <1>t, <1>p, <1>c, <2>1, <2>2, <2>3, TakeChannels, PacketsStayOK
<1>6. ASSUME NEW i \in Node, NEW j \in Node, HandleRouteUpdate(i, j)
      PROVE  Abs!Descent' /\ SnapshotsOK' /\ PacketsOK'
  <2> DEFINE p == Head(chan[j][i])
  <2>1. p \in Packet /\ p.type = "ROUTE_UPDATE" /\ PacketOK(dv, j, i, p)
    BY <1>t, <1>6, <1>c, TakeChannels DEF HandleRouteUpdate, Receives, PacketsOK
  <2>2. p.row \in Row /\ \A d \in Dest : dv[j][j][d] =< p.row[d]
    BY <2>1, PacketFields DEF PacketOK
  <2>3. StoreAndRelax(i, j, p.row) /\ chan' = Take(i, j) /\ chan[j][i] # <<>>
    BY <1>6 DEF HandleRouteUpdate, Receives
  <2> HIDE DEF p
  <2>4. Abs!Descent'
    BY <1>t, <1>p, <2>2, <2>3, DescentAfterRelax
  <2>5. OwnNotRaised
    BY <1>t, <2>2, <2>3, RelaxEffect
  <2>6. SnapshotsOK'
    <3> SUFFICES ASSUME NEW a \in Node, NEW d \in Dest, snapshot[a] # NoRow
                 PROVE  dv'[a][a][d] =< snapshot[a][d]
      BY <1>6 DEF HandleRouteUpdate, SnapshotsOK
    <3>1. dv'[a][a][d] =< dv[a][a][d] /\ dv[a][a][d] =< snapshot[a][d]
      BY <1>t, <2>5 DEF OwnNotRaised, SnapshotsOK
    <3>2. dv'[a][a][d] \in Nat /\ dv[a][a][d] \in Nat
      BY <1>t, <1>p, OwnType DEF TypeOK
    <3>3. snapshot[a][d] \in Nat
      BY <1>t, RowType DEF TypeOK
    <3> QED BY <3>1, <3>2, <3>3
  <2> QED BY <1>t, <1>p, <1>c, <2>3, <2>4, <2>5, <2>6, TakeChannels, PacketsStayOK
<1>7. ASSUME NEW i \in Node, NEW j \in Node, HandleSipPacket(i, j)
      PROVE  Abs!Descent' /\ SnapshotsOK' /\ PacketsOK'
  <2> DEFINE p == Head(chan[j][i])
             k == route[i][p.dest]
             onward == SipPacket(p.id, p.dest, p.quoted, p.travelled + NbrCost(i, k))
  <2>1. Abs!Descent' /\ OwnNotRaised /\ dv' = dv
    BY <1>7, <1>u DEF HandleSipPacket, tables
  <2>2. SnapshotsOK'
    BY <1>t, <1>7 DEF HandleSipPacket, tables, SnapshotsOK
  <2>3. chan[j][i] # <<>> /\ p.type = "SIP"
    BY <1>7 DEF HandleSipPacket, Receives
  <2>4. p \in Packet /\ PacketOK(dv, j, i, p)
    BY <1>t, <1>c, <2>3, TakeChannels DEF PacketsOK
  <2>5. p.id \in PacketId /\ p.dest \in Dest /\ p.quoted \in Nat /\ p.travelled \in Nat
    BY <2>3, <2>4, PacketFields
  <2>6. CASE chan' = Take(i, j)
    BY <1>t, <1>p, <1>c, <2>1, <2>2, <2>3, <2>6, TakeChannels, PacketsStayOK
  <2>7. ASSUME k # NoRoute, chan' = Put(Take(i, j), i, k, onward)
        PROVE  PacketsOK'
    <3>1. DescentAt(i, p.dest) /\ k \in Node
      BY <1>t, <2>5, <2>7, DescentIs DEF OwnDescent, TypeOK
    <3>2. onward \in Packet
      BY <2>5, NbrCostType, SipPacketType
    <3>3. PacketOK(dv', i, k, onward)
      <4>1. p.travelled + dv[i][i][p.dest] =< p.quoted /\ p.quoted < INFINITE_COST
        BY <2>3, <2>4 DEF PacketOK
      <4>2. NbrCost(i, k) + dv[k][k][p.dest] =< dv[i][i][p.dest]
        BY <2>7, <3>1 DEF DescentAt
      <4>3. /\ dv[i][i][p.dest] \in Nat /\ dv[k][k][p.dest] \in Nat
            /\ NbrCost(i, k) \in Nat /\ p.travelled \in Nat /\ p.quoted \in Nat
        BY <1>t, <2>5, <3>1, OwnType, NbrCostType DEF TypeOK
      <4>4. p.travelled + NbrCost(i, k) + dv[k][k][p.dest] =< p.quoted
        <5> HIDE DEF p, k
        <5> QED BY <4>1, <4>2, <4>3
      <4>5. /\ onward.type = "SIP" /\ onward.dest = p.dest /\ onward.quoted = p.quoted
            /\ onward.travelled = p.travelled + NbrCost(i, k)
        BY DEF SipPacket
      <4> HIDE DEF p, k, onward
      <4> QED BY <2>1, <4>1, <4>4, <4>5 DEF PacketOK
    <3>4. Take(i, j) \in Channels
      BY <1>c, <2>3, TakeChannels
    <3>5. ASSUME NEW a \in Node, NEW b \in Node, NEW n \in DOMAIN chan'[a][b]
          PROVE  \/ \E m \in DOMAIN chan[a][b] : chan'[a][b][n] = chan[a][b][m]
                 \/ PacketOK(dv', a, b, chan'[a][b][n])
      <4>1. \/ n \in DOMAIN Take(i, j)[a][b] /\ chan'[a][b][n] = Take(i, j)[a][b][n]
            \/ a = i /\ b = k /\ chan'[a][b][n] = onward
        <5> DEFINE taken == Take(i, j)
        <5> HIDE DEF p, k, onward, taken
        <5>1. taken \in Channels /\ k \in Node
          BY <3>1, <3>4 DEF taken
        <5>2. chan' = Put(taken, i, k, onward)
          BY <2>7 DEF taken
        <5>3. n \in DOMAIN Put(taken, i, k, onward)[a][b]
          BY <3>5, <5>2
        <5>4. \/ n \in DOMAIN taken[a][b] /\ chan'[a][b][n] = taken[a][b][n]
              \/ a = i /\ b = k /\ chan'[a][b][n] = onward
          BY <3>2, <5>1, <5>2, <5>3, PutElements
        <5> QED BY <5>4 DEF taken
      <4>2. CASE n \in DOMAIN Take(i, j)[a][b] /\ chan'[a][b][n] = Take(i, j)[a][b][n]
        BY <1>c, <2>3, <4>2, TakeChannels
      <4>3. CASE a = i /\ b = k /\ chan'[a][b][n] = onward
        <5> HIDE DEF k, onward
        <5> QED BY <3>3, <4>3 DEF PacketOK
      <4> QED BY <4>1, <4>2, <4>3
    <3> QED BY <1>t, <1>p, <2>1, <3>5, PacketsStayOK
  <2> QED BY <1>7, <2>1, <2>2, <2>6, <2>7 DEF HandleSipPacket
<1> QED BY <1>1, <1>2, <1>3, <1>4, <1>5, <1>6, <1>7 DEF Next, vars, SipStart, tables

(* In every reachable state: a next hop claims a cost at least one link    *)
(* below its user's, copied and travelling rows are no better than what    *)
(* their senders claim, and packets are within their quotes.               *)
THEOREM InvCorrect == Spec => []IInv
  BY InvInit, InvNext, PTL DEF Spec

-----------------------------------------------------------------------------
(* Consequences for the packets.                                           *)

(* Rows copied or under way never claim less than their sender does by now *)
(* (the daemon sends after releasing dv_mutex).                            *)
THEOREM RowsAreOldCorrect == Spec => []RowsAreOld
<1>1. IInv => RowsAreOld
  BY DEF IInv
<1> QED BY <1>1, InvCorrect, PTL

(* A packet under way never travels further than its source was told, on   *)
(* every overlay and whatever happens to the tables meanwhile.             *)
THEOREM TravelCorrect == Spec => []TravelWithinQuote
<1>1. IInv => TravelWithinQuote
  BY DEF IInv
<1> QED BY <1>1, InvCorrect, PTL

(* Forwarding never finds the routing table empty for a packet that has    *)
(* left its source.                                                        *)
THEOREM NeverStrandedCorrect == Spec => []NeverStranded
<1>1. IInv => NeverStranded
  <2> SUFFICES ASSUME IInv, NEW i \in Node, NEW j \in Node, NEW p \in SipInFlight(i, j),
                      p.dest # j, route[j][p.dest] = NoRoute
               PROVE  FALSE
    BY DEF NeverStranded
  <2>1. p \in Packet /\ p.type = "SIP"
    BY DEF IInv, TypeOK, SipInFlight, InFlight
  <2>2. p.dest \in Dest /\ p.quoted \in Nat /\ p.travelled \in Nat
    BY <2>1, PacketFields
  <2>3. p.travelled + dv[j][j][p.dest] =< p.quoted /\ p.quoted < INFINITE_COST
    BY OwnCostIs DEF IInv, TravelWithinQuote
  <2>4. dv[j][j][p.dest] = INFINITE_COST
    BY <2>2, DescentIs DEF IInv, OwnDescent, DescentAt
  <2> QED BY <2>2, <2>3, <2>4, OverlayAssumption
<1> QED BY <1>1, InvCorrect, PTL

-----------------------------------------------------------------------------
(* Consequences for the costs.                                             *)

(* Rows that are out of date never make a cost fall below the cheapest     *)
(* path (the direct link cost is added to a row that is no better than     *)
(* what its sender claims).                                                *)
LEMMA BoundNext == IInv /\ NeverBelowShortest /\ [Next]_vars => NeverBelowShortest'
<1> SUFFICES ASSUME IInv, NeverBelowShortest, [Next]_vars PROVE NeverBelowShortest'
  OBVIOUS
<1>t. TypeOK /\ PacketsOK
  BY InvariantParts
<1>b. \A a \in Node, d \in Dest : dv[a][a][d] >= Shortest[a][d]
  BY OwnCostIs DEF NeverBelowShortest
<1>1. ASSUME dv' = dv PROVE NeverBelowShortest'
  BY <1>1 DEF NeverBelowShortest, OwnCost
<1>2. ASSUME NEW i \in Node, NEW j \in Node, HandleRouteUpdate(i, j)
      PROVE  NeverBelowShortest'
  <2> DEFINE p == Head(chan[j][i])
  <2>1. p \in Packet /\ p.type = "ROUTE_UPDATE" /\ PacketOK(dv, j, i, p)
    BY <1>t, <1>2, TakeChannels DEF HandleRouteUpdate, Receives, PacketsOK, TypeOK, Channels
  <2>2. p.row \in Row /\ \A d \in Dest : dv[j][j][d] =< p.row[d]
    BY <2>1, PacketFields DEF PacketOK
  <2>3. StoreAndRelax(i, j, p.row)
    BY <1>2 DEF HandleRouteUpdate
  <2> HIDE DEF p
  <2>4. SUFFICES ASSUME NEW a \in Node, NEW d \in Dest
                 PROVE  dv'[a][a][d] >= Shortest[a][d]
    BY OwnCostIs DEF NeverBelowShortest, OwnCost
  <2>5. CASE dv'[a][a][d] = dv[a][a][d]
    BY <1>b, <2>5
  <2>6. CASE a = i /\ dv'[i][i][d] = NbrCost(i, j) + p.row[d]
    <3>1. Shortest[i][d] =< NbrCost(i, j) + Shortest[j][d]
      BY ShortestAssumption
    <3>2. dv[j][j][d] >= Shortest[j][d] /\ dv[j][j][d] =< p.row[d]
      BY <1>b, <2>2
    <3>3. /\ Shortest[i][d] \in Nat /\ Shortest[j][d] \in Nat /\ dv[j][j][d] \in Nat
          /\ NbrCost(i, j) \in Nat /\ p.row[d] \in Nat
      <4>1. dv[j][j][d] \in Nat /\ NbrCost(i, j) \in Nat /\ p.row[d] \in Nat
        BY <1>t, <2>2, OwnType, RowType, NbrCostType DEF TypeOK
      <4>2. Shortest[i][d] \in Nat /\ Shortest[j][d] \in Nat
        BY ShortestAssumption DEF Cost
      <4> QED BY <4>1, <4>2
    <3> QED BY <2>6, <3>1, <3>2, <3>3
  <2> QED BY <1>t, <2>2, <2>3, <2>5, <2>6, RelaxEffect
<1> QED BY <1>1, <1>2 DEF Next, vars, tables, SipStart, Snapshot, Broadcast, SendSegment,
                          DiscardWithoutSIP, HandleSipPacket

(* No node ever believes in a path cheaper than the cheapest one.          *)
THEOREM BoundCorrect == Spec => []NeverBelowShortest
<1>1. Init => NeverBelowShortest
  <2> SUFFICES ASSUME Init, NEW i \in Node, NEW d \in Dest
               PROVE  dv[i][i][d] >= Shortest[i][d]
    BY OwnCostIs DEF NeverBelowShortest
  <2>1. dv[i][i][d] = IF d = i THEN 0 ELSE NbrCost(i, d)
    BY DEF Init, InitialTable, InitialRow
  <2>2. d \in Node /\ Shortest[d][d] = 0 /\ Shortest[i][d] =< NbrCost(i, d) + Shortest[d][d]
    BY OverlayAssumption, ShortestAssumption
  <2>3. NbrCost(i, d) \in Nat /\ Shortest[i][d] \in Nat
    BY NbrCostType, ShortestAssumption DEF Cost
  <2> QED BY <2>1, <2>2, <2>3
<1> QED BY <1>1, BoundNext, InvCorrect, PTL DEF Spec

-----------------------------------------------------------------------------
(* Refinement and freedom from loops.                                      *)

(* A nonempty set of natural numbers has a smallest member.                *)
LEMMA SmallestOf ==
    ASSUME NEW T \in SUBSET Nat, T # {}
    PROVE  \E n \in T : \A m \in T : n =< m
<1>1. PICK n \in T : \A m \in T : ~(<<m, n>> \in OpToRel(<, Nat))
  BY WFMin, NatLessThanWellFounded
<1>2. \A m \in T : ~(m < n)
  BY <1>1 DEF OpToRel
<1> QED BY <1>2

(* The definitions of Overlay mean the same in the abstract specification. *)
LEMMA SameOverlay ==
    /\ \A i \in Node : Abs!InitialRow(i) = InitialRow(i)
    /\ \A i \in Node : Abs!InitialRoutes(i) = InitialRoutes(i)
    /\ \A i \in Node : \A j : Abs!NbrCost(i, j) = NbrCost(i, j)
    /\ Abs!Cost = Cost
  BY DEF Abs!InitialRow, InitialRow, Abs!InitialRoutes, InitialRoutes, Abs!NbrCost, NbrCost,
         Abs!Nbr, Nbr, Abs!Cost, Cost

(* The initial tables are initial costs and routes of RouteDescent.        *)
LEMMA RefinesInit == Init => Abs!Init
<1> SUFFICES ASSUME Init PROVE Abs!Init
  OBVIOUS
<1>1. \A i \in Node : dv[i][i] = InitialRow(i)
  BY DEF Init, InitialTable
<1>2. OwnCost = [i \in Node |-> Abs!InitialRow(i)]
  BY <1>1, SameOverlay DEF OwnCost
<1>3. route = [i \in Node |-> Abs!InitialRoutes(i)]
  BY SameOverlay DEF Init
<1> QED BY <1>2, <1>3 DEF Abs!Init

(* Every step is a step of RouteDescent or changes neither costs nor       *)
(* routes.                                                                 *)
LEMMA RefinesNext == IInv /\ IInv' /\ [Next]_vars => [Abs!Next]_(Abs!vars)
<1> SUFFICES ASSUME IInv, IInv', [Next]_vars PROVE [Abs!Next]_(Abs!vars)
  OBVIOUS
<1>t. TypeOK /\ PacketsOK /\ TypeOK'
  BY InvariantParts DEF IInv
<1>1. ASSUME UNCHANGED tables PROVE [Abs!Next]_(Abs!vars)
  BY <1>1 DEF tables, Abs!vars, OwnCost
<1>2. ASSUME NEW i \in Node, NEW j \in Node, HandleRouteUpdate(i, j)
      PROVE  Abs!Improve(i, j)
  <2> DEFINE p == Head(chan[j][i])
  <2>1. p \in Packet /\ p.type = "ROUTE_UPDATE" /\ PacketOK(dv, j, i, p)
    BY <1>t, <1>2, TakeChannels DEF HandleRouteUpdate, Receives, PacketsOK, TypeOK, Channels
  <2>2. p.row \in Row /\ \A d \in Dest : dv[j][j][d] =< p.row[d]
    BY <2>1, PacketFields DEF PacketOK
  <2>3. StoreAndRelax(i, j, p.row)
    BY <1>2 DEF HandleRouteUpdate
  <2> HIDE DEF p
  <2>4. OwnCost' \in [Node -> [Dest -> Abs!Cost]]
    BY <1>t, SameOverlay DEF TypeOK, OwnCost, Row
  <2>5. route' \in [Node -> [Dest -> Node \cup {NoRoute}]]
    BY <1>t DEF TypeOK
  <2>6. \A k \in Node \ {i} : OwnCost'[k] = OwnCost[k] /\ route'[k] = route[k]
    BY <1>t, <2>2, <2>3, RelaxEffect DEF OwnCost
  <2>7. ASSUME NEW d \in Dest
        PROVE  \/ /\ OwnCost'[i][d] < OwnCost[i][d]
                  /\ OwnCost'[i][d] >= Abs!NbrCost(i, j) + OwnCost[j][d]
                  /\ route'[i][d] = j
               \/ /\ OwnCost'[i][d] = OwnCost[i][d]
                  /\ route'[i][d] = route[i][d]
    <3>1. /\ OwnCost'[i][d] = dv'[i][i][d] /\ OwnCost[i][d] = dv[i][i][d]
          /\ OwnCost[j][d] = dv[j][j][d] /\ Abs!NbrCost(i, j) = NbrCost(i, j)
      BY SameOverlay DEF OwnCost
    <3>2. /\ dv[j][j][d] \in Nat /\ NbrCost(i, j) \in Nat /\ p.row[d] \in Nat
          /\ dv[j][j][d] =< p.row[d]
      BY <1>t, <2>2, OwnType, RowType, NbrCostType DEF TypeOK
    <3>3. NbrCost(i, j) + p.row[d] >= NbrCost(i, j) + dv[j][j][d]
      BY <3>2
    <3> QED BY <1>t, <2>2, <2>3, <3>1, <3>3, RelaxEffect
  <2> QED BY <2>4, <2>5, <2>6, <2>7 DEF Abs!Improve
<1> QED BY <1>1, <1>2 DEF Next, Abs!Next, vars, tables, SipStart, Snapshot, Broadcast,
                          SendSegment, DiscardWithoutSIP, HandleSipPacket

(* The SIP layer implements RouteDescent: every handled update is one      *)
(* improvement through one neighbour, everything else is invisible.        *)
THEOREM Refinement == Spec => ImplementsRouteDescent
<1>1. Spec => []IInv /\ Init /\ [][Next]_vars
  BY InvCorrect, PTL DEF Spec
<1> QED BY <1>1, RefinesInit, RefinesNext, PTL DEF ImplementsRouteDescent, Abs!Spec

(* On no overlay and at no instant do the next hops form a loop: of the    *)
(* nodes of a set the one with the smallest cost points out of the set.    *)
THEOREM LoopFreeCorrect == Spec => []LoopFree
<1>1. IInv => LoopFree
  <2> SUFFICES ASSUME IInv, NEW d \in Dest, NEW S \in SUBSET Node, S # {}
               PROVE  \E i \in S : route[i][d] \notin S
    BY DEF LoopFree, Abs!LoopFree
  <2>1. \A i \in S : dv[i][i][d] \in Nat
    BY OwnType DEF IInv, TypeOK
  <2> DEFINE T == {dv[i][i][d] : i \in S}
  <2>2. PICK c \in T : \A e \in T : c =< e
    <3>1. T \in SUBSET Nat /\ T # {}
      BY <2>1
    <3> HIDE DEF T
    <3> QED BY <3>1, SmallestOf
  <2>3. PICK i \in S : c = dv[i][i][d]
    BY <2>2
  <2>4. ASSUME route[i][d] \in S PROVE FALSE
    <3> DEFINE n == route[i][d]
    <3>1. n \in Node /\ n # NoRoute
      BY <2>4, OverlayAssumption
    <3>2. NbrCost(i, n) + dv[n][n][d] =< dv[i][i][d]
      BY <3>1, DescentIs DEF IInv, OwnDescent, DescentAt
    <3>3. dv[i][i][d] =< dv[n][n][d]
      BY <2>2, <2>3, <2>4
    <3>4. NbrCost(i, n) \in Nat /\ NbrCost(i, n) >= 1
      BY NbrCostType
    <3> HIDE DEF n
    <3>5. dv[n][n][d] \in Nat /\ dv[i][i][d] \in Nat
      BY <2>1, <2>4 DEF n
    <3> QED BY <3>2, <3>3, <3>4, <3>5
  <2> QED BY <2>4
<1> QED BY <1>1, InvCorrect, PTL
=============================================================================
