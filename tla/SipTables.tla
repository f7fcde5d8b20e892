------------------------------ MODULE SipTables ------------------------------
(***************************************************************************)
(* The data structures of a SIP process as lab11 builds them: the lists    *)
(* that getTopoData (topology/topology.c) reads from topology.dat, the     *)
(* table of link costs (sip/nbrcosttable.c), the distance vector table     *)
(* (sip/dvtable.c) and the routing table with its hash chains              *)
(* (sip/routingtable.c).  Arrays and lists are sequences; a search that    *)
(* fails gives the code's default value.                                   *)
(***************************************************************************)
EXTENDS Integers, SequencesExt

CONSTANTS Lines,                   \* of topology.dat: sequence of <<id1, id2, cost>>
          MAX_ROUTINGTABLE_SLOTS,
          INFINITE_COST

ASSUME TablesAssumption ==
  /\ Lines \in Seq(Nat \X Nat \X Nat) /\ Lines # <<>>
  /\ MAX_ROUTINGTABLE_SLOTS \in Nat \ {0}
  /\ INFINITE_COST \in Nat

----------------------------------------------------------------------------
(* topology.c *)

\* Appends an ID that is not in the list yet.
Counted(ids, id) == IF Contains(ids, id) THEN ids ELSE Append(ids, id)

\* allIdList, in the order in which the IDs turn up.
allIdList ==
  LET after[n \in 0 .. Len(Lines)] ==
        IF n = 0 THEN <<>> ELSE Counted(Counted(after[n - 1], Lines[n][1]), Lines[n][2])
  IN  after[Len(Lines)]

\* What a line adds to nbIdList and costList, side by side, if it names the node.
Neighboured(nbs, me, line) ==
  IF me \in {line[1], line[2]}
  THEN Append(nbs, [nodeID |-> IF line[1] = me THEN line[2] ELSE line[1], cost |-> line[3]])
  ELSE nbs

NbList(me) ==
  LET after[n \in 0 .. Len(Lines)] ==
        IF n = 0 THEN <<>> ELSE Neighboured(after[n - 1], me, Lines[n])
  IN  after[Len(Lines)]

\* bigCount and smallCount: the neighbours that connect, and are connected to.
bigCount(me) == Len(SelectSeq(NbList(me), LAMBDA e : e.nodeID > me))
smallCount(me) == Len(SelectSeq(NbList(me), LAMBDA e : e.nodeID < me))

\* What topology.dat is expected to be, and in the repository is: the ends of a
\* link differ, its cost is one, and no two lines are about the same link.  The
\* code does not look.
OneLinePerLink ==
  /\ \A n \in DOMAIN Lines : Lines[n][1] # Lines[n][2] /\ Lines[n][3] < INFINITE_COST
  /\ \A m, n \in DOMAIN Lines :
       {Lines[m][1], Lines[m][2]} = {Lines[n][1], Lines[n][2]} => m = n

----------------------------------------------------------------------------
(* Linear search, and nbrcosttable.c *)

\* The index of the first entry with that nodeID, 0 if there is none.
IndexOf(entries, id) == SelectInSeq(entries, LAMBDA e : e.nodeID = id)

\* The cost in the first entry with that nodeID.
CostIn(entries, id) ==
  LET k == IndexOf(entries, id) IN IF k = 0 THEN INFINITE_COST ELSE entries[k].cost

nbrcosttable_create(me) == NbList(me)
nbrcosttable_getcost(nct, id) == CostIn(nct, id)

----------------------------------------------------------------------------
(* dvtable.c: a row for every neighbour, the node's own row behind them *)

dvtable_create(me) ==
  LET nbs == NbList(me)
      own(id) == IF id = me THEN 0 ELSE CostIn(nbs, id)
      row(cost(_)) == [k \in DOMAIN allIdList |->
                         [nodeID |-> allIdList[k], cost |-> cost(allIdList[k])]]
  IN  Append([k \in DOMAIN nbs |-> [nodeID |-> nbs[k].nodeID,
                                     dvEntry |-> row(LAMBDA id : INFINITE_COST)]],
             [nodeID |-> me, dvEntry |-> row(own)])

\* Only the first row of fromID is looked at; what is not found is not stored.
dvtable_setcost(dv, fromID, toID, cost) ==
  LET r == IndexOf(dv, fromID)
      k == IF r = 0 THEN 0 ELSE IndexOf(dv[r].dvEntry, toID)
  IN  IF k = 0 THEN dv ELSE [dv EXCEPT ![r].dvEntry[k].cost = cost]

\* A whole row of costs, in the order of allIdList.
dvtable_setrow(dv, fromID, row) ==
  LET after[n \in 0 .. Len(allIdList)] ==
        IF n = 0 THEN dv ELSE dvtable_setcost(after[n - 1], fromID, allIdList[n], row[n])
  IN  after[Len(allIdList)]

dvtable_getcost(dv, fromID, toID) ==
  LET r == IndexOf(dv, fromID)
  IN  IF r = 0 THEN INFINITE_COST ELSE CostIn(dv[r].dvEntry, toID)

----------------------------------------------------------------------------
(* routingtable.c *)

makehash(id) == id % MAX_ROUTINGTABLE_SLOTS

\* An entry behind the last one of its chain.
Chained(rt, dest, next) ==
  [rt EXCEPT ![makehash(dest)] = Append(@, [nodeID |-> dest, nextNodeID |-> next])]

routingtable_create(me) ==
  LET nbs == NbList(me)
      after[n \in 0 .. Len(nbs)] ==
        IF n = 0 THEN [s \in 0 .. MAX_ROUTINGTABLE_SLOTS - 1 |-> <<>>]
        ELSE Chained(after[n - 1], nbs[n].nodeID, nbs[n].nodeID)
  IN  after[Len(nbs)]

\* The first entry for dest is overwritten, or a new one chained.
routingtable_setnextnode(rt, dest, next) ==
  LET k == IndexOf(rt[makehash(dest)], dest)
  IN  IF k = 0 THEN Chained(rt, dest, next)
      ELSE [rt EXCEPT ![makehash(dest)][k].nextNodeID = next]

routingtable_getnextnode(rt, dest) ==
  LET k == IndexOf(rt[makehash(dest)], dest)
  IN  IF k = 0 THEN -1 ELSE rt[makehash(dest)][k].nextNodeID

=============================================================================
