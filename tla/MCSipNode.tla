------------------------------ MODULE MCSipNode ------------------------------
(***************************************************************************)
(* Node 1 with the neighbours 2 and 12, the latter dear, behind which is   *)
(* 22: all others share a chain.  The assumptions compare the operators of *)
(* SipTables and Segments with what they are to compute, for all inputs of *)
(* a small size.                                                           *)
(***************************************************************************)
EXTENDS SipNode, Segments

MCLines == <<<<1, 2, 1>>, <<12, 22, 1>>, <<1, 12, 9>>, <<2, 12, 1>>>>

Cheap(id) == CASE id = 1 -> 1 [] id = 2 -> 0 [] id = 12 -> 1 [] id = 22 -> 2
RowOf(cost(_)) == [k \in DOMAIN allIdList |-> cost(allIdList[k])]
MCUpdates ==
  {[src |-> 2, row |-> RowOf(Cheap)],
   [src |-> 12, row |-> RowOf(LAMBDA id : CASE id = 1 -> 9 [] id = 12 -> 0 [] OTHER -> 1)]}

----------------------------------------------------------------------------
(* Tables *)

\* The lines are such as the theorems about the tables ask for.
ASSUME LinksProper == OneLinePerLink

\* getTopoData finds every ID once, and the neighbours and costs of the lines.
ASSUME ListsRight ==
  /\ \A id \in Ids : Cardinality({k \in DOMAIN allIdList : allIdList[k] = id}) = 1
  /\ Ids = UNION {{Lines[k][1], Lines[k][2]} : k \in DOMAIN Lines}
  /\ \A i, j \in Ids : CostIn(NbList(i), j) = CostIn(NbList(j), i)
  /\ \A i, j \in Ids : CostIn(NbList(i), j) < INFINITE_COST <=>
       \E k \in DOMAIN Lines : {i, j} = {Lines[k][1], Lines[k][2]}
  /\ \A i \in Ids : bigCount(i) + smallCount(i) = Len(NbList(i))

\* The chains are a map: after any three changes every ID has the next hop it was
\* given last, and -1 only if it was never given one.
Changes == [1 .. 3 -> {2, 12, 22, 5} \X {2, 12}]
LastOf(changes, id) ==
  LET ks == {k \in DOMAIN changes : changes[k][1] = id}
  IN  IF ks = {} THEN IF IndexOf(nct, id) = 0 THEN -1 ELSE id
      ELSE changes[CHOOSE k \in ks : \A l \in ks : l <= k][2]
ASSUME ChainsAreAMap ==
  \A changes \in Changes :
    LET rt == FoldLeft(LAMBDA t, c : routingtable_setnextnode(t, c[1], c[2]),
                       routingtable_create(Me), changes)
    IN  \A id \in Ids \cup {5} : routingtable_getnextnode(rt, id) = LastOf(changes, id)

\* A cost is changed for the one pair it is set for, if the tables know the pair.
ASSUME CostsAreAMap ==
  LET t == dvtable_create(Me) IN
  \A f, i \in Ids \cup {5}, id \in Ids \cup {5} :
    LET set == dvtable_setcost(t, f, id, 7)
        known == (f = Me \/ IndexOf(nct, f) # 0) /\ id \in Ids
    IN  \A j \in Ids :
          dvtable_getcost(set, i, j) = IF known /\ i = f /\ j = id THEN 7
                                       ELSE dvtable_getcost(t, i, j)

----------------------------------------------------------------------------
(* Segments *)

Bodies == [1 .. 4 -> {0, 7, 33, 35, 38}]
Adjacent(s, a, b) == {k \in 1 .. Len(s) - 1 : s[k] = a /\ s[k + 1] = b}

\* A structure arrives whole exactly when !# does not occur in it; otherwise what
\* stands in front of the first !# arrives, and the rest of the buffer is zero.
ASSUME FrameReadBack ==
  \A s \in Bodies :
    LET r == SegReads(SegFrame(1, s, <<>>), 5)
        ends == Adjacent(s, 33, 35)
        first == CHOOSE k \in ends : \A l \in ends : k <= l
        rest == IF ends = {} THEN s ELSE SubSeq(s, 1, first - 1)
    IN  r.st = "done" /\ r.buf = <<1>> \o rest

\* Whatever characters come in front of a frame, it is found if !& is not among
\* them; recvpkt and its like, which start afresh at a second !, may miss it.
ASSUME FrameFound ==
  \A noise \in [1 .. 3 -> {7, 33, 38}] :
    Adjacent(noise, 33, 38) = {} =>
      SegReads(noise \o SegFrame(1, <<7>>, <<>>), 2).buf = <<1, 7>>
ASSUME FrameMissed ==
  \E r \in Reads(Receiver, <<33>> \o FlattenSeq(FrameOf(<<7>>)), 1) : r.st # "done"

\* Segments of a header of six bytes - a field, the length, the checksum - with up
\* to two bytes of data, and two bytes behind them.
Segs == {<<f[1], f[2], len, 0, 0, 0>> \o data :
           f \in [1 .. 2 -> 0 .. 3], len \in 0 .. 2, data \in [1 .. 4 -> {0, 1, 3}]}

\* A segment with its checksum is accepted; with any one bit of it flipped it is
\* not, unless the bit belongs to the length: then other bytes are summed up, and
\* they may fit.
LengthKept(seg, other) == DataLen(seg) = DataLen(other)
Damaged(seg) == {s \in seglost(Checked(seg), {1, 2}) \ {<<>>, Checked(seg)} :
                   DataLen(s) <= 4}
ASSUME DamageDetected ==
  \A seg \in Segs : /\ checkchecksum(Checked(seg))
                    /\ \A s \in Damaged(seg) : LengthKept(seg, s) => ~checkchecksum(s)
ASSUME DamagedLengthMayFit ==
  \E seg \in Segs : \E s \in Damaged(seg) : checkchecksum(s)

=============================================================================
