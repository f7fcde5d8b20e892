---------------------------- MODULE SipNodeProofs ----------------------------
(***************************************************************************)
(* Theorems about SipNode, for any topology, any route updates and any     *)
(* number of STCP programs.                                                *)
(***************************************************************************)
EXTENDS SipNode, TLAPS, WellFoundedInduction, FiniteSetTheorems

-----------------------------------------------------------------------------
(* Numbers, tables that are built step by step, and searches.              *)

(* A set of numbers has a smallest one.                                    *)
LEMMA SmallestOne ==
    ASSUME NEW S \in SUBSET Nat, S # {}
    PROVE  \E n \in S : \A m \in S : n <= m
<1> DEFINE R == {ss \in Nat \X Nat : ss[1] < ss[2]}
<1>1. IsWellFoundedOn(R, Nat)
  BY NatLessThanWellFounded DEF OpToRel
<1>2. PICK n \in S : \A m \in S : ~(<<m, n>> \in R)
  BY <1>1, WFMin
<1>3. ASSUME NEW m \in S
      PROVE  n <= m
  <2>1. n \in Nat /\ m \in Nat
    OBVIOUS
  <2>2. ~(m < n)
    BY <1>2, <2>1
  <2> HIDE DEF R
  <2> QED
    BY <2>1, <2>2
<1> QED
  BY <1>3

(* A set that has 0, and every number up to N with the one before it, has  *)
(* N.                                                                      *)
LEMMA StepByStep ==
    ASSUME NEW N \in Nat, NEW S, 0 \in S,
           \A n \in 1 .. N : n - 1 \in S => n \in S
    PROVE  N \in S
<1> DEFINE B == {n \in 0 .. N : n \notin S}
<1>1. SUFFICES ASSUME B # {}
               PROVE  FALSE
  <2>1. N \in 0 .. N
    OBVIOUS
  <2> QED
    BY <2>1
<1>2. PICK m \in B : \A k \in B : m <= k
  <2>1. B \in SUBSET Nat
    OBVIOUS
  <2> HIDE DEF B
  <2> QED
    BY <1>1, <2>1, SmallestOne
<1>3. m \in 1 .. N /\ m \notin S
  BY <1>2
<1>4. m - 1 \in S
  <2>1. m - 1 \in 0 .. N /\ ~(m <= m - 1)
    BY <1>3
  <2>2. m - 1 \notin B
    BY <1>2, <2>1
  <2> QED
    BY <2>1, <2>2
<1> QED
  BY <1>3, <1>4

(* f goes on from base, one number after the other, as G says.             *)
GoesOn(f, base, G, N) ==
    f[0] = base /\ \A n \in 1 .. N : f[n] = G[<<f[n - 1], n>>]

(* A table can be computed step by step: there is the function of its      *)
(* stages, in the set that the steps do not leave.                         *)
LEMMA StagesExist ==
    ASSUME NEW N \in Nat, NEW T, NEW base \in T, NEW G \in [T \X (1 .. N) -> T]
    PROVE  \E f \in [0 .. N -> T] : GoesOn(f, base, G, N)
<1> DEFINE S == {n \in 0 .. N : \E f \in [0 .. n -> T] : GoesOn(f, base, G, n)}
<1>1. 0 \in S
  <2> DEFINE f == [i \in 0 .. 0 |-> base]
  <2>1. f \in [0 .. 0 -> T] /\ GoesOn(f, base, G, 0)
    BY DEF GoesOn
  <2> QED
    BY <2>1
<1>2. ASSUME NEW n \in 1 .. N, n - 1 \in S
      PROVE  n \in S
  <2>1. PICK f \in [0 .. n - 1 -> T] : GoesOn(f, base, G, n - 1)
    BY <1>2
  <2> DEFINE g == [i \in 0 .. n |-> IF i = n THEN G[<<f[n - 1], n>>] ELSE f[i]]
  <2>2. g \in [0 .. n -> T]
    <3>1. n - 1 \in 0 .. n - 1
      OBVIOUS
    <3>2. <<f[n - 1], n>> \in T \X (1 .. N)
      BY <3>1
    <3>3. G[<<f[n - 1], n>>] \in T
      BY <3>2
    <3>4. \A i \in 0 .. n : i # n => i \in 0 .. n - 1
      OBVIOUS
    <3> QED
      BY <3>3, <3>4
  <2>3. GoesOn(g, base, G, n)
    <3>1. g[0] = base
      BY <2>1 DEF GoesOn
    <3>2. ASSUME NEW i \in 1 .. n
          PROVE  g[i] = G[<<g[i - 1], i>>]
      <4>1. CASE i = n
        <5>1. n \in 0 .. n /\ n - 1 \in 0 .. n /\ n - 1 # n
          OBVIOUS
        <5>2. g[n] = G[<<f[n - 1], n>>] /\ g[n - 1] = f[n - 1]
          BY <5>1
        <5> HIDE DEF g
        <5> QED
          BY <4>1, <5>2
      <4>2. CASE i # n
        <5>1. i \in 1 .. n - 1 /\ i \in 0 .. n /\ i - 1 \in 0 .. n /\ i - 1 # n
          BY <4>2
        <5>2. g[i] = f[i] /\ g[i - 1] = f[i - 1]
          BY <4>2, <5>1
        <5>3. f[i] = G[<<f[i - 1], i>>]
          BY <2>1, <5>1 DEF GoesOn
        <5> HIDE DEF g
        <5> QED
          BY <5>2, <5>3
      <4> QED
        BY <4>1, <4>2
    <3> HIDE DEF g
    <3> QED
      BY <3>1, <3>2 DEF GoesOn
  <2> HIDE DEF g
  <2>4. n \in 0 .. N
    OBVIOUS
  <2> QED
    BY <2>2, <2>3, <2>4
<1>3. N \in S
  <2> HIDE DEF S
  <2> QED
    BY <1>1, <1>2, StepByStep
<1> QED
  BY <1>3

(* The first entry with an ID.                                             *)
LEMMA IndexOfIs ==
    ASSUME NEW es, NEW id, Len(es) \in Nat
    PROVE  /\ IndexOf(es, id) \in 0 .. Len(es)
           /\ IndexOf(es, id) # 0 => es[IndexOf(es, id)].nodeID = id
           /\ \A k \in 1 .. Len(es) : es[k].nodeID = id =>
                IndexOf(es, id) # 0 /\ IndexOf(es, id) <= k
<1> DEFINE I == {i \in 1 .. Len(es) : es[i].nodeID = id}
<1>1. IndexOf(es, id) = IF I # {} THEN Min(I) ELSE 0
  BY DEF IndexOf, SelectInSeq
<1>2. CASE I = {}
  BY <1>1, <1>2
<1>3. CASE I # {}
  <2>1. \E n \in I : \A m \in I : n <= m
    <3>1. I \in SUBSET Nat
      OBVIOUS
    <3> HIDE DEF I
    <3> QED
      BY <1>3, <3>1, SmallestOne
  <2>2. Min(I) \in I /\ \A m \in I : Min(I) <= m
    <3> HIDE DEF I
    <3> QED
      BY <2>1 DEF Min
  <2>3. IndexOf(es, id) \in I /\ \A m \in I : IndexOf(es, id) <= m
    <3> HIDE DEF I
    <3> QED
      BY <1>1, <1>3, <2>2
  <2> DEFINE x == IndexOf(es, id)
  <2> HIDE DEF x
  <2>4. x \in 1 .. Len(es) /\ es[x].nodeID = id
    BY <2>3 DEF x
  <2>5. \A k \in 1 .. Len(es) : es[k].nodeID = id => x <= k
    BY <2>3 DEF x
  <2>6. /\ x \in 0 .. Len(es) /\ (x # 0 => es[x].nodeID = id)
        /\ \A k \in 1 .. Len(es) : es[k].nodeID = id => x # 0 /\ x <= k
    BY <2>4, <2>5
  <2> QED
    BY <2>6 DEF x
<1> QED
  BY <1>2, <1>3

(* It is the one with no such entry before it.                             *)
LEMMA FirstIs ==
    ASSUME NEW es, NEW id, Len(es) \in Nat, NEW k \in 1 .. Len(es), es[k].nodeID = id,
           \A j \in 1 .. Len(es) : j < k => es[j].nodeID # id
    PROVE  IndexOf(es, id) = k
<1> DEFINE x == IndexOf(es, id)
<1>1. x \in 1 .. Len(es) /\ es[x].nodeID = id /\ x <= k
  BY IndexOfIs
<1>2. ~(x < k)
  BY <1>1
<1> HIDE DEF x
<1> QED
  BY <1>1, <1>2 DEF x

(* Without one it is 0.                                                    *)
LEMMA NoneIs ==
    ASSUME NEW es, NEW id, Len(es) \in Nat, \A j \in 1 .. Len(es) : es[j].nodeID # id
    PROVE  IndexOf(es, id) = 0
<1> DEFINE x == IndexOf(es, id)
<1>1. x \in 0 .. Len(es) /\ (x # 0 => es[x].nodeID = id)
  BY IndexOfIs
<1> HIDE DEF x
<1> QED
  BY <1>1 DEF x

(* Lists of the same IDs find them at the same place.                      *)
LEMMA SameIndex ==
    ASSUME NEW es, NEW fs, NEW id, Len(es) \in Nat, Len(fs) = Len(es),
           \A j \in 1 .. Len(es) : es[j].nodeID = fs[j].nodeID
    PROVE  IndexOf(es, id) = IndexOf(fs, id)
<1> DEFINE x == IndexOf(es, id)
<1>1. x \in 0 .. Len(es) /\ (x # 0 => es[x].nodeID = id)
      /\ \A k \in 1 .. Len(es) : es[k].nodeID = id => x # 0 /\ x <= k
  BY IndexOfIs
<1> HIDE DEF x
<1>2. CASE x = 0
  BY <1>1, <1>2, NoneIs DEF x
<1>3. CASE x # 0
  <2>1. x \in 1 .. Len(fs) /\ fs[x].nodeID = id
    BY <1>1, <1>3
  <2>2. \A j \in 1 .. Len(fs) : j < x => fs[j].nodeID # id
    BY <1>1
  <2>3. IndexOf(fs, id) = x
    BY <2>1, <2>2, FirstIs
  <2> QED
    BY <2>3 DEF x
<1> QED
  BY <1>2, <1>3

(* One entry of a list of neighbours or of a row.                          *)
Entry == [nodeID : Nat, cost : Nat]

(* The entry that a line makes in the list of one of its nodes.            *)
EntryOf(me, line) ==
  [nodeID |-> IF line[1] = me THEN line[2] ELSE line[1], cost |-> line[3]]

(* The lines hold numbers.                                                 *)
LEMMA LinesAre ==
    /\ Len(Lines) \in Nat /\ DOMAIN Lines = 1 .. Len(Lines)
    /\ \A n \in 1 .. Len(Lines) : Lines[n][1] \in Nat /\ Lines[n][2] \in Nat /\ Lines[n][3] \in Nat
  BY TablesAssumption

(* An ID is in the list after it has been counted, and none is dropped.    *)
LEMMA CountedIs ==
    ASSUME NEW ids \in Seq(Nat), NEW id \in Nat
    PROVE  /\ Counted(ids, id) \in Seq(Nat) /\ Contains(Counted(ids, id), id)
           /\ \A x : Contains(ids, x) => Contains(Counted(ids, id), x)
<1>1. CASE Contains(ids, id)
  BY <1>1 DEF Counted
<1>2. CASE ~Contains(ids, id)
  <2>1. Counted(ids, id) = Append(ids, id)
    BY <1>2 DEF Counted
  <2>2. Append(ids, id) \in Seq(Nat) /\ Len(Append(ids, id)) = Len(ids) + 1
    OBVIOUS
  <2>3. Append(ids, id)[Len(ids) + 1] = id /\ Len(ids) + 1 \in 1 .. Len(ids) + 1
    OBVIOUS
  <2>4. \A i \in 1 .. Len(ids) : i \in 1 .. Len(ids) + 1 /\ Append(ids, id)[i] = ids[i]
    OBVIOUS
  <2>5. Contains(Append(ids, id), id)
    BY <2>2, <2>3 DEF Contains
  <2>6. \A x : Contains(ids, x) => Contains(Append(ids, id), x)
    BY <2>2, <2>4 DEF Contains
  <2> QED
    BY <2>1, <2>2, <2>5, <2>6
<1> QED
  BY <1>1, <1>2

(* f gives allIdList after the first lines.                                *)
IdsAfter(f) ==
  f = [n \in 0 .. Len(Lines) |->
         IF n = 0 THEN <<>> ELSE Counted(Counted(f[n - 1], Lines[n][1]), Lines[n][2])]

(* allIdList is a list of numbers, and has the IDs of all lines.           *)
LEMMA AllIdsAre ==
    /\ allIdList \in Seq(Nat)
    /\ \A n \in 1 .. Len(Lines) : Contains(allIdList, Lines[n][1]) /\ Contains(allIdList, Lines[n][2])
<1> DEFINE N == Len(Lines)
           G == [p \in Seq(Nat) \X (1 .. N) |->
                   Counted(Counted(p[1], Lines[p[2]][1]), Lines[p[2]][2])]
<1>1. N \in Nat
  BY LinesAre
<1>2. ASSUME NEW ids \in Seq(Nat), NEW n \in 1 .. N
      PROVE  /\ Counted(Counted(ids, Lines[n][1]), Lines[n][2]) \in Seq(Nat)
             /\ \A x : Contains(ids, x) \/ x = Lines[n][1] \/ x = Lines[n][2] =>
                  Contains(Counted(Counted(ids, Lines[n][1]), Lines[n][2]), x)
  <2>1. Lines[n][1] \in Nat /\ Lines[n][2] \in Nat
    BY LinesAre
  <2>2. Counted(ids, Lines[n][1]) \in Seq(Nat)
    BY <2>1, CountedIs
  <2> QED
    BY <2>1, <2>2, CountedIs
<1>3. \E f : IdsAfter(f)
  <2>1. <<>> \in Seq(Nat)
    OBVIOUS
  <2>2. G \in [Seq(Nat) \X (1 .. N) -> Seq(Nat)]
    BY <1>2
  <2>3. PICK f \in [0 .. N -> Seq(Nat)] : GoesOn(f, <<>>, G, N)
    <3> HIDE DEF G
    <3> QED
      BY <1>1, <2>1, <2>2, StagesExist
  <2>4. ASSUME NEW n \in 0 .. N
        PROVE  f[n] = IF n = 0 THEN <<>> ELSE Counted(Counted(f[n - 1], Lines[n][1]), Lines[n][2])
    <3>1. CASE n = 0
      BY <2>3, <3>1 DEF GoesOn
    <3>2. CASE n # 0
      <4>1. n \in 1 .. N /\ n - 1 \in 0 .. N
        BY <1>1, <3>2
      <4>2. <<f[n - 1], n>> \in Seq(Nat) \X (1 .. N)
        BY <4>1
      <4>3. f[n] = G[<<f[n - 1], n>>]
        BY <2>3, <4>1 DEF GoesOn
      <4> QED
        BY <3>2, <4>2, <4>3
    <3> QED
      BY <3>1, <3>2
  <2>5. f = [n \in 0 .. N |-> f[n]]
    OBVIOUS
  <2>6. IdsAfter(f)
    BY <2>4, <2>5 DEF IdsAfter
  <2> QED
    BY <2>6
<1>4. PICK f : IdsAfter(f) /\ allIdList = f[N]
  <2> DEFINE after == CHOOSE f : IdsAfter(f)
  <2>1. IdsAfter(after)
    BY <1>3
  <2>2. allIdList = after[N]
    BY DEF allIdList, IdsAfter
  <2> QED
    BY <2>1, <2>2
<1> DEFINE S == {n \in 0 .. N : /\ f[n] \in Seq(Nat)
                               /\ \A m \in 1 .. n : Contains(f[n], Lines[m][1]) /\ Contains(f[n], Lines[m][2])}
<1> HIDE DEF N
<1>5. f[0] = <<>> /\ \A n \in 1 .. N : f[n] = Counted(Counted(f[n - 1], Lines[n][1]), Lines[n][2])
  BY <1>1, <1>4 DEF IdsAfter, N
<1>6. 0 \in S
  <2>1. <<>> \in Seq(Nat) /\ 0 \in 0 .. N /\ 1 .. 0 = {}
    BY <1>1
  <2> QED
    BY <1>5, <2>1
<1>7. ASSUME NEW n \in 1 .. N, n - 1 \in S
      PROVE  n \in S
  <2>1. f[n - 1] \in Seq(Nat)
        /\ \A m \in 1 .. n - 1 : Contains(f[n - 1], Lines[m][1]) /\ Contains(f[n - 1], Lines[m][2])
    BY <1>7
  <2>2. f[n] \in Seq(Nat) /\ \A x : Contains(f[n - 1], x) \/ x = Lines[n][1] \/ x = Lines[n][2] => Contains(f[n], x)
    BY <1>2, <1>5, <2>1
  <2>3. ASSUME NEW m \in 1 .. n
        PROVE  Contains(f[n], Lines[m][1]) /\ Contains(f[n], Lines[m][2])
    <3>1. m \in 1 .. n - 1 \/ m = n
      BY <1>1
    <3> QED
      BY <2>1, <2>2, <3>1
  <2>4. n \in 0 .. N
    BY <1>1
  <2> QED
    BY <2>2, <2>3, <2>4
<1>8. N \in S
  <2> HIDE DEF S
  <2> QED
    BY <1>1, <1>6, <1>7, StepByStep
<1> QED
  BY <1>4, <1>8 DEF N

(* The neighbours after a line: one more if the line names the node.       *)
LEMMA NeighbouredIs ==
    ASSUME NEW nbs \in Seq(Entry), NEW me, NEW n \in 1 .. Len(Lines)
    PROVE  /\ Neighboured(nbs, me, Lines[n]) \in Seq(Entry)
           /\ me \notin {Lines[n][1], Lines[n][2]} => Neighboured(nbs, me, Lines[n]) = nbs
           /\ me \in {Lines[n][1], Lines[n][2]} =>
                Neighboured(nbs, me, Lines[n]) = Append(nbs, EntryOf(me, Lines[n]))
<1>1. EntryOf(me, Lines[n]) \in Entry
  BY LinesAre DEF EntryOf, Entry
<1>2. Append(nbs, EntryOf(me, Lines[n])) \in Seq(Entry)
  BY <1>1
<1> QED
  BY <1>2 DEF Neighboured, EntryOf

(* f gives the neighbours after the first lines.                           *)
NbsAfter(f, me) ==
  f = [n \in 0 .. Len(Lines) |-> IF n = 0 THEN <<>> ELSE Neighboured(f[n - 1], me, Lines[n])]

(* The entries nbs of the neighbours come from lines up to n that name the *)
(* node, and no two from one.                                              *)
FromLines(nbs, me, n) ==
  /\ nbs \in Seq(Entry)
  /\ \A k \in 1 .. Len(nbs) : \E m \in 1 .. n :
       me \in {Lines[m][1], Lines[m][2]} /\ nbs[k] = EntryOf(me, Lines[m])
  /\ OneLinePerLink =>
       \A j, k \in 1 .. Len(nbs) : nbs[j].nodeID = nbs[k].nodeID => j = k

(* One more line.                                                          *)
LEMMA FromOneMore ==
    ASSUME NEW nbs, NEW me, NEW n \in 1 .. Len(Lines), FromLines(nbs, me, n - 1)
    PROVE  FromLines(Neighboured(nbs, me, Lines[n]), me, n)
<1> DEFINE e == EntryOf(me, Lines[n])
           new == Neighboured(nbs, me, Lines[n])
<1>1. /\ nbs \in Seq(Entry) /\ Len(nbs) \in Nat
      /\ \A k \in 1 .. Len(nbs) : \E m \in 1 .. n - 1 :
           me \in {Lines[m][1], Lines[m][2]} /\ nbs[k] = EntryOf(me, Lines[m])
      /\ OneLinePerLink =>
           \A j, k \in 1 .. Len(nbs) : nbs[j].nodeID = nbs[k].nodeID => j = k
  BY DEF FromLines
<1>2. n \in Nat /\ 1 .. n - 1 \subseteq 1 .. n /\ n \in 1 .. n /\ n \notin 1 .. n - 1
  BY LinesAre
<1>3. CASE me \notin {Lines[n][1], Lines[n][2]}
  <2>1. new = nbs
    BY <1>1, <1>3, NeighbouredIs
  <2> HIDE DEF new
  <2>2. FromLines(nbs, me, n)
    BY <1>1, <1>2 DEF FromLines
  <2> QED
    BY <2>1, <2>2 DEF new
<1>4. CASE me \in {Lines[n][1], Lines[n][2]}
  <2>1. new = Append(nbs, e) /\ new \in Seq(Entry)
    <3>1. nbs \in Seq(Entry)
      BY <1>1
    <3> QED
      BY <1>4, <3>1, NeighbouredIs
  <2> HIDE DEF new, e
  <2>2. /\ Len(new) = Len(nbs) + 1 /\ new[Len(nbs) + 1] = e
        /\ \A k \in 1 .. Len(nbs) : new[k] = nbs[k]
    BY <1>1, <2>1
  <2>3. ASSUME NEW k \in 1 .. Len(new)
        PROVE  k = Len(nbs) + 1 \/ k \in 1 .. Len(nbs)
    BY <1>1, <2>2
  <2>4. ASSUME NEW k \in 1 .. Len(new)
        PROVE  \E m \in 1 .. n : me \in {Lines[m][1], Lines[m][2]} /\ new[k] = EntryOf(me, Lines[m])
    <3>1. CASE k = Len(nbs) + 1
      BY <1>2, <1>4, <2>2, <3>1 DEF e
    <3>2. CASE k \in 1 .. Len(nbs)
      BY <1>1, <1>2, <2>2, <3>2
    <3> QED
      BY <2>3, <3>1, <3>2
  <2>5. ASSUME OneLinePerLink, NEW k \in 1 .. Len(nbs)
        PROVE  nbs[k].nodeID # e.nodeID
    <3>1. PICK m \in 1 .. n - 1 : me \in {Lines[m][1], Lines[m][2]} /\ nbs[k] = EntryOf(me, Lines[m])
      BY <1>1
    <3>2. {Lines[m][1], Lines[m][2]} = {me, nbs[k].nodeID}
      BY <3>1 DEF EntryOf
    <3>3. {Lines[n][1], Lines[n][2]} = {me, e.nodeID}
      BY <1>4 DEF EntryOf, e
    <3>4. m \in DOMAIN Lines /\ n \in DOMAIN Lines /\ m # n
      BY <1>2, LinesAre
    <3> QED
      BY <2>5, <3>2, <3>3, <3>4 DEF OneLinePerLink
  <2>6. ASSUME OneLinePerLink, NEW j \in 1 .. Len(new), NEW k \in 1 .. Len(new),
               new[j].nodeID = new[k].nodeID
        PROVE  j = k
    BY <1>1, <2>2, <2>3, <2>5, <2>6
  <2>7. FromLines(new, me, n)
    BY <2>1, <2>4, <2>6 DEF FromLines
  <2> QED
    BY <2>7 DEF new
<1> QED
  BY <1>3, <1>4

(* The neighbours of a node come from the lines of the file.               *)
LEMMA NbListIs ==
    ASSUME NEW me
    PROVE  FromLines(NbList(me), me, Len(Lines))
<1> DEFINE N == Len(Lines)
           G == [p \in Seq(Entry) \X (1 .. N) |-> Neighboured(p[1], me, Lines[p[2]])]
<1>1. N \in Nat
  BY LinesAre
<1>2. \E f : NbsAfter(f, me)
  <2>1. <<>> \in Seq(Entry)
    OBVIOUS
  <2>2. G \in [Seq(Entry) \X (1 .. N) -> Seq(Entry)]
    BY NeighbouredIs
  <2>3. PICK f \in [0 .. N -> Seq(Entry)] : GoesOn(f, <<>>, G, N)
    <3> HIDE DEF G
    <3> QED
      BY <1>1, <2>1, <2>2, StagesExist
  <2>4. ASSUME NEW n \in 0 .. N
        PROVE  f[n] = IF n = 0 THEN <<>> ELSE Neighboured(f[n - 1], me, Lines[n])
    <3>1. CASE n = 0
      BY <2>3, <3>1 DEF GoesOn
    <3>2. CASE n # 0
      <4>1. n \in 1 .. N /\ n - 1 \in 0 .. N
        BY <1>1, <3>2
      <4>2. <<f[n - 1], n>> \in Seq(Entry) \X (1 .. N)
        BY <4>1
      <4>3. f[n] = G[<<f[n - 1], n>>]
        BY <2>3, <4>1 DEF GoesOn
      <4> QED
        BY <3>2, <4>2, <4>3
    <3> QED
      BY <3>1, <3>2
  <2>5. f = [n \in 0 .. N |-> f[n]]
    OBVIOUS
  <2>6. NbsAfter(f, me)
    BY <2>4, <2>5 DEF NbsAfter
  <2> QED
    BY <2>6
<1>3. PICK f : NbsAfter(f, me) /\ NbList(me) = f[N]
  <2> DEFINE after == CHOOSE f : NbsAfter(f, me)
  <2>1. NbsAfter(after, me)
    BY <1>2
  <2>2. NbList(me) = after[N]
    BY DEF NbList, NbsAfter
  <2> QED
    BY <2>1, <2>2
<1> DEFINE S == {n \in 0 .. N : FromLines(f[n], me, n)}
<1>4. f[0] = <<>> /\ \A n \in 1 .. N : f[n] = Neighboured(f[n - 1], me, Lines[n])
  BY <1>1, <1>3 DEF NbsAfter
<1>5. 0 \in S
  <2>1. <<>> \in Seq(Entry) /\ 0 \in 0 .. N /\ Len(<<>>) = 0 /\ 1 .. 0 = {}
    BY <1>1
  <2>2. FromLines(<<>>, me, 0)
    BY <2>1 DEF FromLines
  <2> QED
    BY <1>4, <2>1, <2>2
<1>6. ASSUME NEW n \in 1 .. N, n - 1 \in S
      PROVE  n \in S
  <2>1. FromLines(f[n], me, n)
    BY <1>4, <1>6, FromOneMore
  <2> QED
    BY <1>1, <2>1
<1>7. N \in S
  <2> HIDE DEF S
  <2> QED
    BY <1>1, <1>5, <1>6, StepByStep
<1> QED
  BY <1>3, <1>7

(* What the theorems use of it: the neighbours of Me are IDs, and under    *)
(* OneLinePerLink they are others, each of them once, at a finite cost.    *)
LEMMA NctIs ==
    /\ nct \in Seq(Entry) /\ NbList(Me) = nct
    /\ \A k \in 1 .. Len(nct) : nct[k].nodeID \in Ids
    /\ OneLinePerLink =>
         /\ \A k \in 1 .. Len(nct) : nct[k].nodeID # Me /\ nct[k].cost < INFINITE_COST
         /\ \A j, k \in 1 .. Len(nct) : nct[j].nodeID = nct[k].nodeID => j = k
<1>1. NbList(Me) = nct /\ FromLines(nct, Me, Len(Lines))
  BY NbListIs DEF nct, nbrcosttable_create
<1>2. ASSUME NEW k \in 1 .. Len(nct)
      PROVE  /\ nct[k].nodeID \in Ids
             /\ OneLinePerLink => nct[k].nodeID # Me /\ nct[k].cost < INFINITE_COST
  <2>1. PICK m \in 1 .. Len(Lines) :
          Me \in {Lines[m][1], Lines[m][2]} /\ nct[k] = EntryOf(Me, Lines[m])
    BY <1>1 DEF FromLines
  <2>2. nct[k].nodeID \in {Lines[m][1], Lines[m][2]} /\ nct[k].cost = Lines[m][3]
        /\ (Lines[m][1] # Lines[m][2] => nct[k].nodeID # Me)
    BY <2>1 DEF EntryOf
  <2>3. Contains(allIdList, nct[k].nodeID)
    BY <2>2, AllIdsAre
  <2>4. nct[k].nodeID \in Ids
    BY <2>3, AllIdsAre DEF Contains, Ids
  <2>5. m \in DOMAIN Lines
    BY LinesAre
  <2> QED
    BY <2>2, <2>4, <2>5 DEF OneLinePerLink
<1> QED
  BY <1>1, <1>2 DEF FromLines

(* The IDs are those of the list, and Me is one of them.                   *)
LEMMA IdsAre ==
    /\ NodeNum \in Nat /\ DOMAIN allIdList = 1 .. NodeNum /\ Me \in Ids /\ Ids \subseteq Nat
    /\ \A k \in 1 .. NodeNum : allIdList[k] \in Ids
    /\ \A id \in Ids : \E k \in 1 .. NodeNum : allIdList[k] = id
<1>1. Me \in Ids
  BY AllIdsAre, SipNodeAssumption DEF Contains, Ids
<1> QED
  BY <1>1, AllIdsAre DEF Ids, NodeNum
-----------------------------------------------------------------------------
(* The distance vector table.                                              *)

(* A row is a list of entries for allIdList; there is one for each         *)
(* neighbour, and one for the node behind them.                            *)
RowOK(row) ==
  /\ row \in Seq(Entry) /\ Len(row) = NodeNum
  /\ \A i \in 1 .. NodeNum : row[i].nodeID = allIdList[i]
DvOK(t) ==
  /\ t \in Seq([nodeID : Nat, dvEntry : Seq(Entry)]) /\ Len(t) = Len(nct) + 1
  /\ \A r \in 1 .. Len(nct) : t[r].nodeID = nct[r].nodeID
  /\ t[Len(nct) + 1].nodeID = Me
  /\ \A r \in 1 .. Len(nct) + 1 : RowOK(t[r].dvEntry)

(* A function on the numbers of allIdList is a list.                       *)
LEMMA RowOfCosts ==
    ASSUME NEW row, row = [k \in DOMAIN allIdList |-> row[k]],
           \A k \in 1 .. NodeNum : row[k].nodeID = allIdList[k] /\ row[k] \in Entry
    PROVE  RowOK(row)
<1>1. NodeNum \in Nat /\ DOMAIN allIdList = 1 .. NodeNum
  BY IdsAre
<1>2. row \in Seq(Entry) /\ Len(row) = NodeNum
  <2>1. row \in [1 .. NodeNum -> Entry]
    BY <1>1
  <2> QED
    BY <1>1, <2>1
<1> QED
  BY <1>2 DEF RowOK

(* The costs are costs.                                                    *)
LEMMA CostInIs ==
    ASSUME NEW es \in Seq(Entry), NEW id
    PROVE  CostIn(es, id) \in Nat
<1> DEFINE k == IndexOf(es, id)
<1>1. k \in 0 .. Len(es)
  BY IndexOfIs
<1>2. CostIn(es, id) = IF k = 0 THEN INFINITE_COST ELSE es[k].cost
  BY DEF CostIn
<1> HIDE DEF k
<1>3. k # 0 => es[k] \in Entry
  BY <1>1
<1> QED
  BY <1>2, <1>3, TablesAssumption DEF Entry

(* The rows of two such tables are found at the same places.               *)
LEMMA SameRows ==
    ASSUME NEW t, NEW u, DvOK(t), DvOK(u), NEW id
    PROVE  IndexOf(t, id) = IndexOf(u, id)
<1>1. Len(t) \in Nat /\ Len(u) = Len(t) /\ Len(t) = Len(nct) + 1 /\ Len(nct) \in Nat
  BY NctIs DEF DvOK
<1>2. \A r \in 1 .. Len(t) : t[r].nodeID = u[r].nodeID
  <2> SUFFICES ASSUME NEW r \in 1 .. Len(t)
               PROVE  t[r].nodeID = u[r].nodeID
    OBVIOUS
  <2>1. CASE r \in 1 .. Len(nct)
    BY <2>1 DEF DvOK
  <2>2. CASE r = Len(nct) + 1
    BY <2>2 DEF DvOK
  <2> QED
    BY <1>1, <2>1, <2>2
<1> QED
  BY <1>1, <1>2, SameIndex

(* So are the entries of two rows.                                         *)
LEMMA SameEntries ==
    ASSUME NEW p, NEW q, RowOK(p), RowOK(q), NEW id
    PROVE  IndexOf(p, id) = IndexOf(q, id)
  BY SameIndex, IdsAre DEF RowOK

(* The node has its row, and so have its neighbours.                       *)
LEMMA RowsFound ==
    ASSUME NEW t, DvOK(t)
    PROVE  /\ \A id : IndexOf(t, id) \in 0 .. Len(nct) + 1
           /\ IndexOf(t, Me) # 0 /\ RowOK(t[IndexOf(t, Me)].dvEntry)
           /\ \A id : IndexOf(t, id) # 0 => t[IndexOf(t, id)].nodeID = id
<1>1. Len(t) = Len(nct) + 1 /\ Len(nct) \in Nat /\ Len(nct) + 1 \in 1 .. Len(t)
      /\ t[Len(nct) + 1].nodeID = Me
  BY NctIs DEF DvOK
<1>2. Len(t) \in Nat
  BY <1>1
<1>3. \A id : IndexOf(t, id) \in 0 .. Len(t)
              /\ (IndexOf(t, id) # 0 => t[IndexOf(t, id)].nodeID = id)
  BY <1>2, IndexOfIs
<1>4. IndexOf(t, Me) # 0
  BY <1>1, <1>2, IndexOfIs
<1>5. IndexOf(t, Me) \in 1 .. Len(nct) + 1
  <2> DEFINE x == IndexOf(t, Me)
  <2>1. x \in 0 .. Len(nct) + 1 /\ x # 0
    BY <1>1, <1>3, <1>4
  <2> HIDE DEF x
  <2>2. x \in 1 .. Len(nct) + 1
    BY <1>1, <2>1
  <2> QED
    BY <2>2 DEF x
<1> QED
  BY <1>1, <1>3, <1>4, <1>5 DEF DvOK

(* dvtable_setcost sets a cost in the entry of one row that belongs to the *)
(* two IDs, and in no other (dvtable.c).                                   *)
THEOREM SetCostIs ==
    ASSUME NEW t, DvOK(t), NEW from, NEW to, NEW cost \in Nat
    PROVE  /\ DvOK(dvtable_setcost(t, from, to, cost))
           /\ \A r \in 1 .. Len(nct) + 1 : r # IndexOf(t, from) =>
                dvtable_setcost(t, from, to, cost)[r] = t[r]
           /\ \A r \in 1 .. Len(nct) + 1, i \in 1 .. NodeNum : r = IndexOf(t, from) =>
                dvtable_setcost(t, from, to, cost)[r].dvEntry[i].cost =
                  IF i = IndexOf(t[r].dvEntry, to) THEN cost ELSE t[r].dvEntry[i].cost
<1> DEFINE r == IndexOf(t, from)
           k == IF r = 0 THEN 0 ELSE IndexOf(t[r].dvEntry, to)
           new == dvtable_setcost(t, from, to, cost)
           row == t[r].dvEntry
<1>1. new = IF k = 0 THEN t ELSE [t EXCEPT ![r].dvEntry[k].cost = cost]
  BY DEF dvtable_setcost
<1>2. /\ t \in Seq([nodeID : Nat, dvEntry : Seq(Entry)]) /\ Len(t) = Len(nct) + 1
      /\ DOMAIN t = 1 .. Len(nct) + 1
  BY DEF DvOK
<1>3. r \in 0 .. Len(nct) + 1
  BY RowsFound
<1>4. CASE k = 0
  <2>1. new = t
    BY <1>1, <1>4
  <2>2. \A i \in 1 .. NodeNum : r # 0 => i # IndexOf(t[r].dvEntry, to)
    BY <1>4
  <2> HIDE DEF new, k
  <2> QED
    BY <2>1, <2>2 DEF new
<1>5. CASE k # 0
  <2>1. r \in 1 .. Len(nct) + 1 /\ k = IndexOf(row, to)
    <3>1. r # 0 /\ k = IndexOf(row, to)
      BY <1>5
    <3> HIDE DEF r, k
    <3> QED
      BY <1>3, <3>1, NctIs
  <2>2. RowOK(row) /\ row \in Seq(Entry) /\ Len(row) = NodeNum /\ NodeNum \in Nat
    BY <2>1, IdsAre DEF DvOK, RowOK
  <2>3. k \in 1 .. NodeNum
    <3>1. IndexOf(row, to) \in 0 .. Len(row)
      BY <2>2, IndexOfIs
    <3> HIDE DEF k, row
    <3> QED
      BY <1>5, <2>1, <2>2, <3>1
  <2> HIDE DEF k
  <2> DEFINE newrow == [row EXCEPT ![k].cost = cost]
             whole == [t[r] EXCEPT !.dvEntry = newrow]
  <2>4. new = [t EXCEPT ![r] = whole]
    BY <1>1, <1>5
  <2> HIDE DEF new, r
  <2>5. /\ newrow \in Seq(Entry) /\ Len(newrow) = NodeNum
        /\ \A i \in 1 .. NodeNum : newrow[i].nodeID = row[i].nodeID
        /\ \A i \in 1 .. NodeNum : newrow[i].cost = IF i = k THEN cost ELSE row[i].cost
    <3> HIDE DEF row
    <3>1. row[k] \in Entry
      BY <2>2, <2>3
    <3>2. [row[k] EXCEPT !.cost = cost] \in Entry
      BY <3>1 DEF Entry
    <3>3. newrow = [row EXCEPT ![k] = [row[k] EXCEPT !.cost = cost]]
      OBVIOUS
    <3>4. newrow \in Seq(Entry) /\ Len(newrow) = NodeNum
      BY <2>2, <2>3, <3>2, <3>3
    <3>5. \A i \in 1 .. NodeNum : newrow[i] = IF i = k THEN [row[k] EXCEPT !.cost = cost] ELSE row[i]
      BY <2>2, <2>3, <3>3
    <3> HIDE DEF newrow
    <3>6. [row[k] EXCEPT !.cost = cost].cost = cost /\ [row[k] EXCEPT !.cost = cost].nodeID = row[k].nodeID
      BY <3>1 DEF Entry
    <3> QED
      BY <3>4, <3>5, <3>6
  <2> HIDE DEF newrow
  <2>6. RowOK(newrow)
    BY <2>2, <2>5 DEF RowOK
  <2>7. t[r] \in [nodeID : Nat, dvEntry : Seq(Entry)]
    <3> DEFINE X == [nodeID : Nat, dvEntry : Seq(Entry)]
    <3>1. t \in Seq(X)
      BY <1>2
    <3> HIDE DEF whole, row, X
    <3>2. t[r] \in X
      BY <1>2, <2>1, <3>1
    <3> QED
      BY <3>2 DEF X
  <2>8. /\ whole \in [nodeID : Nat, dvEntry : Seq(Entry)] /\ whole.nodeID = t[r].nodeID
        /\ whole.dvEntry = newrow
    BY <2>5, <2>7
  <2> HIDE DEF whole
  <2>9. /\ new \in Seq([nodeID : Nat, dvEntry : Seq(Entry)]) /\ Len(new) = Len(nct) + 1
        /\ \A q \in 1 .. Len(nct) + 1 : new[q] = IF q = r THEN whole ELSE t[q]
    BY <1>2, <2>1, <2>4, <2>8
  <2>10. DvOK(new)
    <3>1. \A q \in 1 .. Len(nct) + 1 : new[q].nodeID = t[q].nodeID /\ RowOK(new[q].dvEntry)
      BY <2>6, <2>8, <2>9 DEF DvOK
    <3>2. \A q \in 1 .. Len(nct) : q \in 1 .. Len(nct) + 1
      BY NctIs
    <3>3. Len(nct) + 1 \in 1 .. Len(nct) + 1
      BY NctIs
    <3> QED
      BY <2>9, <3>1, <3>2, <3>3 DEF DvOK
  <2>11. \A q \in 1 .. Len(nct) + 1, i \in 1 .. NodeNum : q = r =>
           new[q].dvEntry[i].cost = IF i = IndexOf(t[q].dvEntry, to) THEN cost ELSE t[q].dvEntry[i].cost
    BY <2>1, <2>5, <2>8, <2>9
  <2>12. \A q \in 1 .. Len(nct) + 1 : q # r => new[q] = t[q]
    BY <2>9
  <2> QED
    BY <2>10, <2>11, <2>12 DEF new, r
<1> QED
  BY <1>4, <1>5

(* f gives the table after the first costs of a row.                       *)
RowAfter(f, t, from, row) ==
  f = [n \in 0 .. Len(allIdList) |->
         IF n = 0 THEN t ELSE dvtable_setcost(f[n - 1], from, allIdList[n], row[n])]

(* A row of costs changes no other row.                                    *)
LEMMA SetRowIs ==
    ASSUME NEW t, DvOK(t), NEW from, NEW row \in [DOMAIN allIdList -> Nat]
    PROVE  /\ DvOK(dvtable_setrow(t, from, row))
           /\ \A r \in 1 .. Len(nct) + 1 : r # IndexOf(t, from) =>
                dvtable_setrow(t, from, row)[r] = t[r]
<1> DEFINE N == Len(allIdList)
           X == Seq([nodeID : Nat, dvEntry : Seq(Entry)])
           T == {u \in X : DvOK(u) /\ \A r \in 1 .. Len(nct) + 1 : r # IndexOf(t, from) => u[r] = t[r]}
           G == [p \in T \X (1 .. N) |-> dvtable_setcost(p[1], from, allIdList[p[2]], row[p[2]])]
<1>1. N \in Nat /\ DOMAIN allIdList = 1 .. N
  BY IdsAre DEF NodeNum
<1>2. t \in T
  BY DEF DvOK
<1>3. ASSUME NEW u \in T, NEW n \in 1 .. N
      PROVE  dvtable_setcost(u, from, allIdList[n], row[n]) \in T
  <2> DEFINE new == dvtable_setcost(u, from, allIdList[n], row[n])
  <2>1. DvOK(u) /\ row[n] \in Nat /\ IndexOf(u, from) = IndexOf(t, from)
        /\ \A r \in 1 .. Len(nct) + 1 : r # IndexOf(t, from) => u[r] = t[r]
    BY <1>1, SameRows
  <2>2. DvOK(new) /\ \A r \in 1 .. Len(nct) + 1 : r # IndexOf(u, from) => new[r] = u[r]
    BY <2>1, SetCostIs
  <2> HIDE DEF new
  <2>3. new \in X
    BY <2>2 DEF DvOK
  <2>4. new \in T
    BY <2>1, <2>2, <2>3
  <2> QED
    BY <2>4 DEF new
<1>4. \E f : RowAfter(f, t, from, row)
  <2>1. G \in [T \X (1 .. N) -> T]
    <3> HIDE DEF T
    <3> QED
      BY <1>3
  <2>2. PICK f \in [0 .. N -> T] : GoesOn(f, t, G, N)
    <3> HIDE DEF G, T
    <3> QED
      BY <1>1, <1>2, <2>1, StagesExist
  <2> HIDE DEF T
  <2>3. ASSUME NEW n \in 0 .. N
        PROVE  f[n] = IF n = 0 THEN t ELSE dvtable_setcost(f[n - 1], from, allIdList[n], row[n])
    <3>1. CASE n = 0
      BY <2>2, <3>1 DEF GoesOn
    <3>2. CASE n # 0
      <4>1. n \in 1 .. N /\ n - 1 \in 0 .. N
        BY <1>1, <3>2
      <4>2. <<f[n - 1], n>> \in T \X (1 .. N)
        BY <4>1
      <4>3. f[n] = G[<<f[n - 1], n>>]
        BY <2>2, <4>1 DEF GoesOn
      <4> QED
        BY <3>2, <4>2, <4>3
    <3> QED
      BY <3>1, <3>2
  <2>4. f = [n \in 0 .. N |-> f[n]]
    OBVIOUS
  <2>5. RowAfter(f, t, from, row)
    BY <2>3, <2>4 DEF RowAfter
  <2> QED
    BY <2>5
<1>5. PICK f : RowAfter(f, t, from, row) /\ dvtable_setrow(t, from, row) = f[N]
  <2> DEFINE after == CHOOSE f : RowAfter(f, t, from, row)
  <2>1. RowAfter(after, t, from, row)
    BY <1>4
  <2>2. dvtable_setrow(t, from, row) = after[N]
    BY DEF dvtable_setrow, RowAfter
  <2> QED
    BY <2>1, <2>2
<1> DEFINE S == {n \in 0 .. N : f[n] \in T}
<1>6. f[0] = t /\ \A n \in 1 .. N : f[n] = dvtable_setcost(f[n - 1], from, allIdList[n], row[n])
  BY <1>1, <1>5 DEF RowAfter
<1> HIDE DEF T
<1>7. 0 \in S
  BY <1>1, <1>2, <1>6
<1>8. ASSUME NEW n \in 1 .. N, n - 1 \in S
      PROVE  n \in S
  <2>1. f[n] \in T
    BY <1>3, <1>6, <1>8
  <2> QED
    BY <1>1, <2>1
<1>9. N \in S
  <2> HIDE DEF S
  <2> QED
    BY <1>1, <1>7, <1>8, StepByStep
<1> QED
  BY <1>5, <1>9 DEF T

(* The table at the start: the own row has the costs of the links.         *)
LEMMA DvCreateIs ==
    /\ DvOK(dvtable_create(Me))
    /\ \A i \in 1 .. NodeNum :
         dvtable_create(Me)[Len(nct) + 1].dvEntry[i].cost =
           IF allIdList[i] = Me THEN 0 ELSE CostIn(nct, allIdList[i])
<1> DEFINE far == [k \in DOMAIN allIdList |-> [nodeID |-> allIdList[k], cost |-> INFINITE_COST]]
           near == [k \in DOMAIN allIdList |->
                      [nodeID |-> allIdList[k],
                       cost |-> IF allIdList[k] = Me THEN 0 ELSE CostIn(nct, allIdList[k])]]
           nbs == [k \in DOMAIN nct |-> [nodeID |-> nct[k].nodeID, dvEntry |-> far]]
           own == [nodeID |-> Me, dvEntry |-> near]
           Row == [nodeID : Nat, dvEntry : Seq(Entry)]
<1>1. dvtable_create(Me) = Append(nbs, own)
  BY NctIs DEF dvtable_create
<1>2. /\ nct \in Seq(Entry) /\ Len(nct) \in Nat /\ DOMAIN nct = 1 .. Len(nct)
      /\ DOMAIN allIdList = 1 .. NodeNum
      /\ NodeNum \in Nat /\ Me \in Nat /\ \A k \in 1 .. NodeNum : allIdList[k] \in Nat
  <2> HIDE DEF far, near, nbs, own, Row
  <2>1. nct \in Seq(Entry)
    BY NctIs
  <2>2. Len(nct) \in Nat /\ DOMAIN nct = 1 .. Len(nct)
    BY <2>1
  <2>3. Me \in Nat /\ \A k \in 1 .. NodeNum : allIdList[k] \in Nat
    BY IdsAre
  <2> QED
    BY <2>1, <2>2, <2>3, IdsAre
<1>3. RowOK(far)
  <2>1. \A k \in 1 .. NodeNum : far[k].nodeID = allIdList[k] /\ far[k] \in Entry
    BY <1>2, TablesAssumption DEF Entry
  <2>2. far = [k \in DOMAIN allIdList |-> far[k]]
    OBVIOUS
  <2> HIDE DEF far
  <2> QED
    BY <2>1, <2>2, RowOfCosts
<1>4. RowOK(near)
  <2>1. \A k \in 1 .. NodeNum : near[k].nodeID = allIdList[k] /\ near[k] \in Entry
    BY <1>2, CostInIs DEF Entry
  <2>2. near = [k \in DOMAIN allIdList |-> near[k]]
    OBVIOUS
  <2> HIDE DEF near
  <2> QED
    BY <2>1, <2>2, RowOfCosts
<1>5. \A i \in 1 .. NodeNum : near[i].cost = IF allIdList[i] = Me THEN 0 ELSE CostIn(nct, allIdList[i])
  BY <1>2
<1> HIDE DEF far, near
<1>6. own \in Row /\ own.nodeID = Me /\ own.dvEntry = near
  BY <1>2, <1>4 DEF RowOK
<1>7. /\ nbs \in Seq(Row) /\ Len(nbs) = Len(nct)
      /\ \A k \in 1 .. Len(nct) : nbs[k].nodeID = nct[k].nodeID /\ nbs[k].dvEntry = far
  <2>1. \A k \in 1 .. Len(nct) : nbs[k] = [nodeID |-> nct[k].nodeID, dvEntry |-> far]
    BY <1>2
  <2>2. \A k \in 1 .. Len(nct) : nct[k].nodeID \in Nat
    BY NctIs, IdsAre
  <2>3. \A k \in 1 .. Len(nct) : nbs[k] \in Row
    BY <1>3, <2>1, <2>2 DEF RowOK
  <2>4. nbs \in [1 .. Len(nct) -> Row]
    <3>1. nbs = [k \in 1 .. Len(nct) |-> nbs[k]]
      BY <1>2
    <3> HIDE DEF nbs, Row
    <3> QED
      BY <2>3, <3>1
  <2>5. nbs \in Seq(Row) /\ Len(nbs) = Len(nct)
    <3> HIDE DEF nbs, Row
    <3> QED
      BY <1>2, <2>4
  <2> QED
    BY <2>1, <2>5
<1> HIDE DEF nbs, own
<1> DEFINE new == Append(nbs, own)
<1>8. /\ new \in Seq(Row) /\ Len(new) = Len(nct) + 1 /\ new[Len(nct) + 1] = own
      /\ \A k \in 1 .. Len(nct) : new[k] = nbs[k]
  <2> HIDE DEF Row
  <2> QED
    BY <1>2, <1>6, <1>7
<1> HIDE DEF new
<1>9. DvOK(new)
  <2>1. ASSUME NEW r \in 1 .. Len(nct) + 1
        PROVE  RowOK(new[r].dvEntry)
    <3>1. r \in 1 .. Len(nct) \/ r = Len(nct) + 1
      BY <1>2
    <3> QED
      BY <1>3, <1>4, <1>6, <1>7, <1>8, <3>1
  <2>2. \A r \in 1 .. Len(nct) : new[r].nodeID = nct[r].nodeID
    BY <1>7, <1>8
  <2> QED
    BY <1>6, <1>8, <2>1, <2>2 DEF DvOK
<1>10. new[Len(nct) + 1].dvEntry = near
  BY <1>6, <1>8
<1> QED
  BY <1>1, <1>5, <1>9, <1>10 DEF new
-----------------------------------------------------------------------------
(* The routing table.                                                      *)

Slots == 0 .. MAX_ROUTINGTABLE_SLOTS - 1
Link == [nodeID : Nat, nextNodeID : Nat]

(* Every entry is in the chain of its ID.                                  *)
RtOK(rt) ==
  /\ rt \in [Slots -> Seq(Link)]
  /\ \A s \in Slots : \A k \in 1 .. Len(rt[s]) : rt[s][k].nodeID \in Ids

(* No ID has two entries.                                                  *)
Alone(rt) ==
  \A s \in Slots : \A j, k \in 1 .. Len(rt[s]) : rt[s][j].nodeID = rt[s][k].nodeID => j = k

(* IDs are hashed to slots.                                                *)
LEMMA HashIs ==
    ASSUME NEW id \in Nat
    PROVE  makehash(id) \in Slots
  BY TablesAssumption DEF makehash, Slots

(* An entry behind the last one of a chain.                                *)
LEMMA ChainedIs ==
    ASSUME NEW rt, RtOK(rt), NEW dest \in Ids, NEW next \in Nat,
           NEW c, c = rt[makehash(dest)]
    PROVE  /\ RtOK(Chained(rt, dest, next))
           /\ c \in Seq(Link) /\ Len(c) \in Nat
           /\ \A s \in Slots : s # makehash(dest) => Chained(rt, dest, next)[s] = rt[s]
           /\ Len(Chained(rt, dest, next)[makehash(dest)]) = Len(c) + 1
           /\ \A k \in 1 .. Len(c) : Chained(rt, dest, next)[makehash(dest)][k] = c[k]
           /\ Chained(rt, dest, next)[makehash(dest)][Len(c) + 1] = [nodeID |-> dest, nextNodeID |-> next]
<1> DEFINE e == [nodeID |-> dest, nextNodeID |-> next]
           x == makehash(dest)
           new == Chained(rt, dest, next)
<1>1. x \in Slots /\ dest \in Nat
  BY HashIs, IdsAre
<1>2. rt \in [Slots -> Seq(Link)] /\ c = rt[x] /\ e \in Link
  BY <1>1 DEF RtOK, Link
<1>3. new = [rt EXCEPT ![x] = Append(c, e)]
  BY <1>2 DEF Chained
<1>4. e.nodeID = dest
  OBVIOUS
<1> HIDE DEF new, e, x
<1>5. c \in Seq(Link) /\ Len(c) \in Nat
  BY <1>1, <1>2
<1> DEFINE d2 == Append(c, e)
<1>6. /\ d2 \in Seq(Link) /\ Len(d2) = Len(c) + 1 /\ d2[Len(c) + 1] = e
      /\ \A k \in 1 .. Len(c) : d2[k] = c[k]
  BY <1>2, <1>5
<1> HIDE DEF d2
<1>7. /\ new \in [Slots -> Seq(Link)] /\ new[x] = d2
      /\ \A s \in Slots : s # x => new[s] = rt[s]
  BY <1>1, <1>2, <1>3, <1>6 DEF d2
<1>8. RtOK(new)
  <2> SUFFICES ASSUME NEW s \in Slots, NEW k \in 1 .. Len(new[s])
               PROVE  new[s][k].nodeID \in Ids
    BY <1>7 DEF RtOK
  <2>1. CASE s # x
    BY <1>7, <2>1 DEF RtOK
  <2>2. CASE s = x
    <3>1. k = Len(c) + 1 \/ k \in 1 .. Len(c)
      BY <1>5, <1>6, <1>7, <2>2
    <3> QED
      BY <1>1, <1>2, <1>4, <1>6, <1>7, <2>2, <3>1 DEF RtOK
  <2> QED
    BY <2>1, <2>2
<1> QED
  BY <1>5, <1>6, <1>7, <1>8 DEF new, e, x

(* An ID without an entry has no next hop, and only such an ID.            *)
LEMMA NoEntryIs ==
    ASSUME NEW rt, RtOK(rt), NEW id \in Ids, NEW c, c = rt[makehash(id)]
    PROVE  /\ routingtable_getnextnode(rt, id) = -1 <=> IndexOf(c, id) = 0
           /\ routingtable_getnextnode(rt, id) = -1 <=>
                \A j \in 1 .. Len(c) : c[j].nodeID # id
<1> DEFINE k == IndexOf(c, id)
<1>1. c \in Seq(Link) /\ Len(c) \in Nat
  BY HashIs, IdsAre DEF RtOK
<1>2. /\ k \in 0 .. Len(c) /\ (k # 0 => c[k].nodeID = id)
      /\ \A j \in 1 .. Len(c) : c[j].nodeID = id => k # 0
  BY <1>1, IndexOfIs
<1>3. routingtable_getnextnode(rt, id) = IF k = 0 THEN -1 ELSE c[k].nextNodeID
  BY DEF routingtable_getnextnode
<1> HIDE DEF k
<1>4. k # 0 => k \in 1 .. Len(c) /\ c[k].nextNodeID # -1
  <2>1. k # 0 => k \in 1 .. Len(c)
    BY <1>1, <1>2
  <2>2. k # 0 => c[k] \in Link
    BY <1>1, <2>1
  <2> QED
    BY <2>1, <2>2 DEF Link
<1>5. routingtable_getnextnode(rt, id) = -1 <=> k = 0
  BY <1>3, <1>4
<1>6. k = 0 <=> \A j \in 1 .. Len(c) : c[j].nodeID # id
  BY <1>2, <1>4
<1> QED
  BY <1>5, <1>6 DEF k

(* A new entry answers for an ID that had none, and is the only one then.  *)
LEMMA ChainedNext ==
    ASSUME NEW rt, RtOK(rt), NEW dest \in Ids, NEW next \in Nat,
           NEW new, new = Chained(rt, dest, next)
    PROVE  /\ RtOK(new) /\ \A s \in Slots : s # makehash(dest) => new[s] = rt[s]
           /\ Len(new[makehash(dest)]) = Len(rt[makehash(dest)]) + 1
           /\ \A j \in 1 .. Len(rt[makehash(dest)]) : new[makehash(dest)][j] = rt[makehash(dest)][j]
           /\ Alone(rt) /\ routingtable_getnextnode(rt, dest) = -1 => Alone(new)
           /\ \A id \in Ids : routingtable_getnextnode(new, id) =
                IF id = dest /\ routingtable_getnextnode(rt, id) = -1 THEN next
                ELSE routingtable_getnextnode(rt, id)
<1> DEFINE x == makehash(dest)
           c == rt[x]
           e == [nodeID |-> dest, nextNodeID |-> next]
<1>1. x \in Slots /\ dest \in Nat /\ \A id \in Ids : makehash(id) \in Slots
  BY HashIs, IdsAre
<1>2. /\ RtOK(new) /\ \A s \in Slots : s # x => new[s] = rt[s]
      /\ c \in Seq(Link) /\ Len(c) \in Nat
      /\ Len(new[x]) = Len(c) + 1 /\ new[x][Len(c) + 1] = e
      /\ \A j \in 1 .. Len(c) : new[x][j] = c[j]
  BY ChainedIs
<1>3. e.nodeID = dest /\ e.nextNodeID = next
  OBVIOUS
<1> HIDE DEF e
<1>4. \A j \in 1 .. Len(new[x]) : j = Len(c) + 1 \/ j \in 1 .. Len(c)
  BY <1>2
<1>5. ASSUME Alone(rt), routingtable_getnextnode(rt, dest) = -1
      PROVE  Alone(new)
  <2>1. \A j \in 1 .. Len(c) : c[j].nodeID # dest
    BY <1>5, NoEntryIs
  <2> SUFFICES ASSUME NEW s \in Slots, NEW i \in 1 .. Len(new[s]), NEW j \in 1 .. Len(new[s]),
                      new[s][i].nodeID = new[s][j].nodeID
               PROVE  i = j
    BY DEF Alone
  <2>2. CASE s # x
    BY <1>2, <1>5, <2>2 DEF Alone
  <2>3. CASE s = x
    <3>1. /\ i = Len(c) + 1 \/ i \in 1 .. Len(c)
          /\ j = Len(c) + 1 \/ j \in 1 .. Len(c)
      BY <1>4, <2>3
    <3>2. \A p, q \in 1 .. Len(c) : c[p].nodeID = c[q].nodeID => p = q
      BY <1>1, <1>5 DEF Alone
    <3>3. new[x][Len(c) + 1].nodeID = dest /\ \A p \in 1 .. Len(c) : new[x][p].nodeID = c[p].nodeID
      BY <1>2, <1>3
    <3>4. new[x][i].nodeID = new[x][j].nodeID
      BY <2>3
    <3>5. CASE i \in 1 .. Len(c) /\ j \in 1 .. Len(c)
      BY <3>2, <3>3, <3>4, <3>5
    <3>6. CASE i = Len(c) + 1 /\ j \in 1 .. Len(c)
      BY <2>1, <3>3, <3>4, <3>6
    <3>7. CASE j = Len(c) + 1 /\ i \in 1 .. Len(c)
      BY <2>1, <3>3, <3>4, <3>7
    <3> QED
      BY <3>1, <3>5, <3>6, <3>7
  <2> QED
    BY <2>2, <2>3
<1>6. ASSUME NEW id \in Ids
      PROVE  routingtable_getnextnode(new, id) =
               IF id = dest /\ routingtable_getnextnode(rt, id) = -1 THEN next
               ELSE routingtable_getnextnode(rt, id)
  <2>1. CASE makehash(id) # x
    <3>1. id # dest /\ new[makehash(id)] = rt[makehash(id)]
      BY <1>1, <1>2, <2>1
    <3> QED
      BY <3>1 DEF routingtable_getnextnode
  <2>2. CASE makehash(id) = x
    <3> DEFINE p == IndexOf(c, id)
    <3>1. /\ p \in 0 .. Len(c) /\ (p # 0 => c[p].nodeID = id)
          /\ \A j \in 1 .. Len(c) : c[j].nodeID = id => p # 0 /\ p <= j
      BY <1>2, IndexOfIs
    <3>2. routingtable_getnextnode(rt, id) = -1 <=> p = 0
      BY <2>2, NoEntryIs
    <3>3. routingtable_getnextnode(rt, id) = IF p = 0 THEN -1 ELSE c[p].nextNodeID
      BY <2>2 DEF routingtable_getnextnode
    <3> HIDE DEF p
    <3>4. Len(new[x]) \in Nat
      BY <1>2
    <3>5. CASE p = 0 /\ id = dest
      <4>1. Len(c) + 1 \in 1 .. Len(new[x]) /\ Len(c) + 1 # 0
        BY <1>2
      <4>2. ASSUME NEW j \in 1 .. Len(new[x]), j < Len(c) + 1
            PROVE  new[x][j].nodeID # id
        <5>1. j \in 1 .. Len(c)
          BY <1>2, <1>4, <4>2
        <5> QED
          BY <1>2, <3>1, <3>5, <5>1
      <4>3. IndexOf(new[x], id) = Len(c) + 1
        <5> DEFINE es == new[x]
                   last == Len(c) + 1
        <5>1. /\ Len(es) \in Nat /\ last \in 1 .. Len(es) /\ es[last].nodeID = id
              /\ \A j \in 1 .. Len(es) : j < last => es[j].nodeID # id
          BY <1>2, <1>3, <3>4, <3>5, <4>1, <4>2
        <5> HIDE DEF es, last
        <5>2. IndexOf(es, id) = last
          BY <5>1, FirstIs
        <5> QED
          BY <5>2 DEF es, last
      <4> QED
        BY <1>2, <1>3, <2>2, <3>2, <3>5, <4>1, <4>3 DEF routingtable_getnextnode
    <3>6. CASE p = 0 /\ id # dest
      <4>1. \A j \in 1 .. Len(new[x]) : new[x][j].nodeID # id
        BY <1>2, <1>3, <1>4, <3>1, <3>6
      <4>2. IndexOf(new[x], id) = 0
        BY <3>4, <4>1, NoneIs
      <4> QED
        BY <2>2, <3>3, <3>6, <4>2 DEF routingtable_getnextnode
    <3>7. CASE p # 0
      <4>1. p \in 1 .. Len(c) /\ p \in 1 .. Len(new[x])
        BY <1>2, <3>1, <3>7
      <4>2. ASSUME NEW j \in 1 .. Len(new[x]), j < p
            PROVE  new[x][j].nodeID # id
        <5>1. j \in 1 .. Len(c) /\ ~(p <= j)
          BY <1>2, <1>4, <4>1, <4>2
        <5> QED
          BY <1>2, <3>1, <5>1
      <4>3. IndexOf(new[x], id) = p /\ new[x][p] = c[p]
        <5>1. new[x][p] = c[p] /\ new[x][p].nodeID = id
          BY <1>2, <3>1, <3>7, <4>1
        <5> DEFINE es == new[x]
        <5>2. /\ Len(es) \in Nat /\ p \in 1 .. Len(es) /\ es[p].nodeID = id
              /\ \A j \in 1 .. Len(es) : j < p => es[j].nodeID # id
          BY <3>4, <4>1, <4>2, <5>1
        <5> HIDE DEF es
        <5>3. IndexOf(es, id) = p
          BY <5>2, FirstIs
        <5> QED
          BY <5>1, <5>3 DEF es
      <4> QED
        BY <2>2, <3>2, <3>3, <3>7, <4>3 DEF routingtable_getnextnode
    <3> QED
      BY <3>5, <3>6, <3>7
  <2> QED
    BY <2>1, <2>2
<1> QED
  BY <1>2, <1>5, <1>6

(* What a new next hop makes of rt: the IDs of the entries that there were *)
(* stay, and dest alone is answered otherwise.                             *)
NextSet(rt, dest, next, new) ==
  /\ RtOK(new) /\ (Alone(rt) => Alone(new))
  /\ \A s \in Slots : /\ Len(rt[s]) <= Len(new[s])
                      /\ \A k \in 1 .. Len(rt[s]) : new[s][k].nodeID = rt[s][k].nodeID
  /\ \A id \in Ids : routingtable_getnextnode(new, id) =
       IF id = dest THEN next ELSE routingtable_getnextnode(rt, id)

(* routingtable_setnextnode does that, wherever the ID is in the chain of  *)
(* its slot, and whichever other IDs share it (routingtable.c).            *)
THEOREM SetNextIs ==
    ASSUME NEW rt, RtOK(rt), NEW dest \in Ids, NEW next \in Nat,
           NEW new, new = routingtable_setnextnode(rt, dest, next)
    PROVE  NextSet(rt, dest, next, new)
<1> DEFINE x == makehash(dest)
           c == rt[x]
           k == IndexOf(c, dest)
<1>1. x \in Slots /\ dest \in Nat /\ \A id \in Ids : makehash(id) \in Slots
  BY HashIs, IdsAre
<1>2. /\ rt \in [Slots -> Seq(Link)] /\ c \in Seq(Link) /\ Len(c) \in Nat
      /\ \A s \in Slots : Len(rt[s]) \in Nat
  BY <1>1 DEF RtOK
<1>3. new = IF k = 0 THEN Chained(rt, dest, next) ELSE [rt EXCEPT ![x][k].nextNodeID = next]
  BY DEF routingtable_setnextnode
<1>4. /\ k \in 0 .. Len(c) /\ (k # 0 => c[k].nodeID = dest)
      /\ \A j \in 1 .. Len(c) : c[j].nodeID = dest => k # 0
  BY <1>2, IndexOfIs
<1> HIDE DEF k
<1>5. CASE k = 0
  <2>1. new = Chained(rt, dest, next)
    BY <1>3, <1>5
  <2>2. routingtable_getnextnode(rt, dest) = -1
    BY <1>5, NoEntryIs DEF k
  <2>3. /\ RtOK(new) /\ \A s \in Slots : s # x => new[s] = rt[s]
        /\ Len(new[x]) = Len(c) + 1
        /\ \A j \in 1 .. Len(c) : new[x][j] = c[j]
    BY <2>1, ChainedNext
  <2>4. ASSUME NEW s \in Slots
        PROVE  /\ Len(rt[s]) <= Len(new[s])
               /\ \A j \in 1 .. Len(rt[s]) : new[s][j].nodeID = rt[s][j].nodeID
    <3>1. CASE s # x
      BY <1>2, <2>3, <3>1
    <3>2. CASE s = x
      BY <1>2, <2>3, <3>2
    <3> QED
      BY <3>1, <3>2
  <2>5. \A id \in Ids : routingtable_getnextnode(new, id) =
          IF id = dest /\ routingtable_getnextnode(rt, id) = -1 THEN next
          ELSE routingtable_getnextnode(rt, id)
    BY <2>1, ChainedNext
  <2>6. Alone(rt) => Alone(new)
    BY <2>1, <2>2, ChainedNext
  <2> QED
    BY <2>2, <2>3, <2>4, <2>5, <2>6 DEF NextSet
<1>6. CASE k # 0
  <2> DEFINE e == [c[k] EXCEPT !.nextNodeID = next]
             c2 == [c EXCEPT ![k] = e]
  <2>1. k \in 1 .. Len(c)
    BY <1>2, <1>4, <1>6
  <2>2. new = [rt EXCEPT ![x] = c2]
    BY <1>3, <1>6
  <2>3. c[k] \in Link
    <3> HIDE DEF c
    <3> QED
      BY <1>2, <2>1
  <2>4. e \in Link /\ e.nodeID = c[k].nodeID /\ e.nextNodeID = next
    BY <2>3 DEF Link
  <2> HIDE DEF e
  <2>5. /\ c2 \in Seq(Link) /\ Len(c2) = Len(c)
        /\ \A j \in 1 .. Len(c) : c2[j] = IF j = k THEN e ELSE c[j]
    <3> HIDE DEF c
    <3> QED
      BY <1>2, <2>1, <2>4
  <2> HIDE DEF c2
  <2>6. /\ new \in [Slots -> Seq(Link)] /\ new[x] = c2
        /\ \A s \in Slots : s # x => new[s] = rt[s]
    BY <1>1, <1>2, <2>2, <2>5
  <2>7. \A j \in 1 .. Len(c) : c2[j].nodeID = c[j].nodeID
    BY <2>4, <2>5
  <2>8. ASSUME NEW s \in Slots
        PROVE  /\ Len(rt[s]) = Len(new[s])
               /\ \A j \in 1 .. Len(rt[s]) : new[s][j].nodeID = rt[s][j].nodeID
    <3>1. CASE s # x
      BY <1>2, <2>6, <3>1
    <3>2. CASE s = x
      BY <1>2, <2>5, <2>6, <2>7, <3>2
    <3> QED
      BY <3>1, <3>2
  <2>9. RtOK(new)
    <3> SUFFICES ASSUME NEW s \in Slots, NEW j \in 1 .. Len(new[s])
                 PROVE  new[s][j].nodeID \in Ids
      BY <2>6 DEF RtOK
    <3>1. j \in 1 .. Len(rt[s]) /\ new[s][j].nodeID = rt[s][j].nodeID
      BY <2>8
    <3> QED
      BY <3>1 DEF RtOK
  <2>12. Alone(rt) => Alone(new)
    <3> SUFFICES ASSUME Alone(rt), NEW s \in Slots, NEW i \in 1 .. Len(new[s]),
                        NEW j \in 1 .. Len(new[s]), new[s][i].nodeID = new[s][j].nodeID
                 PROVE  i = j
      BY DEF Alone
    <3>1. /\ i \in 1 .. Len(rt[s]) /\ new[s][i].nodeID = rt[s][i].nodeID
          /\ j \in 1 .. Len(rt[s]) /\ new[s][j].nodeID = rt[s][j].nodeID
      BY <2>8
    <3> QED
      BY <3>1 DEF Alone
  <2>10. ASSUME NEW id \in Ids
        PROVE  routingtable_getnextnode(new, id) =
                 IF id = dest THEN next ELSE routingtable_getnextnode(rt, id)
    <3>1. CASE makehash(id) # x
      <4>1. id # dest /\ new[makehash(id)] = rt[makehash(id)]
        BY <1>1, <2>6, <3>1
      <4> QED
        BY <4>1 DEF routingtable_getnextnode
    <3>2. CASE makehash(id) = x
      <4> DEFINE p == IndexOf(c, id)
      <4>1. IndexOf(c2, id) = p
        BY <1>2, <2>5, <2>7, SameIndex
      <4>2. p \in 0 .. Len(c) /\ (p # 0 => c[p].nodeID = id)
        BY <1>2, IndexOfIs
      <4>3. id = dest => p = k
        BY DEF k
      <4> HIDE DEF p
      <4>4. p # 0 => p \in 1 .. Len(c)
        BY <1>2, <4>2
      <4>5. routingtable_getnextnode(new, id) = IF p = 0 THEN -1 ELSE c2[p].nextNodeID
        BY <2>6, <3>2, <4>1 DEF routingtable_getnextnode
      <4>6. routingtable_getnextnode(rt, id) = IF p = 0 THEN -1 ELSE c[p].nextNodeID
        BY <3>2 DEF routingtable_getnextnode, p
      <4>7. CASE id = dest
        BY <1>6, <2>1, <2>4, <2>5, <4>3, <4>5, <4>7
      <4>8. CASE id # dest
        <5>1. p # k \/ p = 0
          BY <1>4, <1>6, <4>2, <4>8
        <5> QED
          BY <2>5, <4>4, <4>5, <4>6, <4>8, <5>1
      <4> QED
        BY <4>7, <4>8
    <3> QED
      BY <3>1, <3>2
  <2>11. \A s \in Slots : Len(rt[s]) <= Len(new[s])
    BY <1>2, <2>8
  <2> QED
    BY <2>8, <2>9, <2>10, <2>11, <2>12 DEF NextSet
<1> QED
  BY <1>5, <1>6

(* f gives the routing table after the first neighbours.                   *)
RtAfter(f) ==
  f = [n \in 0 .. Len(nct) |->
         IF n = 0 THEN [s \in Slots |-> <<>>]
         ELSE Chained(f[n - 1], nct[n].nodeID, nct[n].nodeID)]

(* The routing table has the first n neighbours as next hops.              *)
HopsOf(rt, n) ==
  /\ RtOK(rt) /\ (OneLinePerLink => Alone(rt))
  /\ \A id \in Ids : routingtable_getnextnode(rt, id) =
       IF \E j \in 1 .. n : nct[j].nodeID = id THEN id ELSE -1

(* One more neighbour.                                                     *)
LEMMA HopsOneMore ==
    ASSUME NEW rt, NEW n \in 1 .. Len(nct), HopsOf(rt, n - 1)
    PROVE  HopsOf(Chained(rt, nct[n].nodeID, nct[n].nodeID), n)
<1> DEFINE dest == nct[n].nodeID
           new == Chained(rt, dest, dest)
<1>1. Len(nct) \in Nat /\ dest \in Ids /\ dest \in Nat
  <2> HIDE DEF new
  <2>1. nct \in Seq(Entry) /\ nct[n].nodeID \in Ids
    BY NctIs
  <2>2. Len(nct) \in Nat
    BY <2>1
  <2>3. nct[n].nodeID \in Nat
    BY <2>1, IdsAre
  <2> QED
    BY <2>1, <2>2, <2>3
<1>2. \A j : j \in 1 .. n <=> j \in 1 .. n - 1 \/ j = n
  BY <1>1
<1> HIDE DEF dest, new
<1>3. /\ RtOK(rt) /\ (OneLinePerLink => Alone(rt))
      /\ \A id \in Ids : routingtable_getnextnode(rt, id) =
           IF \E j \in 1 .. n - 1 : nct[j].nodeID = id THEN id ELSE -1
  BY DEF HopsOf
<1>4. RtOK(new)
  BY <1>1, <1>3, ChainedIs DEF new
<1>5. ASSUME OneLinePerLink
      PROVE  Alone(new)
  <2>1. \A j \in 1 .. n - 1 : nct[j].nodeID # dest
    <3> SUFFICES ASSUME NEW j \in 1 .. n - 1
                 PROVE  nct[j].nodeID # dest
      OBVIOUS
    <3>1. j \in 1 .. Len(nct) /\ j # n
      BY <1>1
    <3> QED
      BY <1>5, <3>1, NctIs DEF dest
  <2>2. routingtable_getnextnode(rt, dest) = -1
    BY <1>1, <1>3, <2>1
  <2> QED
    BY <1>1, <1>3, <1>5, <2>2, ChainedNext DEF new
<1>6. ASSUME NEW id \in Ids
      PROVE  routingtable_getnextnode(new, id) =
               IF \E j \in 1 .. n : nct[j].nodeID = id THEN id ELSE -1
  <2>1. routingtable_getnextnode(new, id) =
          IF id = dest /\ routingtable_getnextnode(rt, id) = -1 THEN dest
          ELSE routingtable_getnextnode(rt, id)
    BY <1>1, <1>3, ChainedNext DEF new
  <2>2. id # -1
    BY IdsAre
  <2> QED
    BY <1>2, <1>3, <2>1, <2>2 DEF dest
<1> QED
  BY <1>4, <1>5, <1>6 DEF HopsOf, new, dest

(* At the start every neighbour is its own next hop.                       *)
THEOREM RtCreateIs == HopsOf(routingtable_create(Me), Len(nct))
<1> DEFINE N == Len(nct)
           none == [s \in Slots |-> <<>>]
           T == {rt \in [Slots -> Seq(Link)] : RtOK(rt)}
           G == [p \in T \X (1 .. N) |-> Chained(p[1], nct[p[2]].nodeID, nct[p[2]].nodeID)]
<1>1. N \in Nat
  BY NctIs
<1>2. HopsOf(none, 0) /\ none \in T
  <2>1. none \in [Slots -> Seq(Link)] /\ \A s \in Slots : none[s] = <<>> /\ Len(none[s]) = 0
    <3>1. <<>> \in Seq(Link)
      OBVIOUS
    <3> QED
      BY <3>1
  <2> HIDE DEF none
  <2>2. 1 .. 0 = {}
    OBVIOUS
  <2>3. RtOK(none) /\ Alone(none)
    BY <2>1, <2>2 DEF RtOK, Alone
  <2>4. ASSUME NEW id \in Ids
        PROVE  routingtable_getnextnode(none, id) = -1
    <3>1. none[makehash(id)] = <<>>
      BY <2>1, HashIs, IdsAre
    <3>2. \A j \in 1 .. Len(<<>>) : <<>>[j].nodeID # id
      OBVIOUS
    <3> QED
      BY <2>3, <3>1, <3>2, NoEntryIs
  <2> QED
    BY <2>1, <2>2, <2>3, <2>4 DEF HopsOf
<1>3. \E f : RtAfter(f)
  <2>1. G \in [T \X (1 .. N) -> T]
    <3> SUFFICES ASSUME NEW rt \in T, NEW n \in 1 .. N
                 PROVE  Chained(rt, nct[n].nodeID, nct[n].nodeID) \in T
      OBVIOUS
    <3>1. nct[n].nodeID \in Ids /\ nct[n].nodeID \in Nat
      BY NctIs, IdsAre
    <3>2. RtOK(Chained(rt, nct[n].nodeID, nct[n].nodeID))
      BY <3>1, ChainedIs
    <3> QED
      BY <3>2 DEF RtOK
  <2>2. PICK f \in [0 .. N -> T] : GoesOn(f, none, G, N)
    <3> HIDE DEF G, T, none
    <3> QED
      BY <1>1, <1>2, <2>1, StagesExist
  <2> HIDE DEF T
  <2>3. ASSUME NEW n \in 0 .. N
        PROVE  f[n] = IF n = 0 THEN none ELSE Chained(f[n - 1], nct[n].nodeID, nct[n].nodeID)
    <3> HIDE DEF none
    <3>1. CASE n = 0
      BY <2>2, <3>1 DEF GoesOn
    <3>2. CASE n # 0
      <4>1. n \in 1 .. N /\ n - 1 \in 0 .. N
        BY <1>1, <3>2
      <4>2. <<f[n - 1], n>> \in T \X (1 .. N)
        BY <4>1
      <4>3. f[n] = G[<<f[n - 1], n>>]
        BY <2>2, <4>1 DEF GoesOn
      <4> QED
        BY <3>2, <4>2, <4>3
    <3> QED
      BY <3>1, <3>2
  <2>4. f = [n \in 0 .. N |-> f[n]]
    OBVIOUS
  <2>5. RtAfter(f)
    BY <2>3, <2>4 DEF RtAfter
  <2> QED
    BY <2>5
<1>4. PICK f : RtAfter(f) /\ routingtable_create(Me) = f[N]
  <2> DEFINE after == CHOOSE f : RtAfter(f)
  <2>1. RtAfter(after)
    BY <1>3
  <2>2. routingtable_create(Me) = after[N]
    BY NctIs DEF routingtable_create, RtAfter, Slots
  <2> QED
    BY <2>1, <2>2
<1> DEFINE S == {n \in 0 .. N : HopsOf(f[n], n)}
<1>5. f[0] = none /\ \A n \in 1 .. N : f[n] = Chained(f[n - 1], nct[n].nodeID, nct[n].nodeID)
  BY <1>1, <1>4 DEF RtAfter
<1> HIDE DEF none
<1>6. 0 \in S
  BY <1>1, <1>2, <1>5
<1>7. ASSUME NEW n \in 1 .. N, n - 1 \in S
      PROVE  n \in S
  BY <1>1, <1>5, <1>7, HopsOneMore
<1>8. N \in S
  <2> HIDE DEF S
  <2> QED
    BY <1>1, <1>6, <1>7, StepByStep
<1> QED
  BY <1>4, <1>8

-----------------------------------------------------------------------------
(* The invariant of the descriptors and of dv_mutex.                       *)

(* What the threads remember keeps its fields.                             *)
Shapes ==
    /\ h = [pc |-> h.pc, fd |-> h.fd, src |-> h.src, row |-> h.row, i |-> h.i]
    /\ d = [pc |-> d.pc, row |-> d.row, fd |-> d.fd]
    /\ w = [pc |-> w.pc, dest |-> w.dest, at |-> w.at, next |-> w.next, fd |-> w.fd]

(* Descriptors are descriptors, and while the listening socket is not open *)
(* there is one that is free.                                              *)
Descriptors ==
    /\ son_conn \in Fds \cup {-1}
    /\ open \in [Fds -> {"free", "son", "listen", "program"}]
    /\ h.pc = "recv" => h.fd \in Fds
    /\ d.pc = "send" => d.fd \in Fds
    /\ w.pc = "send" => w.fd \in Fds
    /\ w.pc = "sleep" => open[2] = "free"

(* dv_mutex is held by the thread that is in its section.                  *)
Mutex ==
    /\ dv_mutex = "h" <=> h.pc = "relax"
    /\ dv_mutex = "d" <=> d.pc = "copy"

(* The row copied so far, at pc, from the own row.                         *)
CopyOf(pc, row, own) ==
    /\ pc = "sleep" => row = <<>>
    /\ pc = "copy" => /\ row \in Seq({own[k].cost : k \in Nat})
                      /\ \A k \in DOMAIN row : row[k] = own[k].cost

Copied == CopyOf(d.pc, d.row, OwnRow)

(* Until somebody has raced, son_conn is the connection to SON or has just *)
(* been closed by the one who is about to write -1, and no thread is in a  *)
(* call for SON with the descriptor of a program.                          *)
ForSon ==
    /\ crossed => raced
    /\ ~raced =>
         /\ son_conn # -1 => \/ open[son_conn] = "son"
                             \/ open[son_conn] = "free" /\ (h.pc = "reset" \/ sig = "closed")
         /\ h.pc = "recv" => open[h.fd] # "program"
         /\ d.pc = "send" => open[d.fd] # "program"
         /\ w.pc = "send" => open[w.fd] # "program"

(* The inductive invariant.                                                *)
IInv == Shapes /\ Descriptors /\ Mutex /\ Copied /\ ForSon

-----------------------------------------------------------------------------

(* The descriptors are numbers, and 2 is one.                              *)
LEMMA FdsAre == Fds \subseteq Nat /\ -1 \notin Fds /\ 1 \in Fds /\ 2 \in Fds
  BY SipNodeAssumption DEF Fds

(* SON has the first descriptor, and no thread is in a call.               *)
LEMMA InitInv == Init => IInv
<1> SUFFICES ASSUME Init
             PROVE  IInv
  OBVIOUS
<1>1. Shapes
  BY DEF Init, Shapes
<1>2. h.pc = "test" /\ d.pc = "sleep" /\ d.row = <<>> /\ w.pc = "sleep"
  BY DEF Init
<1>3. Descriptors
  BY <1>2, FdsAre DEF Init, Descriptors
<1>4. Mutex
  BY <1>2, NoneAssumption DEF Init, Mutex
<1>5. Copied
  BY <1>2 DEF Copied, CopyOf
<1>6. ForSon
  BY <1>2, FdsAre DEF Init, ForSon
<1> QED
  BY <1>1, <1>3, <1>4, <1>5, <1>6 DEF IInv

(* The lowest free descriptor is one of them.                              *)
LEMMA LowestFree ==
    ASSUME Free # {}
    PROVE  Lowest \in Fds /\ open[Lowest] = "free"
<1>1. Free \subseteq Fds /\ Free \subseteq Nat
  BY FdsAre DEF Free
<1>2. \E x \in Free : \A y \in Free : x <= y
  BY <1>1, SmallestOne
<1>3. Lowest \in Free
  BY <1>2 DEF Lowest
<1> QED
  BY <1>1, <1>3 DEF Free

(* A step of pkthandler.                                                   *)
LEMMA HandlerStep == IInv /\ pkthandler => IInv'
<1> SUFFICES ASSUME IInv, pkthandler
             PROVE  IInv'
  OBVIOUS
<1> USE DEF pkthandler, HandlerTests, HandlerReceivesUpdate, HandlerReceivesSip, HandlerLeaves,
            HandlerCloses, HandlerResets, HandlerStores, HandlerRelaxes, HandlerUnlocks
<1>1. Shapes /\ Descriptors /\ Mutex /\ Copied /\ ForSon
  BY DEF IInv
<1>2. UNCHANGED <<d, w, sig, raced>> /\ w' = w /\ d' = d
  OBVIOUS
<1>3. Shapes'
  BY <1>1, <1>2 DEF Shapes
<1>4. Mutex'
  BY <1>1, <1>2, NoneAssumption DEF Mutex, Shapes
<1>5. Descriptors'
  BY <1>1, <1>2, FdsAre DEF Descriptors, Shapes, Closed
<1>6. Copied'
  <2>1. d.pc # "copy" \/ dv' = dv
    <3>1. CASE dv_mutex = None \/ h.pc = "relax"
      BY <1>1, <3>1, NoneAssumption DEF Mutex
    <3>2. CASE dv_mutex # None /\ h.pc # "relax"
      BY <3>2 DEF tables
    <3> QED
      BY <3>1, <3>2
  <2>2. OwnRow' = OwnRow \/ d.pc # "copy"
    BY <2>1 DEF OwnRow
  <2>3. CASE OwnRow' = OwnRow
    BY <1>1, <1>2, <2>3 DEF Copied
  <2>4. CASE d.pc # "copy"
    BY <1>1, <1>2, <2>4 DEF Copied, CopyOf
  <2> QED
    BY <2>2, <2>3, <2>4
<1>7. ForSon'
  <2>1. CASE raced
    BY <1>2, <2>1 DEF ForSon
  <2>2. CASE ~raced
    <3>1. /\ ~crossed /\ son_conn \in Fds \cup {-1}
          /\ son_conn # -1 => open[son_conn] # "program"
          /\ h.pc = "recv" => h.fd \in Fds /\ open[h.fd] # "program"
      BY <1>1, <2>2 DEF ForSon, Descriptors
    <3>2. ~IsProgram(son_conn) /\ (h.pc = "recv" => ~IsProgram(h.fd))
      BY <3>1 DEF IsProgram, What
    <3>3. ~crossed'
      BY <3>1, <3>2 DEF Crossing
    <3>4. \A fd \in Fds : open'[fd] = open[fd] \/ open'[fd] = "free"
      BY <1>1, FdsAre DEF Closed, Descriptors
    <3>5. CASE HandlerTests
      BY <1>1, <1>2, <2>2, <3>1, <3>3, <3>5, FdsAre DEF ForSon, Descriptors, Shapes
    <3>6. CASE HandlerCloses
      BY <1>1, <1>2, <2>2, <3>1, <3>3, <3>4, <3>6, FdsAre DEF ForSon, Descriptors, Shapes, Closed
    <3>7. CASE HandlerResets
      BY <1>1, <1>2, <2>2, <3>1, <3>3, <3>7, FdsAre DEF ForSon, Descriptors, Shapes
    <3>8. ASSUME ~HandlerTests, ~HandlerCloses, ~HandlerResets
          PROVE  ForSon'
      <4>1. UNCHANGED <<son_conn, open, d, w, sig, raced>> /\ h'.pc # "recv" /\ h.pc # "reset"
        BY <1>1, <3>8 DEF Shapes
      <4> QED
        BY <1>1, <1>2, <2>2, <3>1, <3>3, <4>1 DEF ForSon, Descriptors
    <3> QED
      BY <3>5, <3>6, <3>7, <3>8
  <2> QED
    BY <2>1, <2>2
<1> QED
  BY <1>3, <1>4, <1>5, <1>6, <1>7 DEF IInv

(* A step of routeupdate_daemon.                                           *)
LEMMA DaemonStep == IInv /\ routeupdate_daemon => IInv'
<1> SUFFICES ASSUME IInv, routeupdate_daemon
             PROVE  IInv'
  OBVIOUS
<1> USE DEF routeupdate_daemon, DaemonWakes, DaemonCopies, DaemonUnlocks, DaemonChecks, DaemonSends
<1>1. Shapes /\ Descriptors /\ Mutex /\ Copied /\ ForSon
  BY DEF IInv
<1>2. UNCHANGED <<h, w, sig, open, raced, dv>> /\ OwnRow' = OwnRow
  BY DEF tables, OwnRow
<1>3. Shapes'
  BY <1>1, <1>2 DEF Shapes
<1>4. Mutex'
  BY <1>1, <1>2, NoneAssumption DEF Mutex, Shapes
<1>5. Descriptors'
  BY <1>1, <1>2, FdsAre DEF Descriptors, Shapes
<1>6. Copied'
  <2>1. CASE DaemonCopies
    <3> DEFINE S == {OwnRow[k].cost : k \in Nat}
               x == OwnRow[Len(d.row) + 1].cost
    <3>1. /\ d.row \in Seq(S) /\ \A k \in DOMAIN d.row : d.row[k] = OwnRow[k].cost
          /\ d'.row = Append(d.row, x)
      BY <1>1, <2>1 DEF Copied, CopyOf, Shapes
    <3>2. x \in S
      <4>1. Len(d.row) + 1 \in Nat
        BY <3>1
      <4> QED
        BY <4>1
    <3> HIDE DEF S
    <3>3. Append(d.row, x) \in Seq(S)
      BY <3>1, <3>2
    <3>4. ASSUME NEW k \in DOMAIN Append(d.row, x)
          PROVE  Append(d.row, x)[k] = OwnRow[k].cost
      <4> HIDE DEF x
      <4>1. /\ k \in 1 .. Len(d.row) + 1
            /\ Append(d.row, x)[k] = IF k = Len(d.row) + 1 THEN x ELSE d.row[k]
            /\ k # Len(d.row) + 1 => k \in DOMAIN d.row
        BY <3>1, <3>4
      <4> QED
        BY <3>1, <4>1 DEF x
    <3> HIDE DEF x
    <3>5. CopyOf(d'.pc, Append(d.row, x), OwnRow)
      <4>1. d'.pc = "copy"
        BY <1>1, <2>1 DEF Shapes
      <4> QED
        BY <3>3, <3>4, <4>1, Zenon DEF CopyOf, S
    <3> QED
      BY <1>2, <3>1, <3>5, Zenon DEF Copied
  <2>2. CASE DaemonWakes
    <3>1. d'.pc = "copy" /\ d'.row = <<>>
      BY <1>1, <2>2 DEF Copied, CopyOf, Shapes
    <3>2. <<>> \in Seq({OwnRow[k].cost : k \in Nat})
      OBVIOUS
    <3>3. CopyOf("copy", <<>>, OwnRow)
      BY <3>2 DEF CopyOf
    <3> QED
      BY <1>2, <3>1, <3>3, Zenon DEF Copied
  <2>3. CASE DaemonUnlocks \/ DaemonChecks \/ DaemonSends
    <3>1. d'.pc # "copy" /\ (d'.pc = "sleep" => d'.row = <<>>)
      BY <1>1, <2>3 DEF Shapes
    <3> QED
      BY <3>1 DEF Copied, CopyOf
  <2> QED
    BY <2>1, <2>2, <2>3
<1>7. ForSon'
  <2>1. CASE raced
    BY <1>2, <2>1 DEF ForSon
  <2>2. CASE ~raced
    <3>1. /\ ~crossed /\ son_conn \in Fds \cup {-1}
          /\ son_conn # -1 => open[son_conn] # "program"
          /\ d.pc = "send" => d.fd \in Fds /\ open[d.fd] # "program"
      BY <1>1, <2>2 DEF ForSon, Descriptors
    <3>2. ~crossed'
      BY <3>1 DEF Crossing, IsProgram, What
    <3>3. (son_conn' = son_conn \/ son_conn' = -1) /\ (d'.pc = "send" => d'.fd = son_conn /\ son_conn # -1)
      BY <1>1 DEF Shapes
    <3> QED
      BY <1>1, <1>2, <2>2, <3>1, <3>2, <3>3 DEF ForSon
  <2> QED
    BY <2>1, <2>2
<1> QED
  BY <1>3, <1>4, <1>5, <1>6, <1>7 DEF IInv

(* main opens a descriptor.                                                *)
LEMMA OpenStep ==
    ASSUME IInv, NEW what \in {"listen", "program"}, Free # {}, sig # "closed", Opens(what),
           UNCHANGED <<h, d, sig, son_conn, crossed, dv_mutex, dv>>,
           w' = [w EXCEPT !.pc = "accept"] \/ w' = [w EXCEPT !.pc = "read"]
    PROVE  IInv'
<1>1. Shapes /\ Descriptors /\ Mutex /\ Copied /\ ForSon
  BY DEF IInv
<1>2. Lowest \in Fds /\ open[Lowest] = "free"
  BY LowestFree
<1>3. open' = [open EXCEPT ![Lowest] = what] /\ (raced => raced')
  BY DEF Opens
<1>4. Shapes' /\ w'.pc \in {"accept", "read"}
  BY <1>1 DEF Shapes
<1>5. Mutex' /\ Copied'
  BY <1>1 DEF Mutex, Copied, OwnRow
<1>6. Descriptors'
  BY <1>1, <1>2, <1>3, <1>4 DEF Descriptors
<1>7. ForSon'
  <2>1. CASE raced'
    BY <2>1 DEF ForSon
  <2>2. CASE ~raced'
    <3>1. /\ ~(h.pc = "reset" /\ son_conn = Lowest) /\ ~(h.pc = "recv" /\ h.fd = Lowest)
          /\ ~(d.pc = "send" /\ d.fd = Lowest) /\ ~raced
      BY <2>2 DEF Opens
    <3>2. \A fd \in Fds : fd # Lowest => open'[fd] = open[fd]
      BY <1>1, <1>2, <1>3 DEF Descriptors
    <3>3. son_conn # -1 => son_conn # Lowest
      BY <1>1, <1>2, <3>1 DEF ForSon
    <3> QED
      BY <1>1, <1>4, <3>1, <3>2, <3>3, FdsAre DEF ForSon, Descriptors
  <2> QED
    BY <2>1, <2>2
<1> QED
  BY <1>4, <1>5, <1>6, <1>7 DEF IInv

(* A step of main.                                                         *)
LEMMA MainStep == IInv /\ waitSTCP => IInv'
<1> SUFFICES ASSUME IInv, waitSTCP
             PROVE  IInv'
  OBVIOUS
<1>1. Shapes /\ Descriptors /\ Mutex /\ Copied /\ ForSon
  BY DEF IInv
<1>2. CASE Listens
  <2>1. Free # {}
    BY <1>1, <1>2, FdsAre DEF Listens, InMain, Descriptors, Free
  <2> QED
    BY <1>2, <2>1, OpenStep DEF Listens, InMain, tables
<1>3. CASE Accepts
  BY <1>3, OpenStep DEF Accepts, InMain, tables
<1>4. CASE ReadsSegment \/ ProgramLeft \/ Walks \/ Checks \/ Sends
  <2> USE DEF ReadsSegment, ProgramLeft, Walks, Checks, Sends, InMain, ToRead
  <2>1. UNCHANGED <<h, d, sig, open, raced, dv, dv_mutex>> /\ OwnRow' = OwnRow
    BY <1>4 DEF tables, OwnRow
  <2>2. Shapes'
    BY <1>1, <1>4, <2>1 DEF Shapes
  <2>3. Mutex' /\ Copied'
    BY <1>1, <2>1 DEF Mutex, Copied
  <2>4. /\ w.pc \in {"read", "walk", "check", "send"} /\ w'.pc # "sleep"
        /\ w'.pc = "send" => w'.fd = son_conn /\ son_conn # -1
        /\ son_conn' = son_conn \/ son_conn' = -1
        /\ crossed' = crossed \/ (w.pc = "send" /\ Crossing(w.fd))
    BY <1>1, <1>4 DEF Shapes
  <2>5. Descriptors'
    BY <1>1, <2>1, <2>4, FdsAre DEF Descriptors
  <2>6. ForSon'
    <3>1. CASE raced
      BY <2>1, <3>1 DEF ForSon
    <3>2. CASE ~raced
      <4>1. ~crossed'
        BY <1>1, <2>4, <3>2 DEF ForSon, Crossing, IsProgram, What
      <4> QED
        BY <1>1, <2>1, <2>4, <3>2, <4>1 DEF ForSon
    <3> QED
      BY <3>1, <3>2
  <2> QED
    BY <2>2, <2>3, <2>5, <2>6 DEF IInv
<1> QED
  BY <1>2, <1>3, <1>4 DEF waitSTCP

(* A step of sip_stop, or the end of another process.                      *)
LEMMA StopStep ==
    ASSUME IInv, StopCloses \/ StopResets \/ SonEnds \/ ProgramEnds
    PROVE  IInv'
<1>1. Shapes /\ Descriptors /\ Mutex /\ Copied /\ ForSon
  BY DEF IInv
<1> USE DEF StopCloses, StopResets, SonEnds, ProgramEnds
<1>2. UNCHANGED <<h, d, dv_mutex, dv, raced, crossed>> /\ OwnRow' = OwnRow
  BY DEF tables, OwnRow
<1>3. Shapes'
  BY <1>1, <1>2 DEF Shapes
<1>4. Mutex' /\ Copied'
  BY <1>1, <1>2 DEF Mutex, Copied
<1>5. /\ w' = w \/ (w.pc = "read" /\ w'.pc = "accept")
      /\ \/ son_conn' = -1 /\ sig' = "done" /\ open' = open
         \/ UNCHANGED <<son_conn, sig, open>>
         \/ son_conn' = son_conn /\ sig' = "closed" /\ open' = Closed(son_conn)
  BY <1>1 DEF Shapes
<1>6. /\ \A fd \in Fds : open'[fd] = open[fd] \/ open'[fd] = "free"
      /\ open' \in [Fds -> {"free", "son", "listen", "program"}]
  BY <1>1, <1>5, FdsAre DEF Closed, Descriptors
<1>7. Descriptors'
  BY <1>1, <1>2, <1>5, <1>6, FdsAre DEF Descriptors
<1>8. ForSon'
  <2>1. CASE raced
    BY <1>2, <2>1 DEF ForSon
  <2>2. CASE ~raced
    <3>1. CASE open' = Closed(son_conn) /\ sig' = "closed" /\ son_conn' = son_conn
      <4>1. son_conn # -1 => open'[son_conn] = "free"
        BY <1>1, <3>1 DEF Closed, Descriptors
      <4> QED
        BY <1>1, <1>2, <1>5, <1>6, <2>2, <3>1, <4>1 DEF ForSon, Descriptors
    <3>2. CASE open' = open /\ (son_conn' = -1 \/ UNCHANGED <<son_conn, sig>>)
      BY <1>1, <1>2, <1>5, <2>2, <3>2 DEF ForSon
    <3> QED
      BY <1>5, <3>1, <3>2
  <2> QED
    BY <2>1, <2>2
<1> QED
  BY <1>3, <1>4, <1>7, <1>8 DEF IInv

(* Every step keeps the invariant.                                         *)
LEMMA NextInv == IInv /\ [Next]_vars => IInv'
<1> SUFFICES ASSUME IInv, [Next]_vars
             PROVE  IInv'
  OBVIOUS
<1>1. CASE UNCHANGED vars
  BY <1>1 DEF vars, tables, IInv, Shapes, Descriptors, Mutex, Copied, ForSon, OwnRow
<1> QED
  BY <1>1, HandlerStep, DaemonStep, MainStep, StopStep DEF Next

-----------------------------------------------------------------------------
(* The invariant of the tables.                                            *)

(* Where the threads are, and what pkthandler remembers of an update.      *)
Threads ==
    /\ stcp_conn \in Fds \cup {-1}
    /\ h.pc \in {"test", "recv", "lock", "relax", "close", "reset", "done"}
    /\ d.pc \in {"sleep", "copy", "check", "send"}
    /\ w.pc \in {"sleep", "accept", "read", "walk", "check", "send"}
    /\ h.i \in 0 .. NodeNum + 1 /\ (h.pc = "relax" => h.i >= 1)
    /\ h.pc \in {"lock", "relax"} => /\ IndexOf(nct, h.src) # 0
                                     /\ h.row \in [DOMAIN allIdList -> 0 .. INFINITE_COST]

(* Every destination's next hop is the one its cost was set through.       *)
NextHops ==
    /\ DvOK(dv) /\ RtOK(routingtable) /\ hop \in [Ids -> Ids \cup {-1}]
    /\ \A id \in Ids : routingtable_getnextnode(routingtable, id) = hop[id]

(* The walk along a chain has passed by other IDs, and has seen the next   *)
(* hop that it will find or, behind the last entry, that there was none.   *)
WalkOf(pc, dest, at, chain, hops, answers) ==
    pc = "walk" =>
      /\ dest \in Ids /\ hops[dest] \in answers
      /\ at \in 0 .. Len(chain) /\ (at = 0 => -1 \in answers)
      /\ \A k \in 1 .. Len(chain) : k < at => chain[k].nodeID # dest
Walking ==
    /\ WalkOf(w.pc, w.dest, w.at, routingtable[makehash(w.dest)], hop, seen)
    /\ w.pc \in {"check", "send"} => w.next \in seen
    /\ w.at \in Nat

(* What holds of a proper topology: the own row has no cost beyond         *)
(* INFINITE_COST, the node is at no distance from itself, and there is a   *)
(* next hop as soon as there is a cost.                                    *)
RowCosts(row) ==
    \A i \in 1 .. NodeNum : /\ row[i].cost <= INFINITE_COST
                            /\ allIdList[i] = Me => row[i].cost = 0
HopCosts(row, hops) ==
    \A id \in Ids : hops[id] = -1 <=> id = Me \/ CostIn(row, id) >= INFINITE_COST
Proper ==
    /\ Alone(routingtable) /\ w.at <= NodeNum
    /\ RowCosts(OwnRow) /\ HopCosts(OwnRow, hop)

(* The inductive invariant, together with IInv.                            *)
TInv == Threads /\ NextHops /\ Walking /\ (OneLinePerLink => Proper)

(* The numbers up to n.                                                    *)
LEMMA UpTo ==
    ASSUME NEW n \in Nat
    PROVE  IsFiniteSet(1 .. n) /\ Cardinality(1 .. n) = n
<1>1. 1 \in Int /\ n \in Int
  OBVIOUS
<1>2. IsFiniteSet(1 .. n) /\ Cardinality(1 .. n) = IF 1 > n THEN 0 ELSE n - 1 + 1
  BY <1>1, FS_Interval
<1> QED
  BY <1>2

(* A chain in which no ID has two entries has at most NodeNum of them.     *)
LEMMA ChainShort ==
    ASSUME NEW c \in Seq(Link), \A k \in 1 .. Len(c) : c[k].nodeID \in Ids,
           \A j, k \in 1 .. Len(c) : c[j].nodeID = c[k].nodeID => j = k
    PROVE  Len(c) <= NodeNum
<1> DEFINE f == [k \in 1 .. Len(c) |-> c[k].nodeID]
           g == [k \in 1 .. NodeNum |-> allIdList[k]]
<1>1. Len(c) \in Nat /\ NodeNum \in Nat
  BY IdsAre
<1>2. /\ IsFiniteSet(1 .. NodeNum) /\ Cardinality(1 .. NodeNum) = NodeNum
      /\ Cardinality(1 .. Len(c)) = Len(c)
  BY <1>1, UpTo
<1>3. IsFiniteSet(Ids) /\ Cardinality(Ids) <= NodeNum
  <2>1. g \in Surjection(1 .. NodeNum, Ids)
    BY IdsAre DEF Surjection
  <2> HIDE DEF g
  <2> QED
    BY <1>2, <2>1, FS_Surjection
<1>4. Len(c) <= Cardinality(Ids)
  <2>1. f \in Injection(1 .. Len(c), Ids)
    BY DEF Injection, IsInjective
  <2> HIDE DEF f
  <2> QED
    BY <1>2, <1>3, <2>1, FS_Injection
<1>5. Cardinality(Ids) \in Nat
  BY <1>3, FS_CardinalityType
<1> QED
  BY <1>1, <1>3, <1>4, <1>5

(* At the start: the neighbours are their own next hops.                   *)
LEMMA InitTables == Init => TInv
<1> SUFFICES ASSUME Init
             PROVE  TInv
  OBVIOUS
<1>1. /\ dv = dvtable_create(Me) /\ routingtable = routingtable_create(Me)
      /\ h.pc = "test" /\ h.i = 0 /\ d.pc = "sleep" /\ w.pc = "sleep" /\ w.at = 0 /\ stcp_conn = -1
      /\ hop = [id \in Ids |-> IF IndexOf(nct, id) = 0 THEN -1 ELSE id]
  BY DEF Init
<1>2. NodeNum \in Nat /\ nct \in Seq(Entry)
  BY IdsAre, NctIs
<1>3. Threads
  BY <1>1, <1>2 DEF Threads
<1>4. Walking
  BY <1>1 DEF Walking, WalkOf
<1>5. DvOK(dv) /\ HopsOf(routingtable, Len(nct))
  BY <1>1, DvCreateIs, RtCreateIs
<1>6. ASSUME NEW id \in Ids
      PROVE  /\ IndexOf(nct, id) \in 0 .. Len(nct)
             /\ IndexOf(nct, id) # 0 => nct[IndexOf(nct, id)].nodeID = id
             /\ (\E j \in 1 .. Len(nct) : nct[j].nodeID = id) <=> IndexOf(nct, id) # 0
  <2> DEFINE x == IndexOf(nct, id)
  <2>1. Len(nct) \in Nat
    BY <1>2
  <2>2. /\ x \in 0 .. Len(nct) /\ (x # 0 => nct[x].nodeID = id)
        /\ \A k \in 1 .. Len(nct) : nct[k].nodeID = id => x # 0
    BY <2>1, IndexOfIs
  <2> HIDE DEF x
  <2>3. x # 0 => x \in 1 .. Len(nct)
    BY <2>1, <2>2
  <2>4. (\E j \in 1 .. Len(nct) : nct[j].nodeID = id) <=> x # 0
    BY <2>2, <2>3
  <2> QED
    BY <2>2, <2>4 DEF x
<1>7. NextHops
  <2>1. hop \in [Ids -> Ids \cup {-1}]
    BY <1>1
  <2>2. \A id \in Ids : routingtable_getnextnode(routingtable, id) = hop[id]
    BY <1>1, <1>5, <1>6 DEF HopsOf
  <2> QED
    BY <1>5, <2>1, <2>2 DEF NextHops, HopsOf
<1>8. ASSUME OneLinePerLink
      PROVE  Proper
  <2>1. Alone(routingtable) /\ w.at <= NodeNum
    BY <1>1, <1>2, <1>5, <1>8 DEF HopsOf
  <2>2. IndexOf(dv, Me) = Len(nct) + 1
    <3>1. Len(dv) = Len(nct) + 1 /\ Len(nct) \in Nat /\ dv[Len(nct) + 1].nodeID = Me
      BY <1>2, <1>5 DEF DvOK
    <3>2. Len(dv) \in Nat /\ Len(nct) + 1 \in 1 .. Len(dv)
      BY <3>1
    <3>3. ASSUME NEW r \in 1 .. Len(dv), r < Len(nct) + 1
          PROVE  dv[r].nodeID # Me
      <4>1. r \in 1 .. Len(nct)
        BY <3>1, <3>3
      <4> QED
        BY <1>5, <1>8, <4>1, NctIs DEF DvOK
    <3> QED
      BY <3>1, <3>2, <3>3, FirstIs
  <2>3. /\ RowOK(OwnRow)
        /\ \A i \in 1 .. NodeNum : OwnRow[i].cost = IF allIdList[i] = Me THEN 0 ELSE CostIn(nct, allIdList[i])
    BY <1>1, <1>5, <2>2, DvCreateIs, RowsFound DEF OwnRow
  <2>4. ASSUME NEW id \in Ids
        PROVE  /\ CostIn(nct, id) <= INFINITE_COST
               /\ CostIn(nct, id) >= INFINITE_COST <=> IndexOf(nct, id) = 0
    <3> DEFINE x == IndexOf(nct, id)
    <3>1. CostIn(nct, id) = IF x = 0 THEN INFINITE_COST ELSE nct[x].cost
      BY DEF CostIn
    <3>2. x # 0 => x \in 1 .. Len(nct)
      BY <1>2, <1>6
    <3> HIDE DEF x
    <3>3. x # 0 => nct[x].cost \in Nat /\ nct[x].cost < INFINITE_COST
      <4>1. x # 0 => nct[x] \in Entry
        BY <1>2, <3>2
      <4> QED
        BY <1>8, <3>2, <4>1, NctIs DEF Entry
    <3>4. /\ CostIn(nct, id) <= INFINITE_COST
          /\ CostIn(nct, id) >= INFINITE_COST <=> x = 0
      BY <3>1, <3>3, TablesAssumption
    <3> QED
      BY <3>4 DEF x
  <2>5. RowCosts(OwnRow)
    <3> SUFFICES ASSUME NEW i \in 1 .. NodeNum
                 PROVE  /\ OwnRow[i].cost <= INFINITE_COST
                        /\ allIdList[i] = Me => OwnRow[i].cost = 0
      BY DEF RowCosts
    <3>1. allIdList[i] \in Ids
      BY IdsAre
    <3>2. CASE allIdList[i] = Me
      BY <2>3, <3>2, TablesAssumption
    <3>3. CASE allIdList[i] # Me
      BY <2>3, <2>4, <3>1, <3>3
    <3> QED
      BY <3>2, <3>3
  <2>6. ASSUME NEW id \in Ids
        PROVE  CostIn(OwnRow, id) = IF id = Me THEN 0 ELSE CostIn(nct, id)
    <3> DEFINE x == IndexOf(OwnRow, id)
    <3>1. PICK k \in 1 .. NodeNum : allIdList[k] = id
      BY IdsAre
    <3>2. /\ x \in 0 .. NodeNum /\ x # 0 /\ OwnRow[x].nodeID = id
      BY <1>2, <2>3, <3>1, IndexOfIs DEF RowOK
    <3>3. CostIn(OwnRow, id) = OwnRow[x].cost
      BY <3>2 DEF CostIn
    <3> HIDE DEF x
    <3>4. x \in 1 .. NodeNum
      BY <1>2, <3>2
    <3>5. allIdList[x] = id
      BY <2>3, <3>2, <3>4 DEF RowOK
    <3> QED
      BY <2>3, <3>3, <3>4, <3>5
  <2>7. HopCosts(OwnRow, hop)
    <3> SUFFICES ASSUME NEW id \in Ids
                 PROVE  hop[id] = -1 <=> id = Me \/ CostIn(OwnRow, id) >= INFINITE_COST
      BY DEF HopCosts
    <3>1. hop[id] = -1 <=> IndexOf(nct, id) = 0
      BY <1>1, IdsAre
    <3>2. IndexOf(nct, Me) = 0
      BY <1>2, <1>8, NctIs, NoneIs
    <3> QED
      BY <2>4, <2>6, <3>1, <3>2
  <2> QED
    BY <2>1, <2>5, <2>7 DEF Proper
<1> QED
  BY <1>3, <1>4, <1>7, <1>8 DEF TInv

(* The cost of one destination is set in the own row.                      *)
LEMMA RelaxRow ==
    ASSUME NEW t, DvOK(t), NEW dest \in Ids, NEW cost \in Nat,
           NEW new, new = dvtable_setcost(t, Me, dest, cost),
           NEW row, row = t[IndexOf(t, Me)].dvEntry,
           NEW nrow, nrow = new[IndexOf(new, Me)].dvEntry
    PROVE  /\ DvOK(new) /\ RowOK(row) /\ RowOK(nrow)
           /\ \A i \in 1 .. NodeNum : nrow[i].cost = row[i].cost \/ (allIdList[i] = dest /\ nrow[i].cost = cost)
           /\ \A id \in Ids : CostIn(nrow, id) = IF id = dest THEN cost ELSE CostIn(row, id)
<1> DEFINE r == IndexOf(t, Me)
           x == IndexOf(row, dest)
<1>1. DvOK(new) /\ IndexOf(new, Me) = r
  BY SetCostIs, SameRows
<1>2. RowOK(row) /\ RowOK(nrow) /\ r # 0 /\ r \in 0 .. Len(nct) + 1
  BY <1>1, RowsFound
<1>3. r \in 1 .. Len(nct) + 1
  <2> HIDE DEF r
  <2> QED
    BY <1>2, NctIs
<1>4. \A i \in 1 .. NodeNum : nrow[i].cost = IF i = x THEN cost ELSE row[i].cost
  BY <1>1, <1>3, SetCostIs
<1>5. ASSUME NEW id \in Ids
      PROVE  /\ IndexOf(row, id) \in 1 .. NodeNum /\ allIdList[IndexOf(row, id)] = id
             /\ IndexOf(nrow, id) = IndexOf(row, id)
  <2> DEFINE y == IndexOf(row, id)
  <2>1. PICK k \in 1 .. NodeNum : allIdList[k] = id
    BY IdsAre
  <2>2. /\ y \in 0 .. NodeNum /\ y # 0 /\ row[y].nodeID = id
    <3>1. Len(row) \in Nat /\ Len(row) = NodeNum /\ row[k].nodeID = id
      BY <1>2, <2>1, IdsAre DEF RowOK
    <3> QED
      BY <2>1, <3>1, IndexOfIs
  <2> HIDE DEF y
  <2>3. y \in 1 .. NodeNum /\ allIdList[y] = id
    BY <1>2, <2>2, IdsAre DEF RowOK
  <2>4. IndexOf(nrow, id) = y
    BY <1>2, SameEntries DEF y
  <2> QED
    BY <2>3, <2>4 DEF y
<1> HIDE DEF r, x
<1>6. x \in 1 .. NodeNum /\ allIdList[x] = dest
  BY <1>5 DEF x
<1>7. ASSUME NEW id \in Ids
      PROVE  CostIn(nrow, id) = IF id = dest THEN cost ELSE CostIn(row, id)
  <2> DEFINE y == IndexOf(row, id)
  <2>1. y \in 1 .. NodeNum /\ allIdList[y] = id /\ IndexOf(nrow, id) = y /\ y # 0
    BY <1>5
  <2>2. CostIn(nrow, id) = nrow[y].cost /\ CostIn(row, id) = row[y].cost
    BY <2>1 DEF CostIn
  <2>3. id = dest => y = x
    BY DEF x
  <2> HIDE DEF y
  <2> QED
    BY <1>4, <1>6, <2>1, <2>2, <2>3
<1> QED
  BY <1>1, <1>2, <1>4, <1>6, <1>7

(* pkthandler stores a row: it is not the own one, unless the node is its  *)
(* own neighbour.                                                          *)
LEMMA StoresTables == IInv /\ TInv /\ HandlerStores => TInv'
<1> SUFFICES ASSUME IInv, TInv, HandlerStores
             PROVE  TInv'
  OBVIOUS
<1>1. Shapes /\ Threads /\ NextHops /\ Walking /\ (OneLinePerLink => Proper)
  BY DEF IInv, TInv
<1>2. /\ h.pc = "lock" /\ h'.pc = "relax" /\ h'.i = 1 /\ h'.src = h.src /\ h'.row = h.row
      /\ dv' = dvtable_setrow(dv, h.src, h.row)
      /\ UNCHANGED <<routingtable, hop, stcp_conn, d, w, seen>>
  BY <1>1 DEF HandlerStores, Shapes
<1>3. Threads'
  BY <1>1, <1>2, IdsAre DEF Threads
<1>4. Walking'
  BY <1>1, <1>2 DEF Walking, WalkOf
<1>5. h.row \in [DOMAIN allIdList -> Nat] /\ IndexOf(nct, h.src) # 0 /\ DvOK(dv)
  BY <1>1, <1>2 DEF Threads, NextHops
<1>6. /\ DvOK(dv')
      /\ \A r \in 1 .. Len(nct) + 1 : r # IndexOf(dv, h.src) => dv'[r] = dv[r]
  BY <1>2, <1>5, SetRowIs
<1>7. NextHops'
  BY <1>1, <1>2, <1>6 DEF NextHops
<1>8. ASSUME OneLinePerLink
      PROVE  Proper'
  <2>1. h.src # Me
    <3> DEFINE x == IndexOf(nct, h.src)
    <3>1. Len(nct) \in Nat
      BY NctIs
    <3>2. x \in 0 .. Len(nct) /\ x # 0 /\ nct[x].nodeID = h.src
      BY <1>5, <3>1, IndexOfIs
    <3> HIDE DEF x
    <3>3. x \in 1 .. Len(nct)
      BY <3>1, <3>2
    <3> QED
      BY <1>8, <3>2, <3>3, NctIs
  <2>2. IndexOf(dv', Me) = IndexOf(dv, Me)
    BY <1>5, <1>6, SameRows
  <2>3. IndexOf(dv, Me) # IndexOf(dv, h.src) /\ IndexOf(dv, Me) # 0 /\ IndexOf(dv, Me) \in 0 .. Len(nct) + 1
    BY <1>5, <2>1, RowsFound
  <2>4. dv'[IndexOf(dv, Me)] = dv[IndexOf(dv, Me)]
    <3> DEFINE r == IndexOf(dv, Me)
    <3>1. r # 0 /\ r \in 0 .. Len(nct) + 1 /\ r # IndexOf(dv, h.src)
      BY <2>3
    <3> HIDE DEF r
    <3>2. r \in 1 .. Len(nct) + 1
      BY <3>1, NctIs
    <3>3. dv'[r] = dv[r]
      BY <1>6, <3>1, <3>2
    <3> QED
      BY <3>3 DEF r
  <2>5. OwnRow' = OwnRow
    BY <2>2, <2>4 DEF OwnRow
  <2> QED
    BY <1>1, <1>2, <1>8, <2>5 DEF Proper
<1> QED
  BY <1>3, <1>4, <1>7, <1>8 DEF TInv

(* pkthandler changes one destination's cost and next hop.                 *)
LEMMA RelaxesTables == IInv /\ TInv /\ HandlerRelaxes => TInv'
<1> SUFFICES ASSUME IInv, TInv, HandlerRelaxes
             PROVE  TInv'
  OBVIOUS
<1>1. Shapes /\ Threads /\ NextHops /\ Walking /\ (OneLinePerLink => Proper)
  BY DEF IInv, TInv
<1> DEFINE i == h.i
           src == h.src
           dest == OwnRow[i].nodeID
           cost == nbrcosttable_getcost(nct, src) + dvtable_getcost(dv, src, dest)
           better == cost < OwnRow[i].cost
<1>2. /\ h.pc = "relax" /\ i <= NodeNum
      /\ dv' = IF better THEN dvtable_setcost(dv, Me, dest, cost) ELSE dv
      /\ routingtable' = IF better THEN routingtable_setnextnode(routingtable, dest, src) ELSE routingtable
      /\ hop' = IF better THEN [hop EXCEPT ![dest] = src] ELSE hop
      /\ seen' = IF w.pc = "walk" THEN seen \cup {hop'[w.dest]} ELSE seen
      /\ h' = [h EXCEPT !.i = i + 1]
      /\ UNCHANGED <<stcp_conn, d, w>>
  BY DEF HandlerRelaxes, Routed
<1>3. h'.pc = "relax" /\ h'.src = src /\ h'.row = h.row /\ h'.i = i + 1
  BY <1>1, <1>2 DEF Shapes
<1>4. i \in 1 .. NodeNum /\ IndexOf(nct, src) # 0 /\ NodeNum \in Nat
  BY <1>1, <1>2, IdsAre DEF Threads
<1>5. Threads'
  BY <1>1, <1>2, <1>3, <1>4 DEF Threads
<1>6. DvOK(dv) /\ RtOK(routingtable) /\ hop \in [Ids -> Ids \cup {-1}]
      /\ \A id \in Ids : routingtable_getnextnode(routingtable, id) = hop[id]
  BY <1>1 DEF NextHops
<1>7. RowOK(OwnRow)
  BY <1>6, RowsFound DEF OwnRow
<1>8. dest = allIdList[i] /\ dest \in Ids /\ OwnRow[i].cost \in Nat
  <2>1. OwnRow[i] \in Entry
    BY <1>4, <1>7 DEF RowOK
  <2> QED
    BY <1>4, <1>7, <2>1, IdsAre DEF RowOK, Entry
<1>9. src \in Ids /\ src \in Nat
  <2> DEFINE x == IndexOf(nct, src)
  <2>1. Len(nct) \in Nat
    BY NctIs
  <2>2. x \in 0 .. Len(nct) /\ x # 0 /\ nct[x].nodeID = src
    BY <1>4, <2>1, IndexOfIs
  <2> HIDE DEF x
  <2>3. x \in 1 .. Len(nct)
    BY <2>1, <2>2
  <2> QED
    BY <2>2, <2>3, NctIs, IdsAre
<1>10. cost \in Nat
  <2>1. nbrcosttable_getcost(nct, src) \in Nat
    BY NctIs, CostInIs DEF nbrcosttable_getcost
  <2>2. dvtable_getcost(dv, src, dest) \in Nat
    <3> DEFINE r == IndexOf(dv, src)
    <3>1. r \in 0 .. Len(nct) + 1
      BY <1>6, RowsFound
    <3>2. dvtable_getcost(dv, src, dest) = IF r = 0 THEN INFINITE_COST ELSE CostIn(dv[r].dvEntry, dest)
      BY DEF dvtable_getcost
    <3> HIDE DEF r
    <3>3. r # 0 => r \in 1 .. Len(nct) + 1
      BY <3>1, NctIs
    <3>4. r # 0 => dv[r].dvEntry \in Seq(Entry)
      BY <1>6, <3>3 DEF DvOK, RowOK
    <3> QED
      BY <3>2, <3>4, CostInIs, TablesAssumption
  <2> QED
    BY <2>1, <2>2
<1> HIDE DEF i, src, dest, cost
<1>11. CASE ~better
  <2>1. UNCHANGED <<dv, routingtable, hop, w>> /\ OwnRow' = OwnRow
    BY <1>2, <1>11 DEF OwnRow
  <2>2. NextHops' /\ (OneLinePerLink => Proper')
    BY <1>1, <2>1 DEF NextHops, Proper
  <2>3. Walking'
    BY <1>1, <1>2, <2>1 DEF Walking, WalkOf
  <2> QED
    BY <1>5, <2>2, <2>3 DEF TInv
<1>12. CASE better
  <2>1. /\ dv' = dvtable_setcost(dv, Me, dest, cost)
        /\ routingtable' = routingtable_setnextnode(routingtable, dest, src)
        /\ hop' = [hop EXCEPT ![dest] = src]
    BY <1>2, <1>12
  <2>2. /\ DvOK(dv') /\ RowOK(OwnRow')
        /\ \A k \in 1 .. NodeNum : OwnRow'[k].cost = OwnRow[k].cost \/ (allIdList[k] = dest /\ OwnRow'[k].cost = cost)
        /\ \A id \in Ids : CostIn(OwnRow', id) = IF id = dest THEN cost ELSE CostIn(OwnRow, id)
    <3>1. OwnRow' = dv'[IndexOf(dv', Me)].dvEntry /\ OwnRow = dv[IndexOf(dv, Me)].dvEntry
      BY DEF OwnRow
    <3> QED
      BY <1>6, <1>8, <1>10, <2>1, <3>1, RelaxRow
  <2>3. /\ RtOK(routingtable') /\ (Alone(routingtable) => Alone(routingtable'))
        /\ \A s \in Slots : /\ Len(routingtable[s]) <= Len(routingtable'[s])
                            /\ \A k \in 1 .. Len(routingtable[s]) : routingtable'[s][k].nodeID = routingtable[s][k].nodeID
        /\ \A id \in Ids : routingtable_getnextnode(routingtable', id) =
             IF id = dest THEN src ELSE routingtable_getnextnode(routingtable, id)
    <3>1. NextSet(routingtable, dest, src, routingtable')
      BY <1>6, <1>8, <1>9, <2>1, SetNextIs
    <3> QED
      BY <3>1 DEF NextSet
  <2>4. hop' \in [Ids -> Ids \cup {-1}] /\ \A id \in Ids : hop'[id] = IF id = dest THEN src ELSE hop[id]
    BY <1>6, <1>8, <1>9, <2>1
  <2>5. NextHops'
    BY <1>6, <2>2, <2>3, <2>4 DEF NextHops
  <2>6. Walking'
    <3>1. CASE w.pc # "walk"
      BY <1>1, <1>2, <3>1 DEF Walking, WalkOf
    <3>2. CASE w.pc = "walk"
      <4> DEFINE c == routingtable[makehash(w.dest)]
                 e == routingtable'[makehash(w.dest)]
      <4>1. /\ w.dest \in Ids /\ w.at \in 0 .. Len(c) /\ (w.at = 0 => -1 \in seen)
            /\ \A k \in 1 .. Len(c) : k < w.at => c[k].nodeID # w.dest
        BY <1>1, <3>2 DEF Walking, WalkOf
      <4>2. makehash(w.dest) \in Slots
        BY <4>1, HashIs, IdsAre
      <4>3. /\ Len(c) \in Nat /\ Len(e) \in Nat /\ Len(c) <= Len(e)
            /\ \A k \in 1 .. Len(c) : e[k].nodeID = c[k].nodeID
        BY <1>6, <2>3, <4>2 DEF RtOK
      <4>4. seen' = seen \cup {hop'[w.dest]} /\ w' = w
        BY <1>2, <3>2
      <4> HIDE DEF c, e
      <4>5. w.at \in 0 .. Len(e) /\ \A k \in 1 .. Len(e) : k < w.at => e[k].nodeID # w.dest
        BY <4>1, <4>3
      <4>6. WalkOf(w.pc, w.dest, w.at, e, hop', seen')
        BY <4>1, <4>4, <4>5 DEF WalkOf
      <4> QED
        BY <1>1, <3>2, <4>4, <4>6 DEF Walking, e
    <3> QED
      BY <3>1, <3>2
  <2>7. ASSUME OneLinePerLink
        PROVE  Proper'
    <3>1. Alone(routingtable') /\ w'.at <= NodeNum
      BY <1>1, <1>2, <2>3, <2>7 DEF Proper
    <3>2. RowCosts(OwnRow) /\ HopCosts(OwnRow, hop)
      BY <1>1, <2>7 DEF Proper
    <3>3. dest # Me /\ cost < INFINITE_COST
      BY <1>4, <1>8, <1>10, <1>12, <3>2, TablesAssumption DEF RowCosts
    <3>4. RowCosts(OwnRow')
      <4> SUFFICES ASSUME NEW k \in 1 .. NodeNum
                   PROVE  /\ OwnRow'[k].cost <= INFINITE_COST
                          /\ allIdList[k] = Me => OwnRow'[k].cost = 0
        BY DEF RowCosts
      <4> DEFINE x == OwnRow'[k].cost
      <4>1. x = OwnRow[k].cost \/ (allIdList[k] = dest /\ x = cost)
        BY <2>2
      <4>2. OwnRow[k].cost <= INFINITE_COST /\ (allIdList[k] = Me => OwnRow[k].cost = 0)
        BY <3>2 DEF RowCosts
      <4>3. cost <= INFINITE_COST
        BY <1>10, <3>3, TablesAssumption
      <4> HIDE DEF x
      <4>4. x <= INFINITE_COST /\ (allIdList[k] = Me => x = 0)
        BY <3>3, <4>1, <4>2, <4>3
      <4> QED
        BY <4>4 DEF x
    <3>5. HopCosts(OwnRow', hop')
      <4> SUFFICES ASSUME NEW id \in Ids
                   PROVE  hop'[id] = -1 <=> id = Me \/ CostIn(OwnRow', id) >= INFINITE_COST
        BY DEF HopCosts
      <4>1. CASE id = dest
        <5>1. hop'[id] = src /\ CostIn(OwnRow', id) = cost
          BY <2>2, <2>4, <4>1
        <5>2. src # -1 /\ ~(cost >= INFINITE_COST) /\ id # Me
          BY <1>9, <1>10, <3>3, <4>1, TablesAssumption
        <5> QED
          BY <5>1, <5>2
      <4>2. CASE id # dest
        BY <2>2, <2>4, <3>2, <4>2 DEF HopCosts
      <4> QED
        BY <4>1, <4>2
    <3> QED
      BY <3>1, <3>4, <3>5 DEF Proper
  <2> QED
    BY <1>5, <2>5, <2>6, <2>7 DEF TInv
<1> QED
  BY <1>11, <1>12

(* A step that leaves the tables alone.                                    *)
LEMMA TablesKept ==
    ASSUME TInv, UNCHANGED tables, Threads', Walking',
           OneLinePerLink => w'.at <= NodeNum
    PROVE  TInv'
<1>1. UNCHANGED <<dv, routingtable, hop>> /\ OwnRow' = OwnRow
  BY DEF tables, OwnRow
<1>2. NextHops' /\ (OneLinePerLink => Proper')
  BY <1>1 DEF TInv, NextHops, Proper
<1> QED
  BY <1>2 DEF TInv

(* The other steps of pkthandler.                                          *)
LEMMA HandlerTables == IInv /\ TInv /\ pkthandler => TInv'
<1> SUFFICES ASSUME IInv, TInv, pkthandler
             PROVE  TInv'
  OBVIOUS
<1>1. CASE HandlerStores
  BY <1>1, StoresTables
<1>2. CASE HandlerRelaxes
  BY <1>2, RelaxesTables
<1>3. ASSUME ~HandlerStores, ~HandlerRelaxes
      PROVE  TInv'
  <2>1. Shapes /\ Threads /\ Walking /\ (OneLinePerLink => w.at <= NodeNum)
    BY DEF IInv, TInv, Proper
  <2>2. UNCHANGED <<tables, w, d, seen, stcp_conn>> /\ w' = w
    BY <1>3 DEF pkthandler, HandlerTests, HandlerReceivesUpdate, HandlerReceivesSip, HandlerLeaves,
                HandlerCloses, HandlerResets, HandlerUnlocks
  <2>3. Walking'
    BY <2>1, <2>2 DEF Walking, WalkOf, tables
  <2>4. Threads'
    <3>1. CASE HandlerReceivesUpdate
      <4>1. PICK u \in Updates : h' = [h EXCEPT !.pc = "lock", !.src = u.src, !.row = u.row]
        BY <3>1 DEF HandlerReceivesUpdate
      <4>2. h'.pc = "lock" /\ h'.src = u.src /\ h'.row = u.row /\ h'.i = h.i
        BY <2>1, <4>1 DEF Shapes
      <4>3. IndexOf(nct, u.src) # 0 /\ u.row \in [DOMAIN allIdList -> 0 .. INFINITE_COST]
        BY SipNodeAssumption, NctIs
      <4> QED
        BY <2>1, <2>2, <4>2, <4>3 DEF Threads
    <3>2. CASE ~HandlerReceivesUpdate
      <4>1. /\ h'.pc \in {"test", "recv", "close", "reset", "done"} /\ (h'.i = h.i \/ h'.i = 0)
        BY <1>3, <2>1, <3>2 DEF Shapes, pkthandler, HandlerTests, HandlerReceivesSip, HandlerLeaves,
                                HandlerCloses, HandlerResets, HandlerUnlocks
      <4> QED
        BY <2>1, <2>2, <4>1, IdsAre DEF Threads
    <3> QED
      BY <3>1, <3>2
  <2> QED
    BY <2>1, <2>2, <2>3, <2>4, TablesKept
<1> QED
  BY <1>1, <1>2, <1>3

(* The steps of routeupdate_daemon, of sip_stop and of other processes.    *)
LEMMA DaemonTables ==
    ASSUME IInv, TInv,
           routeupdate_daemon \/ StopCloses \/ StopResets \/ SonEnds \/ ProgramEnds \/ UNCHANGED vars
    PROVE  TInv'
<1> USE DEF routeupdate_daemon, DaemonWakes, DaemonCopies, DaemonUnlocks, DaemonChecks, DaemonSends,
            StopCloses, StopResets, SonEnds, ProgramEnds, vars
<1>1. Shapes /\ Threads /\ Walking /\ (OneLinePerLink => w.at <= NodeNum)
  BY DEF IInv, TInv, Proper
<1>2. /\ UNCHANGED <<tables, h, seen>> /\ (stcp_conn' = stcp_conn \/ stcp_conn' = -1)
      /\ w' = w \/ w'.pc = "accept"
      /\ UNCHANGED <<w.dest, w.at, w.next>>
  BY <1>1 DEF Shapes
<1>3. d'.pc \in {"sleep", "copy", "check", "send"}
  BY <1>1 DEF Shapes, Threads
<1>4. Threads'
  BY <1>1, <1>2, <1>3 DEF Threads
<1>5. Walking'
  BY <1>1, <1>2 DEF Walking, WalkOf, tables
<1> QED
  BY <1>1, <1>2, <1>4, <1>5, TablesKept

(* The walk goes on, or has found its answer.                              *)
LEMMA WalksTables == IInv /\ TInv /\ Walks => TInv'
<1> SUFFICES ASSUME IInv, TInv, Walks
             PROVE  TInv'
  OBVIOUS
<1> DEFINE dest == w.dest
           at == w.at
           chain == routingtable[makehash(dest)]
<1>1. Shapes /\ Threads /\ NextHops /\ Walking /\ (OneLinePerLink => Proper)
  BY DEF IInv, TInv
<1>2. /\ w.pc = "walk" /\ UNCHANGED <<tables, h, d, seen, stcp_conn>>
      /\ w' = IF at = 0 THEN [w EXCEPT !.pc = "check", !.next = -1]
              ELSE IF chain[at].nodeID = dest
              THEN [w EXCEPT !.pc = "check", !.next = chain[at].nextNodeID]
              ELSE [w EXCEPT !.at = IF at < Len(chain) THEN at + 1 ELSE 0]
  BY DEF Walks, InMain
<1>3. /\ dest \in Ids /\ hop[dest] \in seen /\ at \in 0 .. Len(chain) /\ (at = 0 => -1 \in seen)
      /\ \A k \in 1 .. Len(chain) : k < at => chain[k].nodeID # dest
  BY <1>1, <1>2 DEF Walking, WalkOf
<1>4. chain \in Seq(Link) /\ Len(chain) \in Nat
  BY <1>1, <1>3, HashIs, IdsAre DEF NextHops, RtOK
<1>5. OneLinePerLink => Len(chain) <= NodeNum
  <2>1. \A k \in 1 .. Len(chain) : chain[k].nodeID \in Ids
    BY <1>1, <1>3, HashIs, IdsAre DEF NextHops, RtOK
  <2>2. OneLinePerLink => \A j, k \in 1 .. Len(chain) : chain[j].nodeID = chain[k].nodeID => j = k
    BY <1>1, <1>3, HashIs, IdsAre DEF Proper, Alone
  <2> QED
    BY <1>4, <2>1, <2>2, ChainShort
<1>6. routingtable_getnextnode(routingtable, dest) = hop[dest]
  BY <1>1, <1>3 DEF NextHops
<1>7. routingtable' = routingtable /\ hop' = hop /\ seen' = seen
  BY <1>2 DEF tables
<1>8. CASE at = 0
  <2>1. w'.pc = "check" /\ w'.next = -1 /\ w'.at = at
    BY <1>1, <1>2, <1>8 DEF Shapes
  <2>2. Threads' /\ Walking'
    BY <1>1, <1>2, <1>3, <1>8, <2>1 DEF Threads, Walking, WalkOf
  <2> QED
    BY <1>1, <1>2, <2>1, <2>2, TablesKept DEF Proper
<1>9. CASE at # 0 /\ chain[at].nodeID = dest
  <2>1. w'.pc = "check" /\ w'.next = chain[at].nextNodeID /\ w'.at = at
    BY <1>1, <1>2, <1>9 DEF Shapes
  <2>2. IndexOf(chain, dest) = at
    BY <1>3, <1>4, <1>9, FirstIs
  <2>3. chain[at].nextNodeID = hop[dest]
    BY <1>6, <1>9, <2>2 DEF routingtable_getnextnode
  <2>4. Threads' /\ Walking'
    BY <1>1, <1>2, <1>3, <1>7, <2>1, <2>3 DEF Threads, Walking, WalkOf
  <2> QED
    BY <1>1, <1>2, <2>1, <2>4, TablesKept DEF Proper
<1>10. CASE at # 0 /\ chain[at].nodeID # dest
  <2> DEFINE new == IF at < Len(chain) THEN at + 1 ELSE 0
  <2>1. w'.pc = "walk" /\ w'.dest = dest /\ w'.at = new
    BY <1>1, <1>2, <1>10 DEF Shapes
  <2>2. /\ new \in 0 .. Len(chain) /\ new \in Nat
        /\ \A k \in 1 .. Len(chain) : k < new => chain[k].nodeID # dest
    BY <1>3, <1>4, <1>10
  <2>3. new = 0 => -1 \in seen
    <3>1. ASSUME new = 0
          PROVE  \A k \in 1 .. Len(chain) : chain[k].nodeID # dest
      BY <1>3, <1>4, <1>10, <3>1
    <3>2. new = 0 => IndexOf(chain, dest) = 0
      BY <1>4, <3>1, NoneIs
    <3>3. new = 0 => hop[dest] = -1
      BY <1>6, <3>2 DEF routingtable_getnextnode
    <3> QED
      BY <1>3, <3>3
  <2> HIDE DEF new
  <2>4. WalkOf("walk", dest, new, chain, hop, seen)
    BY <1>3, <2>2, <2>3 DEF WalkOf
  <2>5. Walking'
    BY <1>7, <2>1, <2>2, <2>4 DEF Walking
  <2>6. Threads'
    BY <1>1, <1>2, <2>1 DEF Threads
  <2>7. OneLinePerLink => w'.at <= NodeNum
    BY <1>4, <1>5, <2>1, <2>2, IdsAre
  <2> QED
    BY <1>2, <2>5, <2>6, <2>7, TablesKept
<1> QED
  BY <1>8, <1>9, <1>10

(* The steps of main.                                                      *)
LEMMA MainTables == IInv /\ TInv /\ waitSTCP => TInv'
<1> SUFFICES ASSUME IInv, TInv, waitSTCP
             PROVE  TInv'
  OBVIOUS
<1>1. Shapes /\ Threads /\ NextHops /\ Walking /\ (OneLinePerLink => w.at <= NodeNum)
  BY DEF IInv, TInv, Proper
<1>2. CASE Walks
  BY <1>2, WalksTables
<1>3. CASE ReadsSegment
  <2>1. PICK dest \in Ids :
          /\ w' = [w EXCEPT !.pc = "walk", !.dest = dest,
                            !.at = IF routingtable[makehash(dest)] = <<>> THEN 0 ELSE 1]
          /\ seen' = {hop[dest]}
    BY <1>3 DEF ReadsSegment
  <2> DEFINE chain == routingtable[makehash(dest)]
             new == IF chain = <<>> THEN 0 ELSE 1
  <2>2. UNCHANGED <<tables, h, d, stcp_conn>> /\ routingtable' = routingtable /\ hop' = hop
    BY <1>3 DEF ReadsSegment, tables
  <2>3. w'.pc = "walk" /\ w'.dest = dest /\ w'.at = new
    BY <1>1, <2>1 DEF Shapes
  <2>4. chain \in Seq(Link) /\ Len(chain) \in Nat
    BY <1>1, HashIs, IdsAre DEF NextHops, RtOK
  <2>5. new \in 0 .. Len(chain) /\ new \in Nat /\ ~(\E k \in 1 .. Len(chain) : k < new)
    <3>1. chain # <<>> => Len(chain) >= 1
      BY <2>4
    <3> QED
      BY <2>4, <3>1
  <2>6. new = 0 => -1 \in {hop[dest]}
    <3>1. new = 0 => IndexOf(chain, dest) = 0
      <4>1. \A j \in 1 .. Len(<<>>) : <<>>[j].nodeID # dest
        OBVIOUS
      <4> QED
        BY <2>4, <4>1, NoneIs
    <3>2. routingtable_getnextnode(routingtable, dest) = hop[dest]
      BY <1>1 DEF NextHops
    <3> QED
      BY <3>1, <3>2 DEF routingtable_getnextnode
  <2>7. NodeNum >= 1
    <3>1. PICK k \in 1 .. NodeNum : allIdList[k] = dest
      BY IdsAre
    <3> QED
      BY <3>1, IdsAre
  <2>8. OneLinePerLink => w'.at <= NodeNum
    BY <2>3, <2>7, IdsAre
  <2> HIDE DEF new
  <2>9. WalkOf("walk", dest, new, chain, hop, {hop[dest]})
    BY <2>5, <2>6 DEF WalkOf
  <2>10. Walking'
    BY <2>1, <2>2, <2>3, <2>5, <2>9 DEF Walking
  <2>11. Threads'
    BY <1>1, <2>2, <2>3 DEF Threads
  <2> QED
    BY <2>2, <2>8, <2>10, <2>11, TablesKept
<1>4. CASE Listens \/ Accepts \/ ProgramLeft \/ Checks \/ Sends
  <2> USE DEF Listens, Accepts, ProgramLeft, Checks, Sends, InMain, ToRead
  <2>1. UNCHANGED <<tables, h, d>> /\ (stcp_conn' = stcp_conn \/ (Accepts /\ stcp_conn' = Lowest))
    BY <1>4
  <2>2. stcp_conn' \in Fds \cup {-1}
    <3>1. Accepts => Lowest \in Fds
      BY LowestFree
    <3> QED
      BY <1>1, <2>1, <3>1 DEF Threads
  <2>3. /\ w'.pc \in {"accept", "read", "send"} /\ (w'.at = w.at \/ w'.at = 0)
        /\ w'.pc = "send" => w.pc = "check" /\ w'.next = w.next /\ seen' = seen
    BY <1>1, <1>4 DEF Shapes
  <2>4. Threads'
    BY <1>1, <2>1, <2>2, <2>3 DEF Threads
  <2>5. Walking'
    BY <1>1, <2>3 DEF Walking, WalkOf
  <2>6. OneLinePerLink => w'.at <= NodeNum
    BY <1>1, <2>3, IdsAre
  <2> QED
    BY <2>1, <2>4, <2>5, <2>6, TablesKept
<1> QED
  BY <1>2, <1>3, <1>4 DEF waitSTCP

(* Every step keeps it.                                                    *)
LEMMA NextTables == IInv /\ TInv /\ [Next]_vars => TInv'
  BY HandlerTables, DaemonTables, MainTables DEF Next

-----------------------------------------------------------------------------
(* The theorems.                                                           *)

(* The inductive invariant holds in every state that can be reached.       *)
THEOREM Invariant == Spec => []IInv
  BY InitInv, NextInv, PTL DEF Spec

(* The row that is broadcast is one the node had between two updates,      *)
(* never half of one and half of the next (sip.c:108-116).                 *)
THEOREM RowsWholeCorrect == Spec => []RowsWhole
<1>1. IInv => RowsWhole
  BY NoneAssumption DEF IInv, Mutex, Copied, CopyOf, RowsWhole
<1> QED
  BY <1>1, Invariant, PTL

(* What is for SON goes to SON, unless a descriptor was given out while a  *)
(* thread was in a call with it or about to write -1 (sip.c:117, 132,      *)
(* 205-206, 213-214, 253 and 274).                                         *)
THEOREM SonOnlyCorrect == Spec => []SonOnly
<1>1. IInv => SonOnly
  BY DEF IInv, ForSon, SonOnly
<1> QED
  BY <1>1, Invariant, PTL

(* The invariant of the tables holds in every state that can be reached,   *)
(* for any topology.                                                       *)
THEOREM TablesInvariant == Spec => []TInv
  BY Invariant, InitTables, NextTables, PTL DEF Spec

(* A lookup that pkthandler's changes overtake (sip.c:272 takes no lock)   *)
(* still answers with the next hop that was right at some moment since it  *)
(* began, whatever the topology and however the IDs share chains.          *)
THEOREM LookupSoundCorrect == Spec => []LookupSound
<1>1. TInv => LookupSound
  BY DEF TInv, Walking, LookupSound
<1> QED
  BY <1>1, TablesInvariant, PTL

(* With one line per link in topology.dat, the two tables tell the same    *)
(* story (routingtable.c:86-121, sip.c:168-184).                           *)
THEOREM TablesAgreeCorrect ==
    ASSUME OneLinePerLink
    PROVE  Spec => []TablesAgree
<1>1. TInv => TablesAgree
  <2> SUFFICES ASSUME TInv
               PROVE  TablesAgree
    OBVIOUS
  <2>1. NextHops /\ Proper
    BY DEF TInv
  <2>2. ASSUME NEW id \in Ids
        PROVE  /\ routingtable_getnextnode(routingtable, id) = hop[id]
               /\ hop[id] = -1 <=> id = Me \/ CostIn(OwnRow, id) >= INFINITE_COST
    BY <2>1 DEF NextHops, Proper, HopCosts
  <2>3. ASSUME NEW s \in DOMAIN routingtable, NEW j \in DOMAIN routingtable[s],
               NEW k \in DOMAIN routingtable[s], routingtable[s][j].nodeID = routingtable[s][k].nodeID
        PROVE  j = k
    <3>1. s \in Slots /\ routingtable[s] \in Seq(Link)
      BY <2>1 DEF NextHops, RtOK
    <3>2. DOMAIN routingtable[s] = 1 .. Len(routingtable[s])
      BY <3>1
    <3> QED
      BY <2>1, <2>3, <3>1, <3>2 DEF Proper, Alone
  <2> QED
    BY <2>2, <2>3 DEF TablesAgree
<1> QED
  BY <1>1, TablesInvariant, PTL

(* With one line per link, no chain is longer than there are nodes, and    *)
(* the rest of the state has its shape; dv_mutex is held by the thread     *)
(* that is in its section.                                                 *)
THEOREM TypeCorrect ==
    ASSUME OneLinePerLink
    PROVE  Spec => []TypeOK
<1>1. IInv /\ TInv => TypeOK
  <2> SUFFICES ASSUME IInv, TInv
               PROVE  TypeOK
    OBVIOUS
  <2>1. w.at \in 0 .. Len(allIdList)
    BY IdsAre DEF TInv, Walking, Proper, NodeNum
  <2> QED
    BY <2>1 DEF IInv, Descriptors, Mutex, TInv, Threads, TypeOK
<1> QED
  BY <1>1, Invariant, TablesInvariant, PTL
=============================================================================
