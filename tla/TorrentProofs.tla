---------------------------- MODULE TorrentProofs ----------------------------
(***************************************************************************)
(* Theorems about Torrent, for any number of clients, seeds, links,        *)
(* pieces, blocks, connections of a pair, ends and restarts.               *)
(***************************************************************************)
EXTENDS Torrent, TLAPS, FiniteSetTheorems, WellFoundedInduction

(* What connections carry.                                                 *)
Message ==
  [type : {"hand", "interested", "unchoke"}]
  \cup [type : {"bitfield"}, bits : SUBSET Pieces]
  \cup [type : {"have"}, index : Pieces]
  \cup [type : {"request"}, index : Pieces, offset : Blocks]
  \cup [type : {"piece"}, index : Pieces, offset : Blocks, good : BOOLEAN]

(* The end of a connection at one of its clients.                          *)
State == [index : Pieces, offset : Blocks] \cup {Nothing}
End == [pc : {"none", "backlog", "slot", "hand", "read", "astray", "show", "check",
              "request", "drawing"},
        bits : SUBSET Pieces, req : State, save : State, piece : Pieces \cup {-1}]

(* A function of connections and of their clients with values in T.        *)
OnEnds(f, T) ==
  /\ f = [k \in Conns |-> [c \in k[1] |-> f[k][c]]]
  /\ \A k \in Conns : \A c \in k[1] : f[k][c] \in T

Types ==
  /\ isSeed \in [Clients -> -1 .. 2]
  /\ done \in [Clients -> SUBSET Pieces]
  /\ disk \in [Clients -> SUBSET (Pieces \X Blocks)]
  /\ owner \in [Clients -> [Pieces -> Conns \cup {None}]]
  /\ count \in [Clients -> [Pieces -> Nat]]
  /\ saved \in [Clients -> (SUBSET Pieces) \cup {None}]
  /\ stale \in [Clients -> {"no", "old", "used"}]
  /\ OnEnds(end, End)
  /\ OnEnds(chan, Seq(Message))

(* What a client has, and may be restarted from.                           *)
Holds(c) ==
  /\ NoneStale => done[c] \X Blocks \subseteq disk[c]
  /\ isSeed[c] = 2 => done[c] = Pieces
  /\ c \in Seeds => isSeed[c] \in {-1, 2} /\ done[c] = Pieces
  /\ NoneStale /\ stale[c] = "no" /\ saved[c] # None =>
       saved[c] \X Blocks \subseteq disk[c] /\ (Up(c) => saved[c] \subseteq done[c])

(* The pieces that the client at the other end of k is known to have, if   *)
(* there is one.                                                           *)
Reach(k, c) ==
  IF end[k][Other(k, c)].pc = "none" THEN Pieces ELSE done[Other(k, c)]

(* What an end knows of the other client, and has got on the disk.         *)
Known(e, reach) ==
  e.bits \subseteq reach /\ (e.req # Nothing => e.req.index \in reach)
Written(e, blocks) ==
  e.save # Nothing => \A b \in 0 .. e.save.offset - 1 : <<e.save.index, b>> \in blocks

EndWell(k, c) ==
  LET e == end[k][c]
  IN
  /\ e.pc = "none" => e = NoEnd /\ chan[k][c] = <<>>
  /\ e.pc # "none" => Up(c)
  /\ e.pc = "show" <=> e.piece # -1
  /\ Known(e, Reach(k, c))
  /\ NoneStale => Written(e, disk[c])

(* A message to a client that has these pieces, from one that has those.   *)
Fits(m, has, reach, sound) ==
  /\ m.type = "bitfield" => m.bits \subseteq reach
  /\ m.type = "request" => m.index \in has
  /\ m.type = "piece" /\ sound => m.good
AllFit(s, has, reach, sound) ==
  \A n \in 1 .. Len(s) : Fits(s[n], has, reach, sound)

(* The inductive invariant.                                                *)
IInv ==
  /\ Types
  /\ \A c \in Clients : Holds(c) /\ Cardinality(Slots(c)) <= MAXPEER
  /\ \A k \in Conns : \A c \in k[1] :
       EndWell(k, c) /\ AllFit(chan[k][c], done[c], Reach(k, c), NoneStale)

-----------------------------------------------------------------------------
(* Connections and their ends.                                             *)

(* A connection joins two clients: each has one other end.                 *)
LEMMA Pair ==
    ASSUME NEW k \in Conns, NEW c \in k[1]
    PROVE  /\ k[1] \in Links /\ k[1] \subseteq Clients
           /\ Other(k, c) \in k[1] /\ Other(k, c) # c
           /\ k[1] = {c, Other(k, c)}
           /\ Other(k, Other(k, c)) = c
<1> DEFINE l == k[1]
<1>1. l \in Links /\ l \subseteq Clients /\ Cardinality(l) = 2
  BY TorrentAssumption DEF Conns, kSubset
<1> HIDE DEF l
<1>2. IsFiniteSet(l)
  BY <1>1, TorrentAssumption, FS_Subset
<1>3. IsFiniteSet(l \ {c}) /\ Cardinality(l \ {c}) = 1
  <2>1. c \in l
    BY DEF l
  <2>2. /\ IsFiniteSet(l \ {c})
        /\ Cardinality(l \ {c}) = IF c \in l THEN Cardinality(l) - 1 ELSE Cardinality(l)
    BY <1>2, FS_RemoveElement
  <2> QED
    BY <1>1, <2>1, <2>2
<1>4. PICK d : l \ {c} = {d}
  BY <1>3, FS_Singleton
<1>5. d \in l /\ d # c /\ l = {c, d}
  BY <1>4 DEF l
<1>6. Other(k, c) = d
  BY <1>5 DEF Other, l
<1>7. Other(k, d) = c
  BY <1>5 DEF Other, l
<1> QED
  BY <1>1, <1>5, <1>6, <1>7 DEF l

(* f with another value at one end of one connection.                      *)
Put(f, k, c, e) == [f EXCEPT ![k][c] = e]

(* Only that value is another.                                             *)
LEMMA PutEnd ==
    ASSUME NEW T, NEW f, OnEnds(f, T), NEW k \in Conns, NEW c \in k[1], NEW e \in T
    PROVE  /\ OnEnds(Put(f, k, c, e), T) /\ Put(f, k, c, e)[k][c] = e
           /\ \A j \in Conns : \A d \in j[1] :
                j # k \/ d # c => Put(f, k, c, e)[j][d] = f[j][d]
<1> DEFINE g == Put(f, k, c, e)
<1>0. g = [f EXCEPT ![k][c] = e]
  BY DEF Put
<1> HIDE DEF g
<1>1. /\ f = [j \in Conns |-> [d \in j[1] |-> f[j][d]]]
      /\ \A j \in Conns : \A d \in j[1] : f[j][d] \in T
  BY DEF OnEnds
<1>2. DOMAIN f = Conns
  BY <1>1
<1>3. \A j \in Conns : f[j] = [d \in j[1] |-> f[j][d]]
  BY <1>1
<1>4. DOMAIN f[k] = k[1]
  BY <1>3
<1>5. g[k] = [f[k] EXCEPT ![c] = e]
  BY <1>0, <1>2
<1>6. g[k][c] = e /\ \A d \in k[1] : d # c => g[k][d] = f[k][d]
  BY <1>4, <1>5
<1>7. \A j \in Conns : j # k => g[j] = f[j]
  BY <1>0, <1>2
<1>8. \A j \in Conns : \A d \in j[1] : j # k \/ d # c => g[j][d] = f[j][d]
  BY <1>6, <1>7
<1>9. \A j \in Conns : \A d \in j[1] : g[j][d] \in T
  BY <1>1, <1>6, <1>8
<1>10. \A j \in Conns : g[j] = [d \in j[1] |-> g[j][d]]
  <2>1. g[k] = [d \in k[1] |-> g[k][d]]
    BY <1>4, <1>5
  <2> QED
    BY <1>3, <1>7, <2>1
<1>11. g = [j \in Conns |-> g[j]]
  BY <1>0, <1>2
<1>12. g = [j \in Conns |-> [d \in j[1] |-> g[j][d]]]
  BY <1>10, <1>11
<1> QED
  BY <1>6, <1>8, <1>9, <1>12 DEF OnEnds, g

(* Connections are finite, and with them the slots of a client.            *)
LEMMA SlotsFinite ==
    ASSUME NEW c
    PROVE  IsFiniteSet(Slots(c)) /\ Slots(c) \subseteq Conns
<1>1. IsFiniteSet(SUBSET Clients) /\ Links \in SUBSET (SUBSET Clients)
  BY TorrentAssumption, FS_SUBSET DEF kSubset
<1>2. IsFiniteSet(Links) /\ IsFiniteSet(1 .. MaxPerPair)
  <2>1. IsFiniteSet(Links)
    BY <1>1, FS_Subset
  <2>2. MaxPerPair \in Int /\ 1 \in Int
    BY TorrentAssumption
  <2> QED
    BY <2>1, <2>2, FS_Interval
<1>3. IsFiniteSet(Conns)
  BY <1>2, FS_Product DEF Conns
<1>4. Slots(c) \in SUBSET Conns
  BY DEF Slots, ConnsOf
<1> QED
  BY <1>3, <1>4, FS_Subset

(* Part of what is within a bound is within it, and one more than what is  *)
(* below it.                                                               *)
LEMMA OneMore ==
    ASSUME NEW S, IsFiniteSet(S), NEW T, NEW x, NEW n \in Nat,
           \/ T \subseteq S /\ Cardinality(S) <= n
           \/ T \subseteq S \cup {x} /\ Cardinality(S) < n
    PROVE  Cardinality(T) <= n
<1>1. Cardinality(S) \in Nat
  BY FS_CardinalityType
<1>2. CASE T \subseteq S /\ Cardinality(S) <= n
  <2>1. IsFiniteSet(T) /\ Cardinality(T) <= Cardinality(S)
    BY <1>2, FS_Subset
  <2>2. Cardinality(T) \in Nat
    BY <2>1, FS_CardinalityType
  <2> QED
    BY <1>1, <1>2, <2>1, <2>2
<1>3. CASE T \subseteq S \cup {x} /\ Cardinality(S) < n
  <2>1. /\ IsFiniteSet(S \cup {x})
        /\ Cardinality(S \cup {x}) = IF x \in S THEN Cardinality(S) ELSE Cardinality(S) + 1
    BY FS_AddElement
  <2>2. IsFiniteSet(T) /\ Cardinality(T) <= Cardinality(S \cup {x})
    BY <1>3, <2>1, FS_Subset
  <2>3. Cardinality(T) \in Nat
    BY <2>2, FS_CardinalityType
  <2> QED
    BY <1>1, <1>3, <2>1, <2>2, <2>3
<1> QED
  BY <1>2, <1>3

(* Appending keeps what is there and adds one element at the end.          *)
LEMMA AppendElements ==
    ASSUME NEW T, NEW s \in Seq(T), NEW e \in T
    PROVE  /\ Append(s, e) \in Seq(T)
           /\ Len(Append(s, e)) = Len(s) + 1
           /\ \A n \in 1 .. Len(s) : Append(s, e)[n] = s[n]
           /\ Append(s, e)[Len(s) + 1] = e
  OBVIOUS

(* What is left when the first element is taken.                           *)
LEMMA TailElements ==
    ASSUME NEW T, NEW s \in Seq(T), s # <<>>
    PROVE  /\ Tail(s) \in Seq(T)
           /\ 1 \in 1 .. Len(s) /\ Head(s) = s[1] /\ Head(s) \in T
           /\ \A n \in 1 .. Len(Tail(s)) : n + 1 \in 1 .. Len(s) /\ Tail(s)[n] = s[n + 1]
  OBVIOUS

(* Messages fit when both clients have more than before.                   *)
LEMMA FitsMore ==
    ASSUME NEW m, NEW has, NEW has2, NEW reach, NEW reach2, NEW sound \in BOOLEAN,
           has \subseteq has2, reach \subseteq reach2, Fits(m, has, reach, sound)
    PROVE  Fits(m, has2, reach2, sound)
  BY DEF Fits

(* So do all that are on their way, without the first of them ...          *)
LEMMA AllFitMore ==
    ASSUME NEW s \in Seq(Message), NEW has, NEW has2, NEW reach, NEW reach2,
           NEW sound \in BOOLEAN, has \subseteq has2, reach \subseteq reach2,
           AllFit(s, has, reach, sound)
    PROVE  /\ AllFit(s, has2, reach2, sound)
           /\ s # <<>> => AllFit(Tail(s), has2, reach2, sound)
<1>1. AllFit(s, has2, reach2, sound)
  BY FitsMore DEF AllFit
<1>2. ASSUME s # <<>>, NEW n \in 1 .. Len(Tail(s))
      PROVE  Fits(Tail(s)[n], has2, reach2, sound)
  <2>1. n + 1 \in 1 .. Len(s) /\ Tail(s)[n] = s[n + 1]
    BY <1>2, TailElements
  <2> QED
    BY <1>1, <2>1 DEF AllFit
<1> QED
  BY <1>1, <1>2 DEF AllFit

(* ... and with one more that fits.                                        *)
LEMMA AllFitAppend ==
    ASSUME NEW s \in Seq(Message), NEW m \in Message, NEW has, NEW reach,
           NEW sound \in BOOLEAN, AllFit(s, has, reach, sound), Fits(m, has, reach, sound)
    PROVE  AllFit(Append(s, m), has, reach, sound)
<1> DEFINE t == Append(s, m)
<1>1. /\ Len(t) = Len(s) + 1 /\ Len(s) \in Nat
      /\ t[Len(s) + 1] = m /\ \A n \in 1 .. Len(s) : t[n] = s[n]
  BY AppendElements
<1> HIDE DEF t
<1>2. ASSUME NEW n \in 1 .. Len(t)
      PROVE  Fits(t[n], has, reach, sound)
  <2>1. CASE n = Len(s) + 1
    BY <1>1, <2>1
  <2>2. CASE n # Len(s) + 1
    <3>1. n \in 1 .. Len(s)
      BY <1>1, <2>2
    <3> QED
      BY <1>1, <3>1 DEF AllFit
  <2> QED
    BY <2>1, <2>2
<1> QED
  BY <1>2 DEF AllFit, t

-----------------------------------------------------------------------------
(* Steps of a thread that goes on.                                         *)

(* The parts of the invariant.                                             *)
LEMMA Parts ==
    ASSUME IInv
    PROVE  /\ Types
           /\ \A c \in Clients : Holds(c) /\ Cardinality(Slots(c)) <= MAXPEER
           /\ \A k \in Conns : \A c \in k[1] :
                /\ EndWell(k, c) /\ end[k][c] \in End /\ chan[k][c] \in Seq(Message)
                /\ AllFit(chan[k][c], done[c], Reach(k, c), NoneStale)
  BY DEF IInv, Types, OnEnds

(* What a thread may do to what is on its way to d on j: read the first    *)
(* message of its own, and send a message that fits.                       *)
Carried(j, d, k, c) ==
  \/ chan'[j][d] = chan[j][d]
  \/ j = k /\ d = c /\ chan[j][d] # <<>> /\ chan'[j][d] = Tail(chan[j][d])
  \/ /\ end[j][d].pc # "none"
     /\ \E m \in Message : /\ chan'[j][d] = Append(chan[j][d], m)
                           /\ Fits(m, done[d], Reach(j, d), NoneStale)

(* What a thread of c may do to the tables of its client: they grow.       *)
Grows(c) ==
  /\ isSeed' \in [Clients -> -1 .. 2] /\ done' \in [Clients -> SUBSET Pieces]
  /\ disk' \in [Clients -> SUBSET (Pieces \X Blocks)]
  /\ owner' \in [Clients -> [Pieces -> Conns \cup {None}]]
  /\ count' \in [Clients -> [Pieces -> Nat]]
  /\ \A d \in Clients \ {c} : /\ isSeed'[d] = isSeed[d] /\ done'[d] = done[d]
                              /\ disk'[d] = disk[d]
  /\ isSeed'[c] # -1 /\ done[c] \subseteq done'[c]
  /\ isSeed[c] = 2 => isSeed'[c] = 2
  /\ isSeed'[c] = 2 => done'[c] = Pieces
  /\ NoneStale => disk[c] \subseteq disk'[c] /\ done'[c] \X Blocks \subseteq disk'[c]

(* A thread that goes on keeps the invariant when its client's tables grow, *)
(* what it sends fits and what it knows then is so.                        *)
LEMMA ThreadStep ==
    ASSUME IInv, NEW k \in Conns, NEW c \in k[1], NEW e \in End,
           end[k][c].pc \notin {"none", "backlog"}, e.pc \notin {"none", "backlog"},
           end' = Put(end, k, c, e),
           OnEnds(chan', Seq(Message)),
           \A j \in Conns : \A d \in j[1] : Carried(j, d, k, c),
           Grows(c), UNCHANGED <<saved, stale>>,
           e.pc = "show" <=> e.piece # -1,
           Known(e, Reach(k, c)),
           NoneStale => Written(e, disk'[c])
    PROVE  IInv'
<1>1. /\ Types
      /\ \A d \in Clients : Holds(d) /\ Cardinality(Slots(d)) <= MAXPEER
      /\ \A j \in Conns : \A d \in j[1] :
           /\ EndWell(j, d) /\ end[j][d] \in End /\ chan[j][d] \in Seq(Message)
           /\ AllFit(chan[j][d], done[d], Reach(j, d), NoneStale)
  BY Parts
<1>2. c \in Clients /\ Up(c)
  BY <1>1, Pair DEF EndWell
<1>3. /\ OnEnds(end', End) /\ end'[k][c] = e
      /\ \A j \in Conns : \A d \in j[1] : j # k \/ d # c => end'[j][d] = end[j][d]
  <2>1. OnEnds(end, End)
    BY <1>1 DEF Types
  <2>2. /\ OnEnds(Put(end, k, c, e), End) /\ Put(end, k, c, e)[k][c] = e
        /\ \A j \in Conns : \A d \in j[1] :
             j # k \/ d # c => Put(end, k, c, e)[j][d] = end[j][d]
    BY <2>1, PutEnd
  <2> QED
    BY <2>2, Zenon
<1>4. \A j \in Conns : \A d \in j[1] : end'[j][d].pc = "none" <=> end[j][d].pc = "none"
  BY <1>3
<1>5. Types'
  BY <1>1, <1>3 DEF Types, Grows
<1>6. (NoneStale <=> NoneStale') /\ \A d \in Clients : Up(d) => Up(d)'
  BY <1>1 DEF NoneStale, Up, Grows
<1>7. /\ \A d \in Clients : done[d] \subseteq done'[d]
      /\ NoneStale => \A d \in Clients : disk[d] \subseteq disk'[d]
  BY <1>1 DEF Grows
<1>8. \A j \in Conns : \A d \in j[1] : Reach(j, d) \subseteq Reach(j, d)'
  <2> SUFFICES ASSUME NEW j \in Conns, NEW d \in j[1]
               PROVE  Reach(j, d) \subseteq Reach(j, d)'
    OBVIOUS
  <2>1. Other(j, d) \in j[1] /\ Other(j, d) \in Clients
    BY Pair
  <2>2. end'[j][Other(j, d)].pc = "none" <=> end[j][Other(j, d)].pc = "none"
    BY <1>4, <2>1
  <2>3. done[Other(j, d)] \subseteq done'[Other(j, d)]
    BY <1>7, <2>1
  <2> QED
    BY <2>2, <2>3 DEF Reach
<1>9. ASSUME NEW d \in Clients
      PROVE  Holds(d)' /\ Cardinality(Slots(d)') <= MAXPEER
  <2>1. Slots(d)' = Slots(d)
    BY <1>3 DEF Slots, ConnsOf
  <2>2. Cardinality(Slots(d)') <= MAXPEER
    BY <1>1, <2>1
  <2>3. CASE d # c
    BY <1>1, <1>6, <2>2, <2>3 DEF Holds, Grows, Up
  <2>4. CASE d = c
    <3>1. NoneStale' => done'[c] \X Blocks \subseteq disk'[c]
      BY <1>6 DEF Grows
    <3>2. isSeed'[c] = 2 => done'[c] = Pieces
      BY DEF Grows
    <3>3. c \in Seeds => isSeed'[c] \in {-1, 2} /\ done'[c] = Pieces
      BY <1>1, <1>2 DEF Grows, Holds, Up
    <3>4. NoneStale' /\ stale'[c] = "no" /\ saved'[c] # None =>
            saved'[c] \X Blocks \subseteq disk'[c] /\ saved'[c] \subseteq done'[c]
      BY <1>1, <1>2, <1>6, <1>7 DEF Holds
    <3> QED
      BY <2>2, <2>4, <3>1, <3>2, <3>3, <3>4 DEF Holds
  <2> QED
    BY <2>3, <2>4
<1>10. ASSUME NEW j \in Conns, NEW d \in j[1]
       PROVE  EndWell(j, d)'
  <2>1. d \in Clients /\ EndWell(j, d)
    BY <1>1, Pair
  <2>2. CASE j = k /\ d = c
    <3>1. Known(e, Reach(k, c)')
      BY <1>8 DEF Known
    <3>2. Up(c)'
      BY <1>2, <1>6
    <3> QED
      BY <1>3, <1>6, <2>2, <3>1, <3>2 DEF EndWell
  <2>3. CASE j # k \/ d # c
    <3> DEFINE f == end[j][d]
    <3>1. end'[j][d] = f
      BY <1>3, <2>3
    <3>2. f.pc = "none" => chan'[j][d] = <<>>
      BY <2>1, <2>3 DEF Carried, EndWell
    <3>3. Known(f, Reach(j, d))
      BY <2>1 DEF EndWell
    <3>4. Known(f, Reach(j, d)')
      BY <1>8, <3>3 DEF Known
    <3>5. f.pc # "none" => Up(d)'
      BY <1>6, <2>1 DEF EndWell
    <3>6. NoneStale => Written(f, disk[d])
      BY <2>1 DEF EndWell
    <3>7. NoneStale' => Written(f, disk'[d])
      BY <1>6, <1>7, <2>1, <3>6 DEF Written
    <3> QED
      BY <2>1, <3>1, <3>2, <3>4, <3>5, <3>7 DEF EndWell
  <2> QED
    BY <2>2, <2>3
<1>11. ASSUME NEW j \in Conns, NEW d \in j[1]
       PROVE  AllFit(chan'[j][d], done'[d], Reach(j, d)', NoneStale')
  <2>1. /\ d \in Clients /\ chan[j][d] \in Seq(Message)
        /\ AllFit(chan[j][d], done[d], Reach(j, d), NoneStale)
    BY <1>1, Pair
  <2> DEFINE has == done'[d]
             reach == Reach(j, d)'
             sound == NoneStale
  <2>2. /\ done[d] \subseteq has /\ Reach(j, d) \subseteq reach
        /\ (NoneStale' = sound) /\ sound \in BOOLEAN
    BY <1>6, <1>7, <1>8, <2>1 DEF NoneStale
  <2> HIDE DEF has, reach, sound
  <2>3. /\ AllFit(chan[j][d], has, reach, sound)
        /\ chan[j][d] # <<>> => AllFit(Tail(chan[j][d]), has, reach, sound)
    BY <2>1, <2>2, AllFitMore DEF sound
  <2>4. ASSUME NEW m \in Message, chan'[j][d] = Append(chan[j][d], m),
               Fits(m, done[d], Reach(j, d), NoneStale)
        PROVE  AllFit(chan'[j][d], has, reach, sound)
    <3>1. Fits(m, has, reach, sound)
      BY <2>2, <2>4, FitsMore DEF sound
    <3> QED
      BY <2>1, <2>2, <2>3, <2>4, <3>1, AllFitAppend
  <2>5. AllFit(chan'[j][d], has, reach, sound)
    BY <2>3, <2>4 DEF Carried
  <2> QED
    BY <2>2, <2>5 DEF has, reach
<1> QED
  BY <1>5, <1>9, <1>10, <1>11 DEF IInv

(* What is there already may be put there.                                 *)
LEMMA PutSame ==
    ASSUME NEW T, NEW f, OnEnds(f, T), NEW k \in Conns, NEW c \in k[1]
    PROVE  Put(f, k, c, f[k][c]) = f
<1>1. f = [j \in Conns |-> [d \in j[1] |-> f[j][d]]]
  BY DEF OnEnds
<1>2. DOMAIN f = Conns /\ f = [j \in Conns |-> f[j]]
  BY <1>1
<1>3. f[k] = [d \in k[1] |-> f[k][d]]
  BY <1>1
<1>4. [f[k] EXCEPT ![c] = f[k][c]] = f[k]
  BY <1>3
<1> QED
  BY <1>2, <1>4 DEF Put

(* Reading takes the first message.                                        *)
LEMMA ReadEnd ==
    ASSUME Types, NEW k \in Conns, NEW c \in k[1], chan[k][c] # <<>>
    PROVE  /\ OnEnds(Read(k, c), Seq(Message))
           /\ Read(k, c)[k][c] = Tail(chan[k][c])
           /\ \A j \in Conns : \A d \in j[1] :
                j # k \/ d # c => Read(k, c)[j][d] = chan[j][d]
<1>1. OnEnds(chan, Seq(Message)) /\ chan[k][c] \in Seq(Message)
  BY DEF Types, OnEnds
<1> DEFINE t == Tail(chan[k][c])
<1>2. t \in Seq(Message)
  BY <1>1, TailElements
<1>3. Read(k, c) = Put(chan, k, c, t)
  BY DEF Read, Put
<1> HIDE DEF t
<1>4. /\ OnEnds(Put(chan, k, c, t), Seq(Message)) /\ Put(chan, k, c, t)[k][c] = t
      /\ \A j \in Conns : \A d \in j[1] :
           j # k \/ d # c => Put(chan, k, c, t)[j][d] = chan[j][d]
  BY <1>1, <1>2, PutEnd
<1> QED
  BY <1>3, <1>4 DEF t

(* Sending adds a message for the other client, if it is still there.      *)
LEMMA SendEnd ==
    ASSUME NEW ch, OnEnds(ch, Seq(Message)), NEW k \in Conns, NEW c \in k[1],
           NEW m \in Message
    PROVE  /\ OnEnds(Send(ch, k, c, m), Seq(Message))
           /\ \A j \in Conns : \A d \in j[1] :
                \/ Send(ch, k, c, m)[j][d] = ch[j][d]
                \/ /\ j = k /\ d = Other(k, c) /\ end[j][d].pc # "none"
                   /\ Send(ch, k, c, m)[j][d] = Append(ch[j][d], m)
<1> DEFINE o == Other(k, c)
           t == Append(ch[k][o], m)
<1>1. o \in k[1]
  BY Pair
<1> HIDE DEF o
<1>2. ch[k][o] \in Seq(Message)
  BY <1>1 DEF OnEnds
<1>3. t \in Seq(Message)
  BY <1>2, AppendElements
<1>4. CASE end[k][o].pc = "none"
  BY <1>4 DEF Send, o
<1>5. CASE end[k][o].pc # "none"
  <2>1. Send(ch, k, c, m) = Put(ch, k, o, t)
    BY <1>5 DEF Send, Put, o
  <2> HIDE DEF t
  <2>2. /\ OnEnds(Put(ch, k, o, t), Seq(Message)) /\ Put(ch, k, o, t)[k][o] = t
        /\ \A j \in Conns : \A d \in j[1] :
             j # k \/ d # o => Put(ch, k, o, t)[j][d] = ch[j][d]
    BY <1>1, <1>3, PutEnd
  <2>3. ASSUME NEW j \in Conns, NEW d \in j[1], j = k /\ d = o
        PROVE  Put(ch, k, o, t)[j][d] = Append(ch[j][d], m)
    BY <2>2, <2>3 DEF t
  <2> QED
    BY <1>5, <2>1, <2>2, <2>3 DEF o
<1> QED
  BY <1>4, <1>5

(* What a message of c on k must say to fit.                               *)
Honest(m, k, c) ==
  /\ m.type = "bitfield" => m.bits \subseteq done[c]
  /\ m.type = "request" => m.index \in Reach(k, c)
  /\ m.type = "piece" /\ NoneStale => m.good

(* A thread that only reads, or does not read either.                      *)
LEMMA Silent ==
    ASSUME Types, NEW k \in Conns, NEW c \in k[1],
           chan' = chan \/ (chan[k][c] # <<>> /\ chan' = Read(k, c))
    PROVE  /\ OnEnds(chan', Seq(Message))
           /\ \A j \in Conns : \A d \in j[1] : Carried(j, d, k, c)
<1>1. CASE chan' = chan
  BY <1>1 DEF Carried, Types
<1>2. CASE chan[k][c] # <<>> /\ chan' = Read(k, c)
  BY <1>2, ReadEnd DEF Carried
<1> QED
  BY <1>1, <1>2

(* A thread that reads or not and sends an honest message.                 *)
LEMMA Told ==
    ASSUME Types, NEW k \in Conns, NEW c \in k[1], end[k][c].pc # "none",
           NEW ch, ch = chan \/ (chan[k][c] # <<>> /\ ch = Read(k, c)),
           NEW m \in Message, Honest(m, k, c), chan' = Send(ch, k, c, m)
    PROVE  /\ OnEnds(chan', Seq(Message))
           /\ \A j \in Conns : \A d \in j[1] : Carried(j, d, k, c)
<1>1. /\ OnEnds(ch, Seq(Message))
      /\ \A j \in Conns : \A d \in j[1] : j # k \/ d # c => ch[j][d] = chan[j][d]
      /\ \/ ch[k][c] = chan[k][c]
         \/ chan[k][c] # <<>> /\ ch[k][c] = Tail(chan[k][c])
  <2>1. CASE ch = chan
    BY <2>1 DEF Types
  <2>2. CASE chan[k][c] # <<>> /\ ch = Read(k, c)
    BY <2>2, ReadEnd
  <2> QED
    BY <2>1, <2>2
<1>2. /\ OnEnds(chan', Seq(Message))
      /\ \A j \in Conns : \A d \in j[1] :
           \/ chan'[j][d] = ch[j][d]
           \/ /\ j = k /\ d = Other(k, c) /\ end[j][d].pc # "none"
              /\ chan'[j][d] = Append(ch[j][d], m)
  <2>1. OnEnds(ch, Seq(Message))
    BY <1>1
  <2>2. /\ OnEnds(Send(ch, k, c, m), Seq(Message))
        /\ \A j \in Conns : \A d \in j[1] :
             \/ Send(ch, k, c, m)[j][d] = ch[j][d]
             \/ /\ j = k /\ d = Other(k, c) /\ end[j][d].pc # "none"
                /\ Send(ch, k, c, m)[j][d] = Append(ch[j][d], m)
    BY <2>1, SendEnd
  <2> QED
    BY <2>2, Zenon
<1>3. Other(k, c) # c /\ Other(k, Other(k, c)) = c
  BY Pair
<1>4. end[k][Other(k, c)].pc # "none"
        => Fits(m, done[Other(k, c)], Reach(k, Other(k, c)), NoneStale)
  BY <1>3 DEF Honest, Fits, Reach
<1>5. ASSUME NEW j \in Conns, NEW d \in j[1]
      PROVE  Carried(j, d, k, c)
  <2>1. CASE chan'[j][d] = ch[j][d]
    BY <1>1, <2>1 DEF Carried
  <2>2. CASE /\ j = k /\ d = Other(k, c) /\ end[j][d].pc # "none"
             /\ chan'[j][d] = Append(ch[j][d], m)
    BY <1>1, <1>3, <1>4, <2>2 DEF Carried
  <2> QED
    BY <1>2, <2>1, <2>2
<1> QED
  BY <1>2, <1>5

(* A thread of a running client, and what it holds.                        *)
LEMMA Thread ==
    ASSUME IInv, NEW k \in Conns, NEW c \in k[1], end[k][c].pc # "none"
    PROVE  /\ Types /\ OnEnds(end, End) /\ end[k][c] \in End /\ c \in Clients /\ Up(c)
           /\ Holds(c) /\ Known(end[k][c], Reach(k, c))
           /\ (end[k][c].pc = "show" <=> end[k][c].piece # -1)
           /\ NoneStale => Written(end[k][c], disk[c])
           /\ chan[k][c] \in Seq(Message)
           /\ AllFit(chan[k][c], done[c], Reach(k, c), NoneStale)
<1>1. c \in Clients
  BY Pair
<1>2. Types /\ Holds(c) /\ EndWell(k, c)
  BY <1>1 DEF IInv
<1> QED
  BY <1>1, <1>2, Parts DEF EndWell, Types

(* The message it reads fits.                                              *)
LEMMA FirstFits ==
    ASSUME IInv, NEW k \in Conns, NEW c \in k[1], end[k][c].pc # "none",
           chan[k][c] # <<>>
    PROVE  /\ Head(chan[k][c]) \in Message
           /\ Fits(Head(chan[k][c]), done[c], Reach(k, c), NoneStale)
<1>1. chan[k][c] \in Seq(Message) /\ AllFit(chan[k][c], done[c], Reach(k, c), NoneStale)
  BY Thread
<1>2. 1 \in 1 .. Len(chan[k][c]) /\ Head(chan[k][c]) = chan[k][c][1]
      /\ Head(chan[k][c]) \in Message
  BY <1>1, TailElements
<1> QED
  BY <1>1, <1>2 DEF AllFit

(* Tables that stay as they are may be said to grow.                       *)
LEMMA GrowsNot ==
    ASSUME Types, NEW c \in Clients, Up(c), Holds(c),
           UNCHANGED <<isSeed, done, disk>>,
           owner' \in [Clients -> [Pieces -> Conns \cup {None}]],
           count' \in [Clients -> [Pieces -> Nat]]
    PROVE  Grows(c)
  BY DEF Grows, Types, Holds, Up

(* A thread that changes no table keeps the invariant when it stays at the *)
(* same pieces and what it sends fits.                                     *)
LEMMA QuietStep ==
    ASSUME IInv, NEW k \in Conns, NEW c \in k[1], NEW e \in End,
           end[k][c].pc \notin {"none", "backlog"}, e.pc \notin {"none", "backlog"},
           end' = Put(end, k, c, e),
           e.bits = end[k][c].bits, e.req = end[k][c].req, e.save = end[k][c].save,
           e.pc = "show" <=> e.piece # -1,
           OnEnds(chan', Seq(Message)),
           \A j \in Conns : \A d \in j[1] : Carried(j, d, k, c),
           UNCHANGED client
    PROVE  IInv'
<1>1. /\ Types /\ c \in Clients /\ Up(c) /\ Holds(c)
      /\ Known(end[k][c], Reach(k, c))
      /\ NoneStale => Written(end[k][c], disk[c])
  BY Thread
<1>2. /\ UNCHANGED <<isSeed, done, disk>> /\ UNCHANGED <<saved, stale>>
      /\ owner' = owner /\ count' = count
  BY DEF client
<1>3. Grows(c)
  BY <1>1, <1>2, GrowsNot DEF Types
<1>4. Known(e, Reach(k, c)) /\ (NoneStale => Written(e, disk'[c]))
  BY <1>1, <1>2 DEF Known, Written
<1> QED
  BY <1>2, <1>3, <1>4, ThreadStep

-----------------------------------------------------------------------------
(* The steps of a PToP thread.                                             *)

(* What the end of a thread is written over with.                          *)
LEMMA Ends ==
    ASSUME NEW e \in End, NEW pc \in {"hand", "read", "astray", "request", "check"}
    PROVE  /\ [e EXCEPT !.pc = pc] \in End
           /\ [e EXCEPT !.pc = pc, !.piece = -1] \in End
  BY DEF End

(* The thread sends its handshake.                                         *)
LEMMA HandshakeStep ==
    ASSUME IInv, NEW k \in Conns, NEW c \in k[1], Handshake(k, c)
    PROVE  IInv'
<1>1. end[k][c].pc = "slot" /\ end[k][c].pc # "none"
  BY DEF Handshake
<1>2. /\ Types /\ end[k][c] \in End /\ end[k][c].piece = -1
  BY <1>1, Thread
<1> DEFINE e == [end[k][c] EXCEPT !.pc = "hand"]
<1>3. e \in End
  BY <1>2, Ends
<1>4. e.pc = "hand" /\ e.bits = end[k][c].bits /\ e.req = end[k][c].req
      /\ e.save = end[k][c].save /\ e.piece = end[k][c].piece
  BY <1>2 DEF End
<1>5. end' = Put(end, k, c, e)
  BY DEF Handshake, Put
<1> HIDE DEF e
<1> DEFINE m == Msg("hand")
<1>6. m \in Message /\ m.type = "hand"
  BY DEF Message, Msg
<1>7. Honest(m, k, c)
  BY <1>6 DEF Honest
<1>8. chan' = Send(chan, k, c, m) /\ UNCHANGED client
  BY DEF Handshake
<1> HIDE DEF m
<1>9. /\ OnEnds(chan', Seq(Message))
      /\ \A j \in Conns : \A d \in j[1] : Carried(j, d, k, c)
  BY <1>1, <1>2, <1>6, <1>7, <1>8, Told
<1>10. end[k][c].pc \notin {"none", "backlog"} /\ e.pc \notin {"none", "backlog"}
       /\ (e.pc = "show" <=> e.piece # -1)
  BY <1>1, <1>2, <1>4
<1> QED
  BY <1>3, <1>4, <1>5, <1>8, <1>9, <1>10, QuietStep

(* The thread waits for the other handshake; a seed sends its bitfield.    *)
LEMMA GreetStep ==
    ASSUME IInv, NEW k \in Conns, NEW c \in k[1], Greet(k, c)
    PROVE  IInv'
<1>1. /\ end[k][c].pc = "hand" /\ end[k][c].pc # "none" /\ chan[k][c] # <<>>
      /\ UNCHANGED client
  BY DEF Greet
<1>2. /\ Types /\ end[k][c] \in End /\ end[k][c].piece = -1 /\ c \in Clients
  BY <1>1, Thread
<1>3. PICK pc \in {"read", "astray"} : end' = [end EXCEPT ![k][c].pc = pc]
  BY DEF Greet
<1> DEFINE e == [end[k][c] EXCEPT !.pc = pc]
<1>4. e \in End
  BY <1>2, Ends
<1>5. e.pc = pc /\ e.bits = end[k][c].bits /\ e.req = end[k][c].req
      /\ e.save = end[k][c].save /\ e.piece = end[k][c].piece
  BY <1>2 DEF End
<1>6. end' = Put(end, k, c, e)
  BY <1>3 DEF Put
<1> HIDE DEF e
<1> DEFINE m == [type |-> "bitfield", bits |-> done[c]]
<1>7. m \in Message /\ m.type = "bitfield" /\ m.bits = done[c]
  BY <1>2 DEF Message, Types
<1>8. chan' = Read(k, c) \/ chan' = Send(Read(k, c), k, c, m)
  BY DEF Greet, Read
<1> HIDE DEF m
<1>9. Honest(m, k, c)
  BY <1>7 DEF Honest
<1>10. /\ OnEnds(chan', Seq(Message))
       /\ \A j \in Conns : \A d \in j[1] : Carried(j, d, k, c)
  <2>1. CASE chan' = Read(k, c)
    BY <1>1, <1>2, <2>1, Silent
  <2>2. CASE chan' = Send(Read(k, c), k, c, m)
    BY <1>1, <1>2, <1>7, <1>9, <2>2, Told
  <2> QED
    BY <1>8, <2>1, <2>2
<1>11. end[k][c].pc \notin {"none", "backlog"} /\ e.pc \notin {"none", "backlog"}
       /\ (e.pc = "show" <=> e.piece # -1)
  BY <1>1, <1>2, <1>3, <1>5
<1> QED
  BY <1>1, <1>4, <1>5, <1>6, <1>10, <1>11, QuietStep

(* The end of a thread that reads: itself, or at another point.            *)
LEMMA ReadingEnd ==
    ASSUME IInv, NEW k \in Conns, NEW c \in k[1], NEW type, Reading(k, c, type)
    PROVE  /\ end[k][c].pc = "read" /\ end[k][c].pc \notin {"none", "backlog"}
           /\ Types /\ end[k][c] \in End /\ end[k][c].piece = -1 /\ c \in Clients
           /\ Up(c) /\ chan[k][c] # <<>>
           /\ Head(chan[k][c]).type = type /\ Head(chan[k][c]) \in Message
           /\ Fits(Head(chan[k][c]), done[c], Reach(k, c), NoneStale)
           /\ Put(end, k, c, end[k][c]) = end
<1>1. end[k][c].pc = "read" /\ end[k][c].pc \notin {"none", "backlog"}
      /\ chan[k][c] # <<>> /\ Head(chan[k][c]).type = type
  BY DEF Reading
<1>2. /\ Types /\ end[k][c] \in End /\ end[k][c].piece = -1 /\ c \in Clients
      /\ Up(c) /\ OnEnds(end, End)
  BY <1>1, Thread
<1> QED
  BY <1>1, <1>2, FirstFits, PutSame

(* A thread that reads a message, may answer with one, and stays where it  *)
(* is, keeps the invariant.                                                *)
LEMMA AnswerStep ==
    ASSUME IInv, NEW k \in Conns, NEW c \in k[1], NEW type, Reading(k, c, type),
           NEW m \in Message, Honest(m, k, c),
           chan' = Read(k, c) \/ chan' = Send(Read(k, c), k, c, m),
           UNCHANGED <<end, client>>
    PROVE  IInv'
<1>1. /\ end[k][c].pc = "read" /\ end[k][c].pc \notin {"none", "backlog"}
      /\ Types /\ end[k][c] \in End /\ end[k][c].piece = -1
      /\ chan[k][c] # <<>> /\ Put(end, k, c, end[k][c]) = end
  BY ReadingEnd
<1>2. /\ OnEnds(chan', Seq(Message))
      /\ \A j \in Conns : \A d \in j[1] : Carried(j, d, k, c)
  <2>1. CASE chan' = Read(k, c)
    BY <1>1, <2>1, Silent
  <2>2. CASE chan' = Send(Read(k, c), k, c, m)
    BY <1>1, <2>2, Told
  <2> QED
    BY <2>1, <2>2
<1>3. end' = Put(end, k, c, end[k][c])
  BY <1>1
<1> QED
  BY <1>1, <1>2, <1>3, QuietStep

(* Whoever is interested is unchoked.                                      *)
LEMMA OnInterestedStep ==
    ASSUME IInv, NEW k \in Conns, NEW c \in k[1], OnInterested(k, c)
    PROVE  IInv'
<1> DEFINE m == Msg("unchoke")
<1>1. m \in Message /\ Honest(m, k, c)
  BY DEF Message, Msg, Honest
<1>2. /\ Reading(k, c, "interested") /\ UNCHANGED <<end, client>>
      /\ chan' = Send(Read(k, c), k, c, m)
  BY DEF OnInterested
<1> HIDE DEF m
<1> QED
  BY <1>1, <1>2, AnswerStep

(* Interested in a piece that is not here.                                 *)
LEMMA OnHaveStep ==
    ASSUME IInv, NEW k \in Conns, NEW c \in k[1], OnHave(k, c)
    PROVE  IInv'
<1> DEFINE m == Msg("interested")
<1>1. m \in Message /\ Honest(m, k, c)
  BY DEF Message, Msg, Honest
<1>2. /\ Reading(k, c, "have") /\ UNCHANGED <<end, client>>
      /\ chan' = Read(k, c) \/ chan' = Send(Read(k, c), k, c, m)
  BY DEF OnHave
<1> HIDE DEF m
<1> QED
  BY <1>1, <1>2, AnswerStep

(* A block is sent: it is right, because the piece is here.                *)
LEMMA OnRequestStep ==
    ASSUME IInv, NEW k \in Conns, NEW c \in k[1], OnRequest(k, c)
    PROVE  IInv'
<1> DEFINE q == Head(chan[k][c])
           m == [type |-> "piece", index |-> q.index, offset |-> q.offset,
                 good |-> <<q.index, q.offset>> \in disk[c]]
<1>1. /\ Reading(k, c, "request") /\ UNCHANGED <<end, client>>
      /\ chan' = Send(Read(k, c), k, c, m)
  BY DEF OnRequest
<1>2. /\ q.type = "request" /\ q \in Message /\ c \in Clients
      /\ end[k][c].pc # "none"
      /\ Fits(q, done[c], Reach(k, c), NoneStale)
  BY <1>1, ReadingEnd
<1> HIDE DEF q
<1>3. q.index \in done[c]
  BY <1>2 DEF Fits
<1>4. q.index \in Pieces /\ q.offset \in Blocks
  BY <1>2 DEF Message
<1>5. NoneStale => <<q.index, q.offset>> \in disk[c]
  <2>1. Holds(c)
    BY <1>2, Parts
  <2> QED
    BY <1>3, <1>4, <2>1 DEF Holds
<1> DEFINE good == <<q.index, q.offset>> \in disk[c]
<1>6. good \in BOOLEAN /\ m = [type |-> "piece", index |-> q.index, offset |-> q.offset,
                               good |-> good]
  OBVIOUS
<1> HIDE DEF good
<1>7. m \in Message /\ m.type = "piece" /\ m.good = good
  BY <1>4, <1>6 DEF Message
<1>8. Honest(m, k, c)
  BY <1>5, <1>7 DEF Honest, good
<1> HIDE DEF m
<1> QED
  BY <1>1, <1>7, <1>8, AnswerStep

(* A client unchoked goes on to ask.                                       *)
LEMMA OnUnchokeStep ==
    ASSUME IInv, NEW k \in Conns, NEW c \in k[1], OnUnchoke(k, c)
    PROVE  IInv'
<1> DEFINE e == [end[k][c] EXCEPT !.pc = "request"]
<1>1. /\ Reading(k, c, "unchoke") /\ UNCHANGED client /\ chan' = Read(k, c)
      /\ end' = Put(end, k, c, e)
  BY DEF OnUnchoke, Put
<1>2. /\ end[k][c].pc = "read" /\ end[k][c].pc \notin {"none", "backlog"}
      /\ Types /\ end[k][c] \in End /\ end[k][c].piece = -1
      /\ chan[k][c] # <<>>
  BY <1>1, ReadingEnd
<1>3. e \in End
  BY <1>2, Ends
<1>4. e.pc = "request" /\ e.bits = end[k][c].bits /\ e.req = end[k][c].req
      /\ e.save = end[k][c].save /\ e.piece = end[k][c].piece
  BY <1>2 DEF End
<1> HIDE DEF e
<1>5. /\ OnEnds(chan', Seq(Message))
      /\ \A j \in Conns : \A d \in j[1] : Carried(j, d, k, c)
  BY <1>1, <1>2, Silent
<1>6. e.pc \notin {"none", "backlog"} /\ (e.pc = "show" <=> e.piece # -1)
  BY <1>2, <1>4
<1> QED
  BY <1>1, <1>2, <1>3, <1>4, <1>5, <1>6, QuietStep

(* A side that is given up takes nothing with it but what is on its way.   *)
LEMMA HangupStep ==
    ASSUME IInv, NEW k \in Conns, NEW c \in k[1], Hangup(k, c), UNCHANGED client
    PROVE  IInv'
<1>1. /\ Types
      /\ \A d \in Clients : Holds(d) /\ Cardinality(Slots(d)) <= MAXPEER
      /\ \A j \in Conns : \A d \in j[1] :
           /\ EndWell(j, d) /\ end[j][d] \in End /\ chan[j][d] \in Seq(Message)
           /\ AllFit(chan[j][d], done[d], Reach(j, d), NoneStale)
  BY Parts
<1> DEFINE none == NoEnd
<1>2. none \in End /\ none.pc = "none" /\ none.piece = -1 /\ none.bits = {}
      /\ none.req = Nothing /\ none.save = Nothing
  BY DEF NoEnd, End, State
<1>3. end' = Put(end, k, c, none) /\ chan' = Put(chan, k, c, <<>>)
  BY DEF Hangup, Put
<1> HIDE DEF none
<1>4. /\ OnEnds(end', End) /\ end'[k][c] = none
      /\ \A j \in Conns : \A d \in j[1] : j # k \/ d # c => end'[j][d] = end[j][d]
  <2>1. OnEnds(end, End)
    BY <1>1 DEF Types
  <2>2. /\ OnEnds(Put(end, k, c, none), End) /\ Put(end, k, c, none)[k][c] = none
        /\ \A j \in Conns : \A d \in j[1] :
             j # k \/ d # c => Put(end, k, c, none)[j][d] = end[j][d]
    BY <1>2, <2>1, PutEnd
  <2> QED
    BY <1>3, <2>2, Zenon
<1>5. /\ OnEnds(chan', Seq(Message)) /\ chan'[k][c] = <<>>
      /\ \A j \in Conns : \A d \in j[1] : j # k \/ d # c => chan'[j][d] = chan[j][d]
  <2>1. OnEnds(chan, Seq(Message))
    BY <1>1 DEF Types
  <2> DEFINE empty == <<>>
  <2>2. empty \in Seq(Message)
    OBVIOUS
  <2> HIDE DEF empty
  <2>3. /\ OnEnds(Put(chan, k, c, empty), Seq(Message)) /\ Put(chan, k, c, empty)[k][c] = empty
        /\ \A j \in Conns : \A d \in j[1] :
             j # k \/ d # c => Put(chan, k, c, empty)[j][d] = chan[j][d]
    BY <2>1, <2>2, PutEnd
  <2>4. chan' = Put(chan, k, c, empty)
    BY <1>3 DEF empty
  <2>5. /\ OnEnds(chan', Seq(Message)) /\ chan'[k][c] = empty
        /\ \A j \in Conns : \A d \in j[1] : j # k \/ d # c => chan'[j][d] = chan[j][d]
    BY <2>3, <2>4, Zenon
  <2> QED
    BY <2>5 DEF empty
<1>6. UNCHANGED <<isSeed, done, disk, owner, count, saved, stale>>
  BY DEF client
<1>7. Types'
  BY <1>1, <1>4, <1>5, <1>6 DEF Types
<1>8. (NoneStale' = NoneStale) /\ \A d \in Clients : Up(d)' = Up(d) /\ Holds(d)' = Holds(d)
  BY <1>6 DEF NoneStale, Up, Holds
<1>9. ASSUME NEW d \in Clients
      PROVE  Cardinality(Slots(d)') <= MAXPEER
  <2>1. Slots(d)' \subseteq Slots(d)
    BY <1>2, <1>4 DEF Slots, ConnsOf
  <2>2. IsFiniteSet(Slots(d)) /\ MAXPEER \in Nat
    BY SlotsFinite, TorrentAssumption
  <2> DEFINE S == Slots(d)
             T == Slots(d)'
  <2>3. T \subseteq S /\ IsFiniteSet(S) /\ Cardinality(S) <= MAXPEER
    BY <1>1, <2>1, <2>2
  <2> HIDE DEF S, T
  <2>4. Cardinality(T) <= MAXPEER
    BY <2>2, <2>3, OneMore
  <2> QED
    BY <2>4 DEF T
<1>10. ASSUME NEW j \in Conns, NEW d \in j[1]
       PROVE  Reach(j, d) \subseteq Reach(j, d)'
  <2>1. Other(j, d) \in j[1] /\ Other(j, d) \in Clients
    BY Pair
  <2>2. done[Other(j, d)] \subseteq Pieces
    BY <1>1, <2>1 DEF Types
  <2>3. CASE j = k /\ Other(j, d) = c
    BY <1>2, <1>4, <2>2, <2>3 DEF Reach
  <2>4. CASE j # k \/ Other(j, d) # c
    BY <1>4, <1>6, <2>1, <2>4 DEF Reach
  <2> QED
    BY <2>3, <2>4
<1>11. ASSUME NEW j \in Conns, NEW d \in j[1]
       PROVE  /\ EndWell(j, d)'
              /\ AllFit(chan'[j][d], done'[d], Reach(j, d)', NoneStale')
  <2>1. /\ d \in Clients /\ EndWell(j, d) /\ Reach(j, d) \subseteq Reach(j, d)'
        /\ chan[j][d] \in Seq(Message)
        /\ AllFit(chan[j][d], done[d], Reach(j, d), NoneStale)
    BY <1>1, <1>10, Pair
  <2>2. CASE j = k /\ d = c
    <3>1. end'[j][d] = none /\ chan'[j][d] = <<>>
      BY <1>4, <1>5, <2>2
    <3>2. AllFit(chan'[j][d], done'[d], Reach(j, d)', NoneStale')
      BY <3>1 DEF AllFit
    <3>3. EndWell(j, d)'
      BY <1>2, <3>1 DEF EndWell, Known, Written, none
    <3> QED
      BY <3>2, <3>3
  <2>3. CASE j # k \/ d # c
    <3> DEFINE f == end[j][d]
    <3>1. end'[j][d] = f /\ chan'[j][d] = chan[j][d]
      BY <1>4, <1>5, <2>3
    <3>2. Known(f, Reach(j, d)')
      BY <2>1 DEF EndWell, Known
    <3>3. EndWell(j, d)'
      BY <1>6, <1>8, <2>1, <3>1, <3>2 DEF EndWell
    <3> DEFINE has == done[d]
               reach == Reach(j, d)'
               sound == NoneStale
    <3>4. sound \in BOOLEAN /\ has \subseteq has
      BY DEF NoneStale
    <3>5. Reach(j, d) \subseteq reach /\ AllFit(chan[j][d], has, Reach(j, d), sound)
      BY <2>1
    <3> HIDE DEF has, reach, sound
    <3>6. AllFit(chan[j][d], has, reach, sound)
      BY <2>1, <3>4, <3>5, AllFitMore
    <3>7. AllFit(chan'[j][d], done'[d], Reach(j, d)', NoneStale')
      BY <1>6, <1>8, <3>1, <3>6 DEF has, reach, sound
    <3> QED
      BY <3>3, <3>7
  <2> QED
    BY <2>2, <2>3
<1> QED
  BY <1>1, <1>7, <1>8, <1>9, <1>11 DEF IInv

(* The peer has closed its side.                                           *)
LEMMA PeerGoneStep ==
    ASSUME IInv, NEW k \in Conns, NEW c \in k[1], PeerGone(k, c)
    PROVE  IInv'
<1>1. Hangup(k, c) /\ UNCHANGED client
  BY DEF PeerGone
<1> QED
  BY <1>1, HangupStep

(* The cases of a bitfield.                                                *)
LEMMA BitfieldCases ==
    ASSUME NEW k, NEW c, OnBitfield(k, c)
    PROVE  /\ Reading(k, c, "bitfield")
           /\ UNCHANGED <<isSeed, done, disk, owner, saved, stale, stops>>
           /\ \/ Hangup(k, c) /\ UNCHANGED count
              \/ /\ end' = [end EXCEPT ![k][c].bits = Head(chan[k][c]).bits]
                 /\ \/ chan' = Read(k, c) /\ UNCHANGED count
                    \/ /\ chan' = Send(Read(k, c), k, c, Msg("interested"))
                       /\ count' = [count EXCEPT ![c] = [i \in Pieces |->
                              IF i \in Head(chan[k][c]).bits THEN count[c][i] + 1
                              ELSE count[c][i]]]
<1> DEFINE bits == Head(chan[k][c]).bits
<1>1. CASE isSeed[c] = 2 /\ bits = done[c]
  BY <1>1 DEF OnBitfield
<1>2. CASE ~(isSeed[c] = 2 /\ bits = done[c]) /\ (isSeed[c] = 2 \/ bits = done[c])
  BY <1>2 DEF OnBitfield
<1>3. CASE ~(isSeed[c] = 2 \/ bits = done[c])
  BY <1>3 DEF OnBitfield
<1> QED
  BY <1>1, <1>2, <1>3

(* The pieces of the other client are noted, and it has them.              *)
LEMMA OnBitfieldStep ==
    ASSUME IInv, NEW k \in Conns, NEW c \in k[1], OnBitfield(k, c)
    PROVE  IInv'
<1> DEFINE q == Head(chan[k][c])
           e == [end[k][c] EXCEPT !.bits = q.bits]
           m == Msg("interested")
<1>1. Reading(k, c, "bitfield")
  BY BitfieldCases
<1>2. /\ end[k][c].pc = "read" /\ end[k][c].pc \notin {"none", "backlog"}
      /\ end[k][c].pc # "none"
      /\ Types /\ end[k][c] \in End /\ end[k][c].piece = -1 /\ c \in Clients /\ Up(c)
      /\ chan[k][c] # <<>> /\ q.type = "bitfield" /\ q \in Message
      /\ Fits(q, done[c], Reach(k, c), NoneStale)
  BY <1>1, ReadingEnd
<1>3. q.bits \in SUBSET Pieces /\ q.bits \subseteq Reach(k, c)
  BY <1>2 DEF Message, Fits
<1> HIDE DEF q
<1>4. Hangup(k, c) /\ UNCHANGED count => IInv'
  <2>1. UNCHANGED count => UNCHANGED client
    BY BitfieldCases DEF client
  <2> QED
    BY <2>1, HangupStep
<1>5. ASSUME end' = [end EXCEPT ![k][c].bits = q.bits],
             \/ chan' = Read(k, c) /\ UNCHANGED count
             \/ /\ chan' = Send(Read(k, c), k, c, m)
                /\ count' = [count EXCEPT ![c] = [i \in Pieces |->
                       IF i \in q.bits THEN count[c][i] + 1 ELSE count[c][i]]]
      PROVE  IInv'
  <2>1. /\ Holds(c) /\ Known(end[k][c], Reach(k, c))
        /\ NoneStale => Written(end[k][c], disk[c])
    BY <1>2, Thread
  <2>2. /\ UNCHANGED <<isSeed, done, disk>> /\ UNCHANGED <<saved, stale>>
        /\ owner' = owner
    BY BitfieldCases
  <2>3. count' \in [Clients -> [Pieces -> Nat]]
    <3>1. count \in [Clients -> [Pieces -> Nat]]
      BY <1>2 DEF Types
    <3>2. count[c] \in [Pieces -> Nat]
      BY <1>2, <3>1
    <3> DEFINE row == [i \in Pieces |->
                         IF i \in q.bits THEN count[c][i] + 1 ELSE count[c][i]]
    <3>3. row \in [Pieces -> Nat]
      BY <3>2
    <3>4. count' = count \/ count' = [count EXCEPT ![c] = row]
      BY <1>5
    <3> HIDE DEF row
    <3> QED
      BY <1>2, <3>1, <3>3, <3>4
  <2>4. Grows(c)
    BY <1>2, <2>1, <2>2, <2>3, GrowsNot DEF Types
  <2>5. e \in End
    BY <1>2, <1>3 DEF End
  <2>6. e.pc = "read" /\ e.piece = -1 /\ e.bits = q.bits /\ e.req = end[k][c].req
        /\ e.save = end[k][c].save
    BY <1>2 DEF End
  <2>7. end' = Put(end, k, c, e)
    BY <1>5 DEF Put
  <2> HIDE DEF e
  <2>8. m \in Message /\ Honest(m, k, c)
    BY DEF Message, Msg, Honest
  <2>9. chan' = Read(k, c) \/ chan' = Send(Read(k, c), k, c, m)
    BY <1>5
  <2> HIDE DEF m
  <2>10. /\ OnEnds(chan', Seq(Message))
         /\ \A j \in Conns : \A d \in j[1] : Carried(j, d, k, c)
    <3>1. CASE chan' = Read(k, c)
      BY <1>2, <3>1, Silent
    <3>2. CASE chan' = Send(Read(k, c), k, c, m)
      BY <1>2, <2>8, <3>2, Told
    <3> QED
      BY <2>9, <3>1, <3>2
  <2>11. Known(e, Reach(k, c)) /\ (NoneStale => Written(e, disk'[c]))
    BY <1>3, <2>1, <2>2, <2>6 DEF Known, Written
  <2>12. e.pc \notin {"none", "backlog"} /\ (e.pc = "show" <=> e.piece # -1)
    BY <2>6
  <2> QED
    BY <1>2, <2>2, <2>4, <2>5, <2>7, <2>10, <2>11, <2>12, ThreadStep
<1> QED
  BY <1>4, <1>5, BitfieldCases DEF q

(* Every peer is told of the piece.                                        *)
LEMMA ShowStep ==
    ASSUME IInv, NEW k \in Conns, NEW c \in k[1], Show(k, c)
    PROVE  IInv'
<1> DEFINE e == [end[k][c] EXCEPT !.pc = "check", !.piece = -1]
           m == [type |-> "have", index |-> end[k][c].piece]
<1>1. /\ end[k][c].pc = "show" /\ end[k][c].pc # "none"
      /\ end[k][c].pc \notin {"none", "backlog"} /\ UNCHANGED client
      /\ end' = Put(end, k, c, e)
      /\ chan' = [j \in Conns |-> IF j \in Slots(c) THEN Send(chan, j, c, m)[j]
                                  ELSE chan[j]]
  BY DEF Show, Put
<1>2. /\ Types /\ end[k][c] \in End /\ end[k][c].piece # -1 /\ OnEnds(chan, Seq(Message))
  BY <1>1, Thread DEF Types
<1>3. e \in End
  BY <1>2, Ends
<1>4. e.pc = "check" /\ e.piece = -1 /\ e.bits = end[k][c].bits
      /\ e.req = end[k][c].req /\ e.save = end[k][c].save
  BY <1>2 DEF End
<1>5. m \in Message /\ m.type = "have"
  BY <1>2 DEF Message, End
<1> HIDE DEF e, m
<1>6. ASSUME NEW j \in Conns, j \in Slots(c)
      PROVE  /\ c \in j[1] /\ OnEnds(Send(chan, j, c, m), Seq(Message))
             /\ chan'[j] = Send(chan, j, c, m)[j]
             /\ \A d \in j[1] :
                  \/ chan'[j][d] = chan[j][d]
                  \/ end[j][d].pc # "none" /\ chan'[j][d] = Append(chan[j][d], m)
  <2>1. c \in j[1]
    BY <1>6 DEF Slots, ConnsOf
  <2>2. /\ OnEnds(Send(chan, j, c, m), Seq(Message))
        /\ \A d \in j[1] :
             \/ Send(chan, j, c, m)[j][d] = chan[j][d]
             \/ /\ end[j][d].pc # "none"
                /\ Send(chan, j, c, m)[j][d] = Append(chan[j][d], m)
    BY <1>2, <1>5, <2>1, SendEnd
  <2>3. chan'[j] = Send(chan, j, c, m)[j]
    BY <1>1, <1>6
  <2> QED
    BY <2>1, <2>2, <2>3
<1>7. ASSUME NEW j \in Conns
      PROVE  /\ chan'[j] = [d \in j[1] |-> chan'[j][d]]
             /\ \A d \in j[1] : chan'[j][d] \in Seq(Message) /\ Carried(j, d, k, c)
  <2>1. CASE j \in Slots(c)
    <3>1. /\ OnEnds(Send(chan, j, c, m), Seq(Message))
          /\ chan'[j] = Send(chan, j, c, m)[j]
          /\ \A d \in j[1] :
               \/ chan'[j][d] = chan[j][d]
               \/ end[j][d].pc # "none" /\ chan'[j][d] = Append(chan[j][d], m)
      BY <1>6, <2>1
    <3>2. /\ chan'[j] = [d \in j[1] |-> chan'[j][d]]
          /\ \A d \in j[1] : chan'[j][d] \in Seq(Message)
      BY <3>1 DEF OnEnds
    <3>3. ASSUME NEW d \in j[1]
          PROVE  Carried(j, d, k, c)
      <4>1. Fits(m, done[d], Reach(j, d), NoneStale)
        BY <1>5 DEF Fits
      <4> QED
        BY <1>5, <3>1, <4>1 DEF Carried
    <3> QED
      BY <3>2, <3>3
  <2>2. CASE j \notin Slots(c)
    <3>1. chan'[j] = chan[j]
      BY <1>1, <2>2
    <3>2. chan[j] = [d \in j[1] |-> chan[j][d]] /\ \A d \in j[1] : chan[j][d] \in Seq(Message)
      BY <1>2 DEF OnEnds
    <3> QED
      BY <3>1, <3>2 DEF Carried
  <2> QED
    BY <2>1, <2>2
<1>8. OnEnds(chan', Seq(Message))
  <2>1. chan' = [j \in Conns |-> chan'[j]]
    BY <1>1
  <2>2. chan' = [j \in Conns |-> [d \in j[1] |-> chan'[j][d]]]
    BY <1>7, <2>1
  <2> QED
    BY <1>7, <2>2 DEF OnEnds
<1>9. e.pc \notin {"none", "backlog"} /\ (e.pc = "show" <=> e.piece # -1)
  BY <1>4
<1> QED
  BY <1>1, <1>3, <1>4, <1>7, <1>8, <1>9, QuietStep

(* The end of a thread that has saved a block, or has not.                 *)
Saving(e, pc, save, piece) == [e EXCEPT !.pc = pc, !.save = save, !.piece = piece]

Fields(f, k, c, pc, save, piece) ==
  [f EXCEPT ![k][c].pc = pc, ![k][c].save = save, ![k][c].piece = piece]

(* Its fields are written one after the other.                             *)
LEMMA PutFields ==
    ASSUME NEW k \in Conns, NEW c \in k[1], NEW f, OnEnds(f, End),
           NEW pc, NEW save, NEW piece
    PROVE  Fields(f, k, c, pc, save, piece)
             = Put(f, k, c, Saving(f[k][c], pc, save, piece))
<1>1. DOMAIN f = Conns /\ DOMAIN f[k] = k[1]
  <2>1. f = [j \in Conns |-> [d \in j[1] |-> f[j][d]]]
    BY DEF OnEnds
  <2> QED
    BY <2>1
<1> QED
  BY <1>1 DEF Put, Saving, Fields

(* Where savePiece takes the connection to be.                             *)
At(m, s) == IF m.offset = 0 THEN [index |-> m.index, offset |-> 0] ELSE s

(* The cases of a block.                                                   *)
LEMMA PieceCases ==
    ASSUME NEW k \in Conns, NEW c \in k[1], OnEnds(end, End), OnPiece(k, c),
           NEW m, m = Head(chan[k][c]), NEW s, s = end[k][c].save
    PROVE  /\ Reading(k, c, "piece") /\ chan' = Read(k, c)
           /\ UNCHANGED <<isSeed, count, saved, stale>>
           /\ \/ /\ isSeed[c] = 2 \/ At(m, s).index < 0
                 /\ UNCHANGED <<disk, done, owner>>
                 /\ end' = Put(end, k, c, Saving(end[k][c], "request", s, -1))
              \/ /\ isSeed[c] # 2 /\ At(m, s) = [index |-> m.index, offset |-> m.offset]
                 /\ disk' = [disk EXCEPT ![c] = IF m.good THEN @ \cup {<<m.index, m.offset>>}
                                                ELSE @ \ {<<m.index, m.offset>>}]
                 /\ UNCHANGED owner
                 /\ \/ /\ IsLast(m.offset)
                       /\ done' = [done EXCEPT ![c] = @ \cup {m.index}]
                       /\ end' = Put(end, k, c, Saving(end[k][c], "show", Nothing, m.index))
                    \/ /\ ~IsLast(m.offset) /\ UNCHANGED done
                       /\ end' = Put(end, k, c, Saving(end[k][c], "request",
                                        [At(m, s) EXCEPT !.offset = @ + 1], -1))
              \/ /\ isSeed[c] # 2 /\ At(m, s) # [index |-> m.index, offset |-> m.offset]
                 /\ UNCHANGED <<disk, done>>
                 /\ \/ /\ owner' = [owner EXCEPT ![c][m.index] = None]
                       /\ end' = Put(end, k, c, Saving(end[k][c], "request", Nothing, -1))
                    \/ /\ UNCHANGED owner
                       /\ end' = Put(end, k, c, Saving(end[k][c], "request", At(m, s), -1))
<1> DEFINE go(pc, save) == end' = [end EXCEPT ![k][c].pc = pc, ![k][c].save = save,
                                   ![k][c].piece = IF pc = "show" THEN m.index ELSE -1]
<1>1. /\ Reading(k, c, "piece") /\ chan' = Read(k, c)
      /\ UNCHANGED <<isSeed, count, saved, stale>>
      /\ \/ /\ isSeed[c] = 2 \/ At(m, s).index < 0
            /\ UNCHANGED <<disk, done, owner>> /\ go("request", s)
         \/ /\ isSeed[c] # 2 /\ At(m, s) = [index |-> m.index, offset |-> m.offset]
            /\ disk' = [disk EXCEPT ![c] = IF m.good THEN @ \cup {<<m.index, m.offset>>}
                                           ELSE @ \ {<<m.index, m.offset>>}]
            /\ done' = IF IsLast(m.offset) THEN [done EXCEPT ![c] = @ \cup {m.index}]
                       ELSE done
            /\ IF IsLast(m.offset) THEN go("show", Nothing)
               ELSE go("request", [At(m, s) EXCEPT !.offset = @ + 1])
            /\ UNCHANGED owner
         \/ /\ isSeed[c] # 2 /\ At(m, s) # [index |-> m.index, offset |-> m.offset]
            /\ IF At(m, s).index = m.index
               THEN owner' = [owner EXCEPT ![c][m.index] = None] /\ go("request", Nothing)
               ELSE UNCHANGED owner /\ go("request", At(m, s))
            /\ UNCHANGED <<disk, done>>
  BY Zenon DEF OnPiece, At
<1>2. /\ \A save : go("request", save)
           => end' = Put(end, k, c, Saving(end[k][c], "request", save, -1))
      /\ \A save : go("show", save)
           => end' = Put(end, k, c, Saving(end[k][c], "show", save, m.index))
  <2>1. ASSUME NEW save, go("request", save)
        PROVE  end' = Put(end, k, c, Saving(end[k][c], "request", save, -1))
    <3>1. end' = Fields(end, k, c, "request", save, -1)
      BY <2>1 DEF Fields
    <3> HIDE DEF go
    <3>2. Fields(end, k, c, "request", save, -1)
            = Put(end, k, c, Saving(end[k][c], "request", save, -1))
      BY PutFields, Zenon
    <3> QED
      BY <3>1, <3>2, Zenon
  <2>2. ASSUME NEW save, go("show", save)
        PROVE  end' = Put(end, k, c, Saving(end[k][c], "show", save, m.index))
    <3>1. end' = Fields(end, k, c, "show", save, m.index)
      BY <2>2 DEF Fields
    <3> HIDE DEF go
    <3>2. Fields(end, k, c, "show", save, m.index)
            = Put(end, k, c, Saving(end[k][c], "show", save, m.index))
      BY PutFields, Zenon
    <3> QED
      BY <3>1, <3>2, Zenon
  <2> HIDE DEF go
  <2> QED
    BY <2>1, <2>2
<1> HIDE DEF go
<1> QED
  BY <1>1, <1>2

(* The written end.                                                        *)
LEMMA SavingEnd ==
    ASSUME NEW e \in End, NEW pc \in {"request", "show"}, NEW save \in State,
           NEW piece \in Pieces \cup {-1}
    PROVE  /\ Saving(e, pc, save, piece) \in End
           /\ Saving(e, pc, save, piece).pc = pc
           /\ Saving(e, pc, save, piece).save = save
           /\ Saving(e, pc, save, piece).piece = piece
           /\ Saving(e, pc, save, piece).bits = e.bits
           /\ Saving(e, pc, save, piece).req = e.req
  BY DEF End, Saving

(* A block saved behind those before it.                                   *)
LEMMA WrittenMore ==
    ASSUME NEW m, m.index \in Pieces, m.offset \in Blocks, NEW s \in State,
           NEW blocks, s # Nothing => \A b \in 0 .. s.offset - 1 : <<s.index, b>> \in blocks,
           At(m, s) = [index |-> m.index, offset |-> m.offset],
           NEW b \in 0 .. m.offset
    PROVE  <<m.index, b>> \in blocks \cup {<<m.index, m.offset>>}
<1>1. m.offset \in Nat /\ m.index \in Nat /\ b \in Nat /\ b <= m.offset
  BY DEF Pieces, Blocks
<1>2. CASE b = m.offset
  BY <1>2
<1>3. CASE b # m.offset
  <2>1. m.offset # 0
    BY <1>1, <1>3
  <2>2. s = [index |-> m.index, offset |-> m.offset]
    BY <2>1 DEF At
  <2>3. s.index = m.index /\ s.offset = m.offset
    BY <2>2
  <2>4. s # Nothing
    BY <1>1, <2>1, <2>2 DEF Nothing
  <2>5. b \in 0 .. m.offset - 1
    BY <1>1, <1>3
  <2> QED
    BY <2>3, <2>4, <2>5
<1> QED
  BY <1>2, <1>3

(* What savePiece writes is what it is at, and the last block makes the    *)
(* piece whole.                                                            *)
LEMMA OnPieceStep ==
    ASSUME IInv, NEW k \in Conns, NEW c \in k[1], OnPiece(k, c)
    PROVE  IInv'
<1> DEFINE m == Head(chan[k][c])
           s == end[k][c].save
           old == end[k][c]
<1>1. /\ end[k][c].pc = "read" /\ end[k][c].pc \notin {"none", "backlog"}
      /\ end[k][c].pc # "none"
      /\ Types /\ old \in End /\ c \in Clients /\ Up(c)
      /\ chan[k][c] # <<>> /\ m.type = "piece" /\ m \in Message
      /\ Fits(m, done[c], Reach(k, c), NoneStale)
  <2>1. Reading(k, c, "piece")
    BY DEF OnPiece
  <2> QED
    BY <2>1, ReadingEnd
<1>2. /\ OnEnds(end, End) /\ Holds(c) /\ Known(old, Reach(k, c))
      /\ NoneStale => Written(old, disk[c])
  BY <1>1, Thread
<1>3. /\ m.index \in Pieces /\ m.offset \in Blocks /\ m.good \in BOOLEAN
      /\ NoneStale => m.good
  BY <1>1 DEF Message, Fits
<1>4. s \in State /\ Nothing \in State
  BY <1>1 DEF End, State
<1>5. /\ chan' = Read(k, c) /\ UNCHANGED <<isSeed, count, saved, stale>>
      /\ \/ /\ UNCHANGED <<disk, done, owner>>
            /\ end' = Put(end, k, c, Saving(old, "request", s, -1))
         \/ /\ isSeed[c] # 2 /\ At(m, s) = [index |-> m.index, offset |-> m.offset]
            /\ disk' = [disk EXCEPT ![c] = IF m.good THEN @ \cup {<<m.index, m.offset>>}
                                           ELSE @ \ {<<m.index, m.offset>>}]
            /\ UNCHANGED owner
            /\ \/ /\ IsLast(m.offset)
                  /\ done' = [done EXCEPT ![c] = @ \cup {m.index}]
                  /\ end' = Put(end, k, c, Saving(old, "show", Nothing, m.index))
               \/ /\ ~IsLast(m.offset) /\ UNCHANGED done
                  /\ end' = Put(end, k, c, Saving(old, "request",
                                   [At(m, s) EXCEPT !.offset = @ + 1], -1))
         \/ /\ isSeed[c] # 2 /\ At(m, s) # [index |-> m.index, offset |-> m.offset]
            /\ UNCHANGED <<disk, done>>
            /\ \/ /\ owner' = [owner EXCEPT ![c][m.index] = None]
                  /\ end' = Put(end, k, c, Saving(old, "request", Nothing, -1))
               \/ /\ UNCHANGED owner
                  /\ end' = Put(end, k, c, Saving(old, "request", At(m, s), -1))
  BY <1>2, PieceCases
<1>6. /\ OnEnds(chan', Seq(Message))
      /\ \A j \in Conns : \A d \in j[1] : Carried(j, d, k, c)
  BY <1>1, <1>5, Silent
<1>7. NoneStale /\ s # Nothing => \A b \in 0 .. s.offset - 1 : <<s.index, b>> \in disk[c]
  BY <1>2 DEF Written
<1> HIDE DEF m, s, old
<1>8. owner \in [Clients -> [Pieces -> Conns \cup {None}]]
      /\ count' \in [Clients -> [Pieces -> Nat]]
      /\ done \in [Clients -> SUBSET Pieces]
      /\ disk \in [Clients -> SUBSET (Pieces \X Blocks)]
      /\ isSeed \in [Clients -> -1 .. 2]
  BY <1>1, <1>5 DEF Types
<1>9. owner' = owner \/ owner' = [owner EXCEPT ![c][m.index] = None]
        => owner' \in [Clients -> [Pieces -> Conns \cup {None}]]
  <2>1. owner[c] \in [Pieces -> Conns \cup {None}]
    BY <1>1, <1>8
  <2> DEFINE row == [owner[c] EXCEPT ![m.index] = None]
  <2>2. row \in [Pieces -> Conns \cup {None}]
    BY <2>1
  <2>3. ASSUME owner' = [owner EXCEPT ![c][m.index] = None]
        PROVE  owner' = [owner EXCEPT ![c] = row]
    BY <2>3
  <2> HIDE DEF row
  <2>4. [owner EXCEPT ![c] = row] \in [Clients -> [Pieces -> Conns \cup {None}]]
    BY <1>1, <1>8, <2>2
  <2> QED
    BY <1>8, <2>3, <2>4
<1>10. ASSUME NEW save \in State, UNCHANGED <<disk, done>>,
              owner' = owner \/ owner' = [owner EXCEPT ![c][m.index] = None],
              end' = Put(end, k, c, Saving(old, "request", save, -1)),
              save = s \/ save = Nothing
       PROVE  IInv'
  <2> DEFINE e == Saving(old, "request", save, -1)
  <2>1. /\ e \in End /\ e.pc = "request" /\ e.save = save /\ e.piece = -1
        /\ e.bits = old.bits /\ e.req = old.req
    BY <1>1, <1>10, SavingEnd
  <2>2. end' = Put(end, k, c, e)
    BY <1>10
  <2> HIDE DEF e
  <2>3. Grows(c)
    BY <1>1, <1>2, <1>5, <1>8, <1>9, <1>10, GrowsNot
  <2>4. Known(e, Reach(k, c))
    BY <1>2, <2>1 DEF Known
  <2>5. NoneStale => Written(e, disk'[c])
    BY <1>7, <1>10, <2>1 DEF Written
  <2>6. e.pc \notin {"none", "backlog"} /\ (e.pc = "show" <=> e.piece # -1)
    BY <2>1
  <2>7. UNCHANGED <<saved, stale>>
    BY <1>5
  <2> QED
    BY <1>1, <1>6, <2>1, <2>2, <2>3, <2>4, <2>5, <2>6, <2>7, ThreadStep
<1>11. ASSUME isSeed[c] # 2, At(m, s) = [index |-> m.index, offset |-> m.offset],
              disk' = [disk EXCEPT ![c] = IF m.good THEN @ \cup {<<m.index, m.offset>>}
                                          ELSE @ \ {<<m.index, m.offset>>}],
              UNCHANGED owner,
              \/ /\ IsLast(m.offset)
                 /\ done' = [done EXCEPT ![c] = @ \cup {m.index}]
                 /\ end' = Put(end, k, c, Saving(old, "show", Nothing, m.index))
              \/ /\ ~IsLast(m.offset) /\ UNCHANGED done
                 /\ end' = Put(end, k, c, Saving(old, "request",
                                  [At(m, s) EXCEPT !.offset = @ + 1], -1))
       PROVE  IInv'
  <2>1. /\ disk'[c] = IF m.good THEN disk[c] \cup {<<m.index, m.offset>>}
                      ELSE disk[c] \ {<<m.index, m.offset>>}
        /\ \A d \in Clients \ {c} : disk'[d] = disk[d]
        /\ disk' \in [Clients -> SUBSET (Pieces \X Blocks)]
    BY <1>1, <1>3, <1>8, <1>11
  <2>2. NoneStale => /\ disk[c] \subseteq disk'[c]
                     /\ \A b \in 0 .. m.offset : <<m.index, b>> \in disk'[c]
    <3> HAVE NoneStale
    <3>1. disk'[c] = disk[c] \cup {<<m.index, m.offset>>}
      BY <1>3, <2>1
    <3> DEFINE blocks == disk[c]
    <3>2. s # Nothing => \A b \in 0 .. s.offset - 1 : <<s.index, b>> \in blocks
      BY <1>7
    <3> HIDE DEF blocks
    <3>3. \A b \in 0 .. m.offset : <<m.index, b>> \in blocks \cup {<<m.index, m.offset>>}
      BY <1>3, <1>4, <1>11, <3>2, WrittenMore
    <3> QED
      BY <3>1, <3>3 DEF blocks
  <2>3. UNCHANGED <<saved, stale>> /\ isSeed' = isSeed
    BY <1>5
  <2>4. CASE /\ IsLast(m.offset)
             /\ done' = [done EXCEPT ![c] = @ \cup {m.index}]
             /\ end' = Put(end, k, c, Saving(old, "show", Nothing, m.index))
    <3> DEFINE e == Saving(old, "show", Nothing, m.index)
    <3>1. /\ e \in End /\ e.pc = "show" /\ e.save = Nothing /\ e.piece = m.index
          /\ e.bits = old.bits /\ e.req = old.req
      BY <1>1, <1>3, <1>4, SavingEnd
    <3>2. end' = Put(end, k, c, e)
      BY <2>4
    <3> HIDE DEF e
    <3>3. /\ done'[c] = done[c] \cup {m.index}
          /\ \A d \in Clients \ {c} : done'[d] = done[d]
          /\ done' \in [Clients -> SUBSET Pieces]
      BY <1>1, <1>3, <1>8, <2>4
    <3>4. Blocks \subseteq 0 .. m.offset
      BY <1>3, <2>4, TorrentAssumption DEF IsLast, Blocks
    <3>5. NoneStale => done'[c] \X Blocks \subseteq disk'[c]
      <4>1. NoneStale => done[c] \X Blocks \subseteq disk'[c]
        BY <1>2, <2>2 DEF Holds
      <4>2. NoneStale => \A b \in Blocks : <<m.index, b>> \in disk'[c]
        BY <2>2, <3>4
      <4> QED
        BY <3>3, <4>1, <4>2
    <3>6. Grows(c)
      BY <1>1, <1>2, <1>8, <1>11, <2>1, <2>2, <2>3, <3>3, <3>5 DEF Grows, Up
    <3>7. Known(e, Reach(k, c)) /\ Written(e, disk'[c])
      BY <1>2, <3>1 DEF Known, Written
    <3>8. e.pc \notin {"none", "backlog"} /\ (e.pc = "show" <=> e.piece # -1)
      BY <1>3, <3>1 DEF Pieces
    <3> QED
      BY <1>1, <1>6, <2>3, <3>1, <3>2, <3>6, <3>7, <3>8, ThreadStep
  <2>5. CASE /\ ~IsLast(m.offset) /\ UNCHANGED done
             /\ end' = Put(end, k, c, Saving(old, "request",
                              [At(m, s) EXCEPT !.offset = @ + 1], -1))
    <3> DEFINE next == [index |-> m.index, offset |-> m.offset + 1]
               e == Saving(old, "request", next, -1)
    <3>1. [At(m, s) EXCEPT !.offset = @ + 1] = next
      BY <1>11
    <3>2. next \in State /\ next.index = m.index /\ next.offset = m.offset + 1
      BY <1>3, <2>5, TorrentAssumption DEF IsLast, Blocks, State
    <3>3. end' = Put(end, k, c, e)
      BY <2>5, <3>1
    <3> HIDE DEF next
    <3>4. /\ e \in End /\ e.pc = "request" /\ e.save = next /\ e.piece = -1
          /\ e.bits = old.bits /\ e.req = old.req
      BY <1>1, <3>2, SavingEnd
    <3> HIDE DEF e
    <3>5. NoneStale => done'[c] \X Blocks \subseteq disk'[c]
      BY <1>2, <2>2, <2>5 DEF Holds
    <3>6. Grows(c)
      BY <1>1, <1>2, <1>8, <1>11, <2>1, <2>2, <2>3, <2>5, <3>5 DEF Grows, Up
    <3>7. Known(e, Reach(k, c))
      BY <1>2, <3>4 DEF Known
    <3>8. m.offset \in Nat
      BY <1>3 DEF Blocks
    <3>9. 0 .. next.offset - 1 = 0 .. m.offset
      BY <3>2, <3>8
    <3>10. NoneStale => Written(e, disk'[c])
      BY <2>2, <3>2, <3>4, <3>9 DEF Written
    <3>11. e.pc \notin {"none", "backlog"} /\ (e.pc = "show" <=> e.piece # -1)
      BY <3>4
    <3> QED
      BY <1>1, <1>6, <2>3, <3>3, <3>4, <3>6, <3>7, <3>10, <3>11, ThreadStep
  <2> QED
    BY <1>11, <2>4, <2>5
<1>12. ASSUME At(m, s) # [index |-> m.index, offset |-> m.offset]
       PROVE  At(m, s) = s
  BY <1>12 DEF At
<1> QED
  BY <1>4, <1>5, <1>10, <1>11, <1>12

(* With nothing left to fetch the client is a seed.                        *)
LEMMA CheckStep ==
    ASSUME IInv, NEW k \in Conns, NEW c \in k[1], Check(k, c)
    PROVE  IInv'
<1> DEFINE e == [end[k][c] EXCEPT !.pc = "request"]
<1>1. /\ end[k][c].pc = "check" /\ end[k][c].pc # "none"
      /\ end[k][c].pc \notin {"none", "backlog"}
      /\ isSeed' = IF done[c] = Pieces THEN [isSeed EXCEPT ![c] = 2] ELSE isSeed
      /\ UNCHANGED <<done, disk, owner, count, saved, stale, chan>>
      /\ end' = Put(end, k, c, e)
  BY DEF Check, Put
<1>2. /\ Types /\ end[k][c] \in End /\ end[k][c].piece = -1 /\ c \in Clients /\ Up(c)
      /\ Holds(c) /\ Known(end[k][c], Reach(k, c))
      /\ NoneStale => Written(end[k][c], disk[c])
  BY <1>1, Thread
<1>3. e \in End
  BY <1>2, Ends
<1>4. e.pc = "request" /\ e.piece = -1 /\ e.bits = end[k][c].bits
      /\ e.req = end[k][c].req /\ e.save = end[k][c].save
  BY <1>2 DEF End
<1> HIDE DEF e
<1>5. /\ OnEnds(chan', Seq(Message))
      /\ \A j \in Conns : \A d \in j[1] : Carried(j, d, k, c)
  BY <1>1, <1>2, Silent
<1>6. Grows(c)
  <2>1. isSeed \in [Clients -> -1 .. 2]
    BY <1>2 DEF Types
  <2>2. CASE done[c] = Pieces
    <3>1. /\ isSeed' \in [Clients -> -1 .. 2] /\ isSeed'[c] = 2
          /\ \A d \in Clients \ {c} : isSeed'[d] = isSeed[d]
      BY <1>1, <1>2, <2>1, <2>2
    <3> QED
      BY <1>1, <1>2, <2>2, <3>1 DEF Grows, Holds, Types
  <2>3. CASE done[c] # Pieces
    BY <1>1, <1>2, <2>3, GrowsNot DEF Types
  <2> QED
    BY <2>2, <2>3
<1>7. Known(e, Reach(k, c)) /\ (NoneStale => Written(e, disk'[c]))
  BY <1>1, <1>2, <1>4 DEF Known, Written
<1>8. e.pc \notin {"none", "backlog"} /\ (e.pc = "show" <=> e.piece # -1)
  BY <1>4
<1> QED
  BY <1>1, <1>3, <1>5, <1>6, <1>7, <1>8, ThreadStep

(* The end of a thread that has asked.                                     *)
Asking(e, req) == [e EXCEPT !.pc = "read", !.req = req]
AskingFields(f, k, c, req) == [f EXCEPT ![k][c].pc = "read", ![k][c].req = req]

(* Its fields are written one after the other.                             *)
LEMMA PutAsking ==
    ASSUME NEW k \in Conns, NEW c \in k[1], NEW f, OnEnds(f, End), NEW req
    PROVE  AskingFields(f, k, c, req) = Put(f, k, c, Asking(f[k][c], req))
<1>1. DOMAIN f = Conns /\ DOMAIN f[k] = k[1]
  <2>1. f = [j \in Conns |-> [d \in j[1] |-> f[j][d]]]
    BY DEF OnEnds
  <2> QED
    BY <2>1
<1> QED
  BY <1>1 DEF Put, Asking, AskingFields

(* Asking for a block of a piece the other client has.                     *)
LEMMA AskStep ==
    ASSUME IInv, NEW k \in Conns, NEW c \in k[1], end[k][c].pc = "request",
           NEW i \in Pieces, NEW b \in Blocks, i \in Reach(k, c),
           Ask(k, c, [index |-> i, offset |-> b]), Grows(c), UNCHANGED <<saved, stale>>,
           disk' = disk
    PROVE  IInv'
<1> DEFINE m == [type |-> "request", index |-> i, offset |-> b]
           req == IF IsLast(b) THEN Nothing ELSE [index |-> i, offset |-> b + 1]
           e == Asking(end[k][c], req)
<1>1. /\ Types /\ end[k][c] \in End /\ end[k][c].piece = -1 /\ c \in Clients
      /\ OnEnds(end, End) /\ Known(end[k][c], Reach(k, c))
      /\ NoneStale => Written(end[k][c], disk[c])
  BY Thread
<1>2. m \in Message /\ m.type = "request" /\ m.index = i
  BY DEF Message
<1>3. Honest(m, k, c)
  BY <1>2 DEF Honest
<1>4. chan' = Send(chan, k, c, m)
  BY DEF Ask
<1> HIDE DEF m
<1>5. /\ OnEnds(chan', Seq(Message))
      /\ \A j \in Conns : \A d \in j[1] : Carried(j, d, k, c)
  BY <1>1, <1>2, <1>3, <1>4, Told
<1>6. req \in State /\ (req # Nothing => req.index = i)
  <2>1. CASE IsLast(b)
    BY <2>1 DEF State
  <2>2. CASE ~IsLast(b)
    BY <2>2, TorrentAssumption DEF IsLast, State, Blocks
  <2> QED
    BY <2>1, <2>2
<1>7. end' = AskingFields(end, k, c, req)
  <2> DEFINE r == [index |-> i, offset |-> b]
             more == IF IsLast(r.offset) THEN Nothing ELSE [r EXCEPT !.offset = @ + 1]
  <2>1. more = req
    OBVIOUS
  <2> HIDE DEF r
  <2>2. Ask(k, c, r)
    BY DEF r
  <2>3. end' = AskingFields(end, k, c, more)
    BY <2>2, Zenon DEF Ask, AskingFields
  <2> HIDE DEF more, req
  <2> QED
    BY <2>1, <2>3
<1> HIDE DEF req
<1>11. end' = Put(end, k, c, e)
  BY <1>1, <1>7, PutAsking
<1>8. e \in End /\ e.pc = "read" /\ e.piece = -1 /\ e.bits = end[k][c].bits
      /\ e.req = req /\ e.save = end[k][c].save
  BY <1>1, <1>6 DEF End, Asking
<1> HIDE DEF e
<1>9. Known(e, Reach(k, c)) /\ (NoneStale => Written(e, disk'[c]))
  BY <1>1, <1>6, <1>8 DEF Known, Written
<1>10. /\ e.pc \notin {"none", "backlog"} /\ (e.pc = "show" <=> e.piece # -1)
       /\ end[k][c].pc \notin {"none", "backlog"}
  BY <1>8
<1> QED
  BY <1>5, <1>8, <1>9, <1>10, <1>11, ThreadStep

(* The thread goes on with its piece.                                      *)
LEMMA AskNextStep ==
    ASSUME IInv, NEW k \in Conns, NEW c \in k[1], AskNext(k, c)
    PROVE  IInv'
<1>1. /\ end[k][c].pc = "request" /\ end[k][c].pc # "none" /\ end[k][c].req.index >= 0
      /\ Ask(k, c, end[k][c].req) /\ UNCHANGED client
  BY DEF AskNext
<1>2. /\ Types /\ end[k][c] \in End /\ c \in Clients /\ Up(c) /\ Holds(c)
      /\ Known(end[k][c], Reach(k, c))
  BY <1>1, Thread
<1> DEFINE r == end[k][c].req
<1>3. r \in State /\ r # Nothing
  BY <1>1, <1>2 DEF End, Nothing
<1>4. r.index \in Reach(k, c)
  BY <1>2, <1>3 DEF Known
<1>5. /\ UNCHANGED <<isSeed, done, disk>> /\ UNCHANGED <<saved, stale>> /\ disk' = disk
      /\ owner' = owner /\ count' = count
  BY <1>1 DEF client
<1>6. Grows(c)
  BY <1>2, <1>5, GrowsNot DEF Types
<1> HIDE DEF r
<1>7. r.index \in Pieces /\ r.offset \in Blocks
      /\ r = [index |-> r.index, offset |-> r.offset]
  BY <1>3 DEF State
<1>8. Ask(k, c, [index |-> r.index, offset |-> r.offset])
  BY <1>1, <1>7 DEF r
<1> QED
  BY <1>1, <1>4, <1>5, <1>6, <1>7, <1>8, AskStep

(* A set of numbers that is not empty has a least one.                     *)
LEMMA LeastNumber ==
    ASSUME NEW S \in SUBSET Nat, S # {}
    PROVE  \E x \in S : \A y \in S : x <= y
<1> DEFINE R == {ss \in Nat \X Nat : ss[1] < ss[2]}
<1>1. IsWellFoundedOn(R, Nat)
  BY NatLessThanWellFounded DEF OpToRel
<1>2. PICK x \in S : \A y \in S : ~(<<y, x>> \in R)
  BY <1>1, WFMin
<1>3. ASSUME NEW y \in S
      PROVE  x <= y
  <2>1. x \in Nat /\ y \in Nat
    OBVIOUS
  <2>2. ~(y < x)
    BY <1>2, <2>1
  <2> HIDE DEF R
  <2> QED
    BY <2>1, <2>2
<1> QED
  BY <1>3

(* The rarest of some pieces is one of them.                               *)
LEMMA RarestIsOne ==
    ASSUME Types, NEW c \in Clients, NEW cand \in SUBSET Pieces, cand # {}
    PROVE  Rarest(c, cand) \in cand
<1> DEFINE row == count[c]
           least == {i \in cand : \A j \in cand : row[i] <= row[j]}
           S == {row[i] : i \in cand}
<1>1. row \in [Pieces -> Nat]
  BY DEF Types
<1> HIDE DEF row
<1>2. S \in SUBSET Nat /\ S # {}
  BY <1>1
<1>3. \E x \in S : \A y \in S : x <= y
  BY <1>2, LeastNumber
<1>4. least # {}
  BY <1>3
<1>5. least \in SUBSET Nat /\ least \subseteq cand
  <2>1. \A i \in Pieces : i \in Nat
    BY TorrentAssumption DEF Pieces
  <2>2. least \subseteq cand
    OBVIOUS
  <2> HIDE DEF least
  <2> QED
    BY <2>1, <2>2
<1> HIDE DEF least
<1>6. PICK x \in least : \A y \in least : x <= y
  BY <1>4, <1>5, LeastNumber
<1>7. Min(least) \in least
  BY <1>6 DEF Min
<1> QED
  BY <1>5, <1>7 DEF Rarest, least, row

(* What is chosen has been announced.                                      *)
LEMMA ChoiceIsKnown ==
    ASSUME Types, NEW k \in Conns, NEW c \in k[1], c \in Clients, end[k][c] \in End,
           NEW i \in Choice(k, c)
    PROVE  i \in end[k][c].bits /\ i \in Pieces
<1> DEFINE wanted == end[k][c].bits \ done[c]
           idle == {j \in wanted : owner[c][j] = None}
<1>1. end[k][c].bits \subseteq Pieces
  BY DEF End
<1>2. CASE isSeed[c] = 0
  BY <1>1, <1>2 DEF Choice
<1>3. CASE isSeed[c] # 0
  <2>1. wanted # {}
    BY <1>3 DEF Choice
  <2>2. PICK cand \in SUBSET wanted : cand # {} /\ i = Rarest(c, cand)
    <3>1. CASE idle # {}
      BY <1>3, <2>1, <3>1 DEF Choice
    <3>2. CASE idle = {}
      BY <1>3, <2>1, <3>2 DEF Choice
    <3> QED
      BY <3>1, <3>2
  <2>3. cand \in SUBSET Pieces
    BY <1>1
  <2>4. i \in cand
    BY <2>2, <2>3, RarestIsOne
  <2> QED
    BY <1>1, <2>4
<1> QED
  BY <1>2, <1>3

(* The thread chooses a piece.                                             *)
LEMMA AskNewStep ==
    ASSUME IInv, NEW k \in Conns, NEW c \in k[1], AskNew(k, c)
    PROVE  IInv'
<1>1. /\ end[k][c].pc = "request" /\ end[k][c].pc # "none"
      /\ end[k][c].pc \notin {"none", "backlog"}
      /\ isSeed' = IF isSeed[c] = 0 THEN [isSeed EXCEPT ![c] = 1] ELSE isSeed
      /\ UNCHANGED <<done, disk, count, saved, stale>>
  BY DEF AskNew
<1>2. /\ Types /\ end[k][c] \in End /\ end[k][c].piece = -1 /\ c \in Clients /\ Up(c)
      /\ Holds(c) /\ Known(end[k][c], Reach(k, c))
      /\ NoneStale => Written(end[k][c], disk[c])
  BY <1>1, Thread
<1>3. ASSUME owner' \in [Clients -> [Pieces -> Conns \cup {None}]]
      PROVE  Grows(c)
  <2>1. isSeed \in [Clients -> -1 .. 2]
    BY <1>2 DEF Types
  <2>2. CASE isSeed[c] = 0
    <3>1. /\ isSeed' \in [Clients -> -1 .. 2] /\ isSeed'[c] = 1
          /\ \A d \in Clients \ {c} : isSeed'[d] = isSeed[d]
      BY <1>1, <1>2, <2>1, <2>2
    <3> QED
      BY <1>1, <1>2, <1>3, <2>2, <3>1 DEF Grows, Holds, Types
  <2>3. CASE isSeed[c] # 0
    BY <1>1, <1>2, <1>3, <2>3, GrowsNot DEF Types
  <2> QED
    BY <2>2, <2>3
<1>4. CASE Choice(k, c) = {}
  <2>1. PICK pc \in {"drawing", "read"} : end' = [end EXCEPT ![k][c].pc = pc]
    BY <1>4 DEF AskNew
  <2> DEFINE e == [end[k][c] EXCEPT !.pc = pc]
  <2>2. e \in End /\ e.pc = pc /\ e.piece = -1 /\ e.bits = end[k][c].bits
        /\ e.req = end[k][c].req /\ e.save = end[k][c].save
    BY <1>2 DEF End
  <2>3. end' = Put(end, k, c, e)
    BY <2>1 DEF Put
  <2> HIDE DEF e
  <2>4. chan' = chan /\ owner' = owner
    BY <1>4 DEF AskNew
  <2>5. /\ OnEnds(chan', Seq(Message))
        /\ \A j \in Conns : \A d \in j[1] : Carried(j, d, k, c)
    BY <1>2, <2>4, Silent
  <2>6. Grows(c)
    BY <1>2, <1>3, <2>4 DEF Types
  <2>7. Known(e, Reach(k, c)) /\ (NoneStale => Written(e, disk'[c]))
    BY <1>1, <1>2, <2>2 DEF Known, Written
  <2>8. e.pc \notin {"none", "backlog"} /\ (e.pc = "show" <=> e.piece # -1)
    BY <2>2
  <2> QED
    BY <1>1, <2>2, <2>3, <2>5, <2>6, <2>7, <2>8, ThreadStep
<1>5. CASE Choice(k, c) # {}
  <2>1. PICK i \in Choice(k, c) :
          /\ Ask(k, c, [index |-> i, offset |-> 0])
          /\ owner' = IF isSeed[c] = 0 THEN owner ELSE [owner EXCEPT ![c][i] = k]
    BY <1>5 DEF AskNew
  <2>2. i \in end[k][c].bits /\ i \in Pieces
    BY <1>2, ChoiceIsKnown
  <2>3. i \in Reach(k, c) /\ 0 \in Blocks
    BY <1>2, <2>2, TorrentAssumption DEF Known, Blocks
  <2>4. owner' \in [Clients -> [Pieces -> Conns \cup {None}]]
    <3> DEFINE row == [owner[c] EXCEPT ![i] = k]
    <3>1. owner \in [Clients -> [Pieces -> Conns \cup {None}]]
      BY <1>2 DEF Types
    <3>2. owner[c] \in [Pieces -> Conns \cup {None}]
      BY <1>2, <3>1
    <3>3. row \in [Pieces -> Conns \cup {None}]
      BY <3>2
    <3>4. owner' = owner \/ owner' = [owner EXCEPT ![c] = row]
      BY <2>1
    <3> HIDE DEF row
    <3>5. [owner EXCEPT ![c] = row] \in [Clients -> [Pieces -> Conns \cup {None}]]
      BY <1>2, <3>1, <3>3
    <3> QED
      BY <3>1, <3>4, <3>5
  <2>5. Grows(c)
    BY <1>3, <2>4
  <2> DEFINE zero == 0
  <2>6. zero \in Blocks /\ Ask(k, c, [index |-> i, offset |-> zero])
    BY <2>1, <2>3
  <2> HIDE DEF zero
  <2> QED
    BY <1>1, <2>2, <2>3, <2>5, <2>6, AskStep
<1> QED
  BY <1>4, <1>5

-----------------------------------------------------------------------------
(* Steps that open and close connections.                                  *)

(* An end of e that waits for waitPeer, or has a slot.                     *)
Waiting(e, pc) == [e EXCEPT !.pc = pc]

(* What taking an end does to it.                                          *)
Taken(j, d) ==
  \E pc \in {"slot", "backlog"} :
    /\ end'[j][d] = Waiting(end[j][d], pc)
    /\ end[j][d].pc \in {"none", "backlog"} /\ Up(d)

(* Only the control point of an end that is taken changes.                 *)
LEMMA TakenEnd ==
    ASSUME NEW e \in End, NEW pc \in {"slot", "backlog"}
    PROVE  /\ Waiting(e, pc) \in End
           /\ Waiting(e, pc).pc = pc /\ Waiting(e, pc).piece = e.piece
           /\ Waiting(e, pc).bits = e.bits /\ Waiting(e, pc).req = e.req
           /\ Waiting(e, pc).save = e.save
  BY DEF End, Waiting

(* A step of ends alone: the tables stay, ends are taken, those that were  *)
(* free in pairs, and no client has more than MAXPEER slots after it.      *)
LEMMA EndsStep ==
    ASSUME IInv, OnEnds(end', End), UNCHANGED chan, UNCHANGED client,
           \A d \in Clients : Cardinality(Slots(d)') <= MAXPEER,
           \A j \in Conns : \A d \in j[1] : end'[j][d] = end[j][d] \/ Taken(j, d),
           \A j \in Conns : \A d \in j[1] :
             \/ end'[j][d].pc = "none" <=> end[j][d].pc = "none"
             \/ \A x \in j[1] : end[j][x].pc = "none"
    PROVE  IInv'
<1>1. /\ Types
      /\ \A d \in Clients : Holds(d) /\ Cardinality(Slots(d)) <= MAXPEER
      /\ \A j \in Conns : \A d \in j[1] :
           /\ EndWell(j, d) /\ end[j][d] \in End /\ chan[j][d] \in Seq(Message)
           /\ AllFit(chan[j][d], done[d], Reach(j, d), NoneStale)
  BY Parts
<1>2. UNCHANGED <<isSeed, done, disk, owner, count, saved, stale, chan>>
  BY DEF client
<1>3. Types'
  BY <1>1, <1>2 DEF Types
<1>4. (NoneStale' = NoneStale) /\ \A d \in Clients : Up(d)' = Up(d) /\ Holds(d)' = Holds(d)
  BY <1>2 DEF NoneStale, Up, Holds
<1>5. ASSUME NEW j \in Conns, NEW d \in j[1]
      PROVE  /\ EndWell(j, d)'
             /\ AllFit(chan'[j][d], done'[d], Reach(j, d)', NoneStale')
  <2> DEFINE e == end[j][d]
             g == end'[j][d]
  <2>1. /\ d \in Clients /\ EndWell(j, d) /\ Other(j, d) \in j[1] /\ e \in End
        /\ AllFit(chan[j][d], done[d], Reach(j, d), NoneStale)
        /\ Known(e, Reach(j, d)) /\ (NoneStale => Written(e, disk[d]))
    BY <1>1, Pair DEF EndWell
  <2>2. /\ g.bits = e.bits /\ g.req = e.req /\ g.save = e.save
        /\ g.pc = "show" <=> g.piece # -1
        /\ g.pc # "none" => Up(d)
    <3>1. CASE g = e
      BY <2>1, <3>1 DEF EndWell
    <3>2. CASE Taken(j, d)
      <4>1. PICK pc \in {"slot", "backlog"} :
              g = Waiting(e, pc) /\ e.pc \in {"none", "backlog"} /\ Up(d)
        BY <3>2 DEF Taken
      <4>2. e.piece = -1
        BY <2>1, <4>1 DEF EndWell
      <4> HIDE DEF e, g
      <4> QED
        BY <2>1, <4>1, <4>2, TakenEnd
    <3> QED
      BY <3>1, <3>2
  <2>3. g.pc = "none" => g = NoEnd /\ chan'[j][d] = <<>>
    <3>1. CASE g = e
      BY <1>2, <2>1, <3>1 DEF EndWell
    <3>2. CASE Taken(j, d)
      <4>1. PICK pc \in {"slot", "backlog"} : g = Waiting(e, pc)
        BY <3>2 DEF Taken
      <4> HIDE DEF e, g
      <4> QED
        BY <2>1, <4>1, TakenEnd
    <3> QED
      BY <3>1, <3>2
  <2>4. /\ Known(g, Reach(j, d)')
        /\ AllFit(chan'[j][d], done'[d], Reach(j, d)', NoneStale')
    <3>1. CASE end'[j][Other(j, d)].pc = "none" <=> end[j][Other(j, d)].pc = "none"
      <4>1. Reach(j, d)' = Reach(j, d)
        BY <1>2, <3>1 DEF Reach
      <4> QED
        BY <1>2, <1>4, <2>1, <2>2, <4>1 DEF Known
    <3>2. CASE \A x \in j[1] : end[j][x].pc = "none"
      <4>1. e = NoEnd /\ chan'[j][d] = <<>>
        BY <1>2, <2>1, <3>2 DEF EndWell
      <4>2. g.bits = {} /\ g.req = Nothing
        BY <2>2, <4>1 DEF NoEnd
      <4> QED
        BY <4>1, <4>2 DEF Known, AllFit
    <3> QED
      BY <2>1, <3>1, <3>2
  <2>5. NoneStale' => Written(g, disk'[d])
    BY <1>2, <1>4, <2>1, <2>2 DEF Written
  <2>6. g.pc # "none" => Up(d)'
    BY <1>4, <2>1, <2>2
  <2> QED
    BY <2>2, <2>3, <2>4, <2>5, <2>6 DEF EndWell
<1> QED
  BY <1>1, <1>3, <1>4, <1>5 DEF IInv

(* The slots of a client after a step that takes at most one more.         *)
LEMMA SlotsStep ==
    ASSUME NEW d, NEW k,
           \/ Slots(d)' \subseteq Slots(d) /\ Cardinality(Slots(d)) <= MAXPEER
           \/ Slots(d)' \subseteq Slots(d) \cup {k} /\ Cardinality(Slots(d)) < MAXPEER
    PROVE  Cardinality(Slots(d)') <= MAXPEER
<1> DEFINE S == Slots(d)
           T == Slots(d)'
<1>1. IsFiniteSet(S) /\ MAXPEER \in Nat
  BY SlotsFinite, TorrentAssumption
<1>2. \/ T \subseteq S /\ Cardinality(S) <= MAXPEER
      \/ T \subseteq S \cup {k} /\ Cardinality(S) < MAXPEER
  OBVIOUS
<1> HIDE DEF S, T
<1>3. Cardinality(T) <= MAXPEER
  BY <1>1, <1>2, OneMore
<1> QED
  BY <1>3 DEF T

(* waitPeer takes the next connection, or closes it.                       *)
LEMMA AcceptStep ==
    ASSUME IInv, NEW k \in Conns, NEW c \in k[1], Accept(k, c)
    PROVE  IInv'
<1>1. CASE Hangup(k, c)
  BY <1>1, HangupStep DEF Accept
<1>2. CASE ~Hangup(k, c)
  <2> DEFINE e == Waiting(end[k][c], "slot")
  <2>1. /\ end[k][c].pc = "backlog" /\ Cardinality(Slots(c)) < MAXPEER
        /\ UNCHANGED chan /\ UNCHANGED client
        /\ end' = Put(end, k, c, e)
    BY <1>2 DEF Accept, Put, Waiting
  <2>2. /\ OnEnds(end, End) /\ end[k][c] \in End /\ Up(c)
    BY <2>1, Thread
  <2>3. e \in End /\ e.pc = "slot"
    BY <2>2, TakenEnd
  <2> HIDE DEF e
  <2>4. /\ OnEnds(Put(end, k, c, e), End) /\ Put(end, k, c, e)[k][c] = e
        /\ \A j \in Conns : \A d \in j[1] :
             j # k \/ d # c => Put(end, k, c, e)[j][d] = end[j][d]
    BY <2>2, <2>3, PutEnd
  <2>5. /\ OnEnds(end', End) /\ end'[k][c] = e
        /\ \A j \in Conns : \A d \in j[1] : j # k \/ d # c => end'[j][d] = end[j][d]
    BY <2>1, <2>4, Zenon
  <2>6. Taken(k, c)
    BY <2>1, <2>2, <2>5 DEF Taken, e
  <2>7. ASSUME NEW d \in Clients
        PROVE  Cardinality(Slots(d)') <= MAXPEER
    <3>1. Cardinality(Slots(d)) <= MAXPEER
      BY Parts
    <3>2. Slots(d)' \subseteq Slots(d) \cup {k}
      BY <2>5 DEF Slots, ConnsOf
    <3>3. d # c => Slots(d)' \subseteq Slots(d)
      BY <2>5 DEF Slots, ConnsOf
    <3> QED
      BY <2>1, <3>1, <3>2, <3>3, SlotsStep
  <2>8. ASSUME NEW j \in Conns, NEW d \in j[1]
        PROVE  /\ end'[j][d] = end[j][d] \/ Taken(j, d)
               /\ end'[j][d].pc = "none" <=> end[j][d].pc = "none"
    BY <2>1, <2>3, <2>5, <2>6
  <2> QED
    BY <2>1, <2>5, <2>7, <2>8, EndsStep
<1> QED
  BY <1>1, <1>2

(* main connects to a client of its list.                                  *)
LEMMA ConnectStep ==
    ASSUME IInv, NEW c \in Clients, NEW d \in Clients, Connect(c, d)
    PROVE  IInv'
<1>1. /\ {c, d} \in Links /\ Up(c) /\ Up(d) /\ Cardinality(Slots(c)) < MAXPEER
      /\ UNCHANGED chan /\ UNCHANGED client
  BY DEF Connect
<1>2. PICK n \in 1 .. MaxPerPair :
        /\ Free(<<{c, d}, n>>)
        /\ end' = [end EXCEPT ![<<{c, d}, n>>][c].pc = "slot",
                              ![<<{c, d}, n>>][d].pc = "backlog"]
  BY DEF Connect
<1> DEFINE k == <<{c, d}, n>>
           e == Waiting(end[k][c], "slot")
           f == Waiting(end[k][d], "backlog")
           h == Put(end, k, c, e)
<1>3. k \in Conns /\ k[1] = {c, d} /\ c \in k[1] /\ d \in k[1]
  BY <1>1 DEF Conns
<1>4. Free(k) /\ end' = [end EXCEPT ![k][c].pc = "slot", ![k][d].pc = "backlog"]
  BY <1>2
<1> HIDE DEF k
<1>5. c # d
  <2>1. Other(k, c) \in k[1] /\ Other(k, c) # c
    BY <1>3, Pair
  <2> QED
    BY <1>3, <2>1
<1>6. /\ OnEnds(end, End) /\ end[k][c] \in End /\ end[k][d] \in End
      /\ end[k][c].pc = "none" /\ end[k][d].pc = "none"
  BY <1>3, <1>4, Parts DEF Types, Free
<1>7. e \in End /\ e.pc = "slot" /\ f \in End /\ f.pc = "backlog"
  BY <1>6, TakenEnd
<1> HIDE DEF e, f
<1>8. /\ OnEnds(h, End) /\ h[k][c] = e
      /\ \A j \in Conns : \A x \in j[1] : j # k \/ x # c => h[j][x] = end[j][x]
  <2>1. k \in Conns /\ c \in k[1] /\ OnEnds(end, End) /\ e \in End
    BY <1>3, <1>6, <1>7
  <2> QED
    BY <2>1, PutEnd
<1>9. end' = Put(h, k, d, f)
  <2>1. DOMAIN end = Conns /\ DOMAIN end[k] = k[1]
    <3>1. end = [j \in Conns |-> [x \in j[1] |-> end[j][x]]]
      BY <1>6 DEF OnEnds
    <3> QED
      BY <1>3, <3>1
  <2> QED
    BY <1>3, <1>4, <1>5, <2>1 DEF Put, Waiting, e, f
<1> HIDE DEF h
<1>10. /\ OnEnds(Put(h, k, d, f), End) /\ Put(h, k, d, f)[k][d] = f
       /\ \A j \in Conns : \A x \in j[1] :
            j # k \/ x # d => Put(h, k, d, f)[j][x] = h[j][x]
  <2>1. k \in Conns /\ d \in k[1] /\ OnEnds(h, End) /\ f \in End
    BY <1>3, <1>7, <1>8
  <2> QED
    BY <2>1, PutEnd
<1>11. /\ OnEnds(end', End) /\ end'[k][d] = f
       /\ \A j \in Conns : \A x \in j[1] : j # k \/ x # d => end'[j][x] = h[j][x]
  BY <1>9, <1>10, Zenon
<1>12. /\ end'[k][c] = e
       /\ \A j \in Conns : \A x \in j[1] : j # k => end'[j][x] = end[j][x]
  BY <1>3, <1>5, <1>8, <1>11
<1>13. Taken(k, c) /\ Taken(k, d)
  BY <1>1, <1>6, <1>11, <1>12 DEF Taken, e, f
<1>14. ASSUME NEW x \in Clients
       PROVE  Cardinality(Slots(x)') <= MAXPEER
  <2>1. Cardinality(Slots(x)) <= MAXPEER
    BY Parts
  <2>2. Slots(x)' \subseteq Slots(x) \cup {k}
    BY <1>12 DEF Slots, ConnsOf
  <2>3. x # c => Slots(x)' \subseteq Slots(x)
    BY <1>3, <1>7, <1>11, <1>12 DEF Slots, ConnsOf
  <2> QED
    BY <1>1, <2>1, <2>2, <2>3, SlotsStep
<1>15. ASSUME NEW j \in Conns, NEW x \in j[1]
       PROVE  /\ end'[j][x] = end[j][x] \/ Taken(j, x)
              /\ \/ end'[j][x].pc = "none" <=> end[j][x].pc = "none"
                 \/ \A y \in j[1] : end[j][y].pc = "none"
  BY <1>3, <1>6, <1>12, <1>13
<1> QED
  BY <1>1, <1>11, <1>14, <1>15, EndsStep

-----------------------------------------------------------------------------
(* Ends and restarts of a process.                                         *)

(* What is left when the process of c is gone, whatever becomes of its     *)
(* files, as long as finished pieces stay.                                 *)
LEMMA GoneStep ==
    ASSUME IInv, NEW c \in Clients, Gone(c), UNCHANGED <<done, owner, count>>,
           disk' \in [Clients -> SUBSET (Pieces \X Blocks)],
           saved' \in [Clients -> (SUBSET Pieces) \cup {None}],
           stale' \in [Clients -> {"no", "old", "used"}],
           \A d \in Clients : stale'[d] = "used" <=> stale[d] = "used",
           \A d \in Clients \ {c} : /\ disk'[d] = disk[d] /\ saved'[d] = saved[d]
                                    /\ stale'[d] = stale[d],
           Holds(c)'
    PROVE  IInv'
<1>1. /\ Types
      /\ \A d \in Clients : Holds(d) /\ Cardinality(Slots(d)) <= MAXPEER
      /\ \A j \in Conns : \A d \in j[1] :
           /\ EndWell(j, d) /\ end[j][d] \in End /\ chan[j][d] \in Seq(Message)
           /\ AllFit(chan[j][d], done[d], Reach(j, d), NoneStale)
  BY Parts
<1>2. /\ isSeed \in [Clients -> -1 .. 2] /\ isSeed' = [isSeed EXCEPT ![c] = -1]
      /\ end' = [k \in Conns |-> [d \in k[1] |-> IF d = c THEN NoEnd ELSE end[k][d]]]
      /\ chan' = [k \in Conns |-> [d \in k[1] |-> IF d = c THEN <<>> ELSE chan[k][d]]]
  BY <1>1 DEF Gone, Types
<1>3. isSeed' \in [Clients -> -1 .. 2] /\ \A d \in Clients \ {c} : isSeed'[d] = isSeed[d]
  BY <1>2
<1>4. /\ \A j \in Conns : \A d \in j[1] :
           /\ end'[j][d] = IF d = c THEN NoEnd ELSE end[j][d]
           /\ chan'[j][d] = IF d = c THEN <<>> ELSE chan[j][d]
      /\ end' = [j \in Conns |-> [d \in j[1] |-> end'[j][d]]]
      /\ chan' = [j \in Conns |-> [d \in j[1] |-> chan'[j][d]]]
  BY <1>2
<1>5. NoEnd \in End /\ <<>> \in Seq(Message)
  <2>1. NoEnd \in End
    BY DEF NoEnd, End, State
  <2>2. <<>> \in Seq(Message)
    OBVIOUS
  <2> QED
    BY <2>1, <2>2
<1>6. /\ \A j \in Conns : \A d \in j[1] : end'[j][d] \in End
      /\ \A j \in Conns : \A d \in j[1] : chan'[j][d] \in Seq(Message)
  BY <1>1, <1>4, <1>5
<1>7. OnEnds(end', End) /\ OnEnds(chan', Seq(Message))
  BY <1>4, <1>6 DEF OnEnds
<1>8. Types'
  BY <1>1, <1>3, <1>7 DEF Types
<1>9. NoneStale' = NoneStale
  BY DEF NoneStale
<1>10. ASSUME NEW d \in Clients
       PROVE  Holds(d)' /\ Cardinality(Slots(d)') <= MAXPEER
  <2>1. Slots(d)' \subseteq Slots(d)
    <3>1. ASSUME NEW j \in Slots(d)'
          PROVE  j \in Slots(d)
      <4>1. j \in Conns /\ d \in j[1] /\ end'[j][d].pc \notin {"none", "backlog"}
        BY <3>1 DEF Slots, ConnsOf
      <4>2. d # c
        BY <1>4, <4>1 DEF NoEnd
      <4>3. end'[j][d] = end[j][d]
        BY <1>4, <4>1, <4>2
      <4> QED
        BY <4>1, <4>3 DEF Slots, ConnsOf
    <3> QED
      BY <3>1
  <2>2. Cardinality(Slots(d)') <= MAXPEER
    BY <1>1, <2>1, SlotsStep
  <2>3. d # c => Holds(d)'
    BY <1>1, <1>3, <1>9 DEF Holds, Up
  <2> QED
    BY <2>2, <2>3
<1>11. ASSUME NEW j \in Conns, NEW d \in j[1]
       PROVE  /\ EndWell(j, d)'
              /\ AllFit(chan'[j][d], done'[d], Reach(j, d)', NoneStale')
  <2>1. /\ d \in Clients /\ EndWell(j, d) /\ Other(j, d) \in j[1]
        /\ Other(j, d) \in Clients
        /\ AllFit(chan[j][d], done[d], Reach(j, d), NoneStale)
        /\ chan[j][d] \in Seq(Message)
    BY <1>1, Pair
  <2>2. CASE d = c
    <3>1. end'[j][d] = NoEnd /\ chan'[j][d] = <<>>
      BY <1>4, <2>2
    <3> QED
      BY <3>1 DEF EndWell, Known, Written, AllFit, NoEnd
  <2>3. CASE d # c
    <3>1. end'[j][d] = end[j][d] /\ chan'[j][d] = chan[j][d]
      BY <1>4, <2>3
    <3>2. Reach(j, d) \subseteq Reach(j, d)'
      <4>1. done[Other(j, d)] \subseteq Pieces
        BY <1>1, <2>1 DEF Types
      <4>2. CASE Other(j, d) = c
        <5>1. end'[j][Other(j, d)].pc = "none"
          BY <1>4, <2>1, <4>2 DEF NoEnd
        <5> QED
          BY <4>1, <5>1 DEF Reach
      <4>3. CASE Other(j, d) # c
        BY <1>4, <2>1, <4>3 DEF Reach
      <4> QED
        BY <4>2, <4>3
    <3>3. Known(end[j][d], Reach(j, d)')
      BY <2>1, <3>2 DEF EndWell, Known
    <3>4. Up(d) => Up(d)'
      BY <1>3, <2>1, <2>3 DEF Up
    <3>5. disk'[d] = disk[d]
      BY <2>1, <2>3
    <3>6. EndWell(j, d)'
      BY <1>9, <2>1, <3>1, <3>3, <3>4, <3>5 DEF EndWell
    <3> DEFINE has == done[d]
               reach == Reach(j, d)'
               sound == NoneStale
    <3>7. /\ sound \in BOOLEAN /\ has \subseteq has /\ Reach(j, d) \subseteq reach
          /\ AllFit(chan[j][d], has, Reach(j, d), sound)
      BY <2>1, <3>2 DEF NoneStale
    <3> HIDE DEF has, reach, sound
    <3>8. AllFit(chan[j][d], has, reach, sound)
      BY <2>1, <3>7, AllFitMore
    <3>9. AllFit(chan'[j][d], done'[d], Reach(j, d)', NoneStale')
      BY <1>9, <3>1, <3>8 DEF has, reach, sound
    <3> QED
      BY <3>6, <3>9
  <2> QED
    BY <2>2, <2>3
<1> QED
  BY <1>8, <1>10, <1>11 DEF IInv

(* Ctrl-C writes down what is done.                                        *)
LEMMA ShutdownStep ==
    ASSUME IInv, NEW c \in Clients, Shutdown(c)
    PROVE  IInv'
<1>1. /\ Gone(c) /\ UNCHANGED <<done, owner, count>> /\ disk' = disk
      /\ saved' = [saved EXCEPT ![c] = done[c]]
      /\ stale' = [stale EXCEPT ![c] = IF @ = "old" THEN "no" ELSE @]
  BY DEF Shutdown
<1>2. /\ Types /\ Holds(c)
      /\ isSeed \in [Clients -> -1 .. 2] /\ done \in [Clients -> SUBSET Pieces]
      /\ saved \in [Clients -> (SUBSET Pieces) \cup {None}]
      /\ stale \in [Clients -> {"no", "old", "used"}]
      /\ disk \in [Clients -> SUBSET (Pieces \X Blocks)]
  BY Parts DEF Types
<1>3. done[c] \in SUBSET Pieces
  BY <1>2
<1>4. /\ saved' \in [Clients -> (SUBSET Pieces) \cup {None}] /\ saved'[c] = done[c]
      /\ \A d \in Clients \ {c} : saved'[d] = saved[d]
  BY <1>1, <1>2, <1>3
<1>5. /\ stale' \in [Clients -> {"no", "old", "used"}]
      /\ \A d \in Clients \ {c} : stale'[d] = stale[d]
      /\ \A d \in Clients : stale'[d] = "used" <=> stale[d] = "used"
  BY <1>1, <1>2
<1>6. isSeed'[c] = -1
  BY <1>1, <1>2 DEF Gone
<1>7. NoneStale' = NoneStale
  BY <1>5 DEF NoneStale
<1>8. Holds(c)'
  BY <1>1, <1>2, <1>4, <1>6, <1>7 DEF Holds, Up
<1> QED
  BY <1>1, <1>2, <1>4, <1>5, <1>8, GoneStep

(* A kill leaves the finished pieces.                                      *)
LEMMA KillStep ==
    ASSUME IInv, NEW c \in Clients, Kill(c)
    PROVE  IInv'
<1>1. /\ Gone(c) /\ UNCHANGED <<done, owner, count>> /\ saved' = saved /\ stale' = stale
      /\ disk' = [disk EXCEPT ![c] = {x \in @ : x[1] \in done[c]}]
  BY DEF Kill
<1>2. /\ Types /\ Holds(c) /\ Up(c)
      /\ isSeed \in [Clients -> -1 .. 2]
      /\ saved \in [Clients -> (SUBSET Pieces) \cup {None}]
      /\ stale \in [Clients -> {"no", "old", "used"}]
      /\ disk \in [Clients -> SUBSET (Pieces \X Blocks)]
  BY <1>1, Parts DEF Types, Gone
<1> DEFINE left == {x \in disk[c] : x[1] \in done[c]}
<1>3. left \in SUBSET (Pieces \X Blocks)
  BY <1>2
<1>4. disk' = [disk EXCEPT ![c] = left]
  BY <1>1
<1>5. NoneStale => done[c] \X Blocks \subseteq left
  BY <1>2 DEF Holds
<1>6. NoneStale /\ stale[c] = "no" /\ saved[c] # None => saved[c] \X Blocks \subseteq left
  <2> HAVE NoneStale /\ stale[c] = "no" /\ saved[c] # None
  <2>1. saved[c] \X Blocks \subseteq disk[c] /\ saved[c] \subseteq done[c]
    BY <1>2 DEF Holds
  <2> QED
    BY <2>1
<1> HIDE DEF left
<1>7. /\ disk' \in [Clients -> SUBSET (Pieces \X Blocks)] /\ disk'[c] = left
      /\ \A d \in Clients \ {c} : disk'[d] = disk[d]
  BY <1>2, <1>3, <1>4
<1>8. isSeed'[c] = -1
  BY <1>1, <1>2 DEF Gone
<1>9. NoneStale' = NoneStale
  BY <1>1 DEF NoneStale
<1>10. Holds(c)'
  BY <1>1, <1>2, <1>5, <1>6, <1>7, <1>8, <1>9 DEF Holds, Up
<1> QED
  BY <1>1, <1>2, <1>7, <1>10, GoneStep

(* What a client starts with.                                              *)
LEMMA StartHolds ==
    ASSUME IInv, NEW c \in Clients, NEW mode \in 0 .. 2, Start(c, mode)
    PROVE  /\ isSeed' \in [Clients -> -1 .. 2] /\ done' \in [Clients -> SUBSET Pieces]
           /\ disk' \in [Clients -> SUBSET (Pieces \X Blocks)]
           /\ stale' \in [Clients -> {"no", "old", "used"}]
           /\ \A d \in Clients \ {c} : /\ isSeed'[d] = isSeed[d] /\ done'[d] = done[d]
                                       /\ disk'[d] = disk[d] /\ stale'[d] = stale[d]
           /\ NoneStale' => NoneStale
           /\ Holds(c)'
<1> DEFINE new == CASE mode = 0 -> {} [] mode = 1 -> saved[c] [] OTHER -> Pieces
           mark == CASE mode = 0 /\ stale[c] = "no" /\ saved[c] # None -> "old"
                     [] mode = 1 /\ stale[c] = "old" -> "used"
                     [] OTHER -> stale[c]
<1>1. /\ ~Up(c) /\ (mode = 2 <=> c \in Seeds) /\ (mode = 1 => saved[c] # None)
      /\ isSeed' = [isSeed EXCEPT ![c] = mode]
      /\ done' = [done EXCEPT ![c] = new]
      /\ disk' = IF mode = 0 THEN [disk EXCEPT ![c] = {}] ELSE disk
      /\ stale' = [stale EXCEPT ![c] = mark]
      /\ saved' = saved
  BY DEF Start
<1>2. /\ Types /\ Holds(c)
      /\ isSeed \in [Clients -> -1 .. 2] /\ done \in [Clients -> SUBSET Pieces]
      /\ saved \in [Clients -> (SUBSET Pieces) \cup {None}]
      /\ stale \in [Clients -> {"no", "old", "used"}]
      /\ disk \in [Clients -> SUBSET (Pieces \X Blocks)]
  BY Parts DEF Types
<1>3. new \in SUBSET Pieces
  <2>1. CASE mode = 1
    <3>1. saved[c] \in (SUBSET Pieces) \cup {None} /\ saved[c] # None
      BY <1>1, <1>2, <2>1
    <3>2. saved[c] \in SUBSET Pieces
      BY <3>1
    <3> QED
      BY <2>1, <3>2
  <2>2. CASE mode # 1
    BY <2>2
  <2> QED
    BY <2>1, <2>2
<1>4. /\ mode = 0 => new = {} /\ (stale[c] = "no" /\ saved[c] # None => mark = "old")
      /\ mode = 1 => new = saved[c] /\ (stale[c] = "old" => mark = "used")
      /\ mode = 2 => new = Pieces
      /\ mark \in {"no", "old", "used"}
      /\ mark = "no" => stale[c] = "no"
      /\ stale[c] = "used" => mark = "used"
  <2>1. stale[c] \in {"no", "old", "used"}
    BY <1>2
  <2> QED
    BY <2>1
<1> HIDE DEF new, mark
<1>5. /\ isSeed' \in [Clients -> -1 .. 2] /\ isSeed'[c] = mode
      /\ \A d \in Clients \ {c} : isSeed'[d] = isSeed[d]
  BY <1>1, <1>2
<1>6. /\ done' \in [Clients -> SUBSET Pieces] /\ done'[c] = new
      /\ \A d \in Clients \ {c} : done'[d] = done[d]
  BY <1>1, <1>2, <1>3
<1>7. /\ disk' \in [Clients -> SUBSET (Pieces \X Blocks)]
      /\ disk'[c] = IF mode = 0 THEN {} ELSE disk[c]
      /\ \A d \in Clients \ {c} : disk'[d] = disk[d]
  BY <1>1, <1>2
<1>8. /\ stale' \in [Clients -> {"no", "old", "used"}] /\ stale'[c] = mark
      /\ \A d \in Clients \ {c} : stale'[d] = stale[d]
  BY <1>1, <1>2, <1>4
<1>9. NoneStale' => NoneStale /\ mark # "used"
  <2> SUFFICES ASSUME \A d \in Clients : stale'[d] # "used"
               PROVE  NoneStale /\ mark # "used"
    BY DEF NoneStale
  <2>1. mark # "used" /\ stale[c] # "used"
    BY <1>4, <1>8
  <2> QED
    BY <1>8, <2>1 DEF NoneStale
<1>10. NoneStale' => done'[c] \X Blocks \subseteq disk'[c]
  <2> HAVE NoneStale'
  <2>1. NoneStale /\ mark # "used"
    BY <1>9
  <2>2. CASE mode = 0
    BY <1>4, <1>6, <2>2
  <2>3. CASE mode = 1
    <3>1. saved[c] # None /\ stale[c] = "no"
      BY <1>1, <1>2, <1>4, <2>1, <2>3 DEF NoneStale
    <3>2. saved[c] \X Blocks \subseteq disk[c]
      BY <1>2, <2>1, <3>1 DEF Holds
    <3> QED
      BY <1>4, <1>6, <1>7, <2>3, <3>2
  <2>4. CASE mode = 2
    <3>1. done[c] = Pieces /\ done[c] \X Blocks \subseteq disk[c]
      BY <1>1, <1>2, <2>1, <2>4 DEF Holds
    <3> QED
      BY <1>4, <1>6, <1>7, <2>4, <3>1
  <2> QED
    BY <2>2, <2>3, <2>4
<1>11. isSeed'[c] = 2 => done'[c] = Pieces
  BY <1>4, <1>5, <1>6
<1>12. c \in Seeds => isSeed'[c] \in {-1, 2} /\ done'[c] = Pieces
  BY <1>1, <1>4, <1>5, <1>6
<1>13. ASSUME NoneStale', stale'[c] = "no", saved'[c] # None
       PROVE  saved'[c] \X Blocks \subseteq disk'[c] /\ saved'[c] \subseteq done'[c]
  <2>1. NoneStale /\ mark = "no" /\ stale[c] = "no" /\ saved[c] # None /\ mode # 0
    BY <1>1, <1>4, <1>8, <1>9, <1>13
  <2>2. saved[c] \X Blocks \subseteq disk[c]
    BY <1>2, <2>1 DEF Holds
  <2>3. saved[c] \in SUBSET Pieces
    <3>1. saved[c] \in (SUBSET Pieces) \cup {None}
      BY <1>2
    <3> QED
      BY <2>1, <3>1
  <2>4. new = saved[c] \/ new = Pieces
    BY <1>4, <2>1
  <2> QED
    BY <1>1, <1>6, <1>7, <2>1, <2>2, <2>3, <2>4
<1>14. Holds(c)'
  BY <1>10, <1>11, <1>12, <1>13 DEF Holds
<1> QED
  BY <1>5, <1>6, <1>7, <1>8, <1>9, <1>14

(* A client that starts has no connection yet.                             *)
LEMMA StartStep ==
    ASSUME IInv, NEW c \in Clients, NEW mode \in 0 .. 2, Start(c, mode)
    PROVE  IInv'
<1>1. /\ Types
      /\ \A d \in Clients : Holds(d) /\ Cardinality(Slots(d)) <= MAXPEER
      /\ \A j \in Conns : \A d \in j[1] :
           /\ EndWell(j, d) /\ end[j][d] \in End /\ chan[j][d] \in Seq(Message)
           /\ AllFit(chan[j][d], done[d], Reach(j, d), NoneStale)
  BY Parts
<1>2. /\ isSeed' \in [Clients -> -1 .. 2] /\ done' \in [Clients -> SUBSET Pieces]
      /\ disk' \in [Clients -> SUBSET (Pieces \X Blocks)]
      /\ stale' \in [Clients -> {"no", "old", "used"}]
      /\ \A d \in Clients \ {c} : /\ isSeed'[d] = isSeed[d] /\ done'[d] = done[d]
                                  /\ disk'[d] = disk[d] /\ stale'[d] = stale[d]
      /\ NoneStale' => NoneStale
      /\ Holds(c)'
  BY StartHolds
<1>3. /\ ~Up(c) /\ UNCHANGED <<saved, end, chan>>
      /\ owner' = [owner EXCEPT ![c] = [i \in Pieces |-> None]]
      /\ count' = [count EXCEPT ![c] = [i \in Pieces |-> 0]]
  BY DEF Start
<1>4. /\ owner' \in [Clients -> [Pieces -> Conns \cup {None}]]
      /\ count' \in [Clients -> [Pieces -> Nat]]
  <2> DEFINE none == [i \in Pieces |-> None]
             zero == [i \in Pieces |-> 0]
  <2>1. none \in [Pieces -> Conns \cup {None}] /\ zero \in [Pieces -> Nat]
    OBVIOUS
  <2>2. /\ owner \in [Clients -> [Pieces -> Conns \cup {None}]]
        /\ count \in [Clients -> [Pieces -> Nat]]
        /\ owner' = [owner EXCEPT ![c] = none] /\ count' = [count EXCEPT ![c] = zero]
    BY <1>1, <1>3 DEF Types
  <2> HIDE DEF none, zero
  <2> QED
    BY <2>1, <2>2
<1>5. Types'
  BY <1>1, <1>2, <1>3, <1>4 DEF Types
<1>6. ASSUME NEW d \in Clients
      PROVE  Holds(d)' /\ Cardinality(Slots(d)') <= MAXPEER
  <2>1. Slots(d)' = Slots(d)
    BY <1>3 DEF Slots, ConnsOf
  <2>2. Cardinality(Slots(d)') <= MAXPEER
    BY <1>1, <2>1
  <2>3. d # c => Holds(d)'
    BY <1>1, <1>2, <1>3 DEF Holds, Up
  <2> QED
    BY <1>2, <2>2, <2>3
<1>7. ASSUME NEW j \in Conns, NEW d \in j[1]
      PROVE  /\ EndWell(j, d)'
             /\ AllFit(chan'[j][d], done'[d], Reach(j, d)', NoneStale')
  <2>1. /\ d \in Clients /\ EndWell(j, d) /\ Other(j, d) \in j[1]
        /\ Other(j, d) \in Clients
        /\ AllFit(chan[j][d], done[d], Reach(j, d), NoneStale)
    BY <1>1, Pair
  <2>2. Reach(j, d)' = Reach(j, d)
    <3>1. CASE Other(j, d) = c
      <4>1. end[j][c].pc = "none"
        BY <1>1, <1>3, <2>1, <3>1 DEF EndWell
      <4> QED
        BY <1>3, <3>1, <4>1 DEF Reach
    <3>2. CASE Other(j, d) # c
      BY <1>2, <1>3, <2>1, <3>2 DEF Reach
    <3> QED
      BY <3>1, <3>2
  <2>3. CASE d = c
    <3>1. end[j][d].pc = "none"
      BY <1>3, <2>1, <2>3 DEF EndWell
    <3>2. end'[j][d] = NoEnd /\ chan'[j][d] = <<>>
      BY <1>3, <2>1, <3>1 DEF EndWell
    <3> QED
      BY <3>2 DEF EndWell, Known, Written, AllFit, NoEnd
  <2>4. CASE d # c
    <3>1. done'[d] = done[d] /\ disk'[d] = disk[d] /\ (Up(d)' <=> Up(d))
      BY <1>2, <2>1, <2>4 DEF Up
    <3>2. EndWell(j, d)'
      BY <1>2, <1>3, <2>1, <2>2, <3>1 DEF EndWell
    <3>3. AllFit(chan'[j][d], done'[d], Reach(j, d)', NoneStale')
      BY <1>2, <1>3, <2>1, <2>2, <3>1 DEF AllFit, Fits
    <3> QED
      BY <3>2, <3>3
  <2> QED
    BY <2>3, <2>4
<1> QED
  BY <1>5, <1>6, <1>7 DEF IInv

-----------------------------------------------------------------------------
(* The theorems.                                                           *)

(* The initial states satisfy the invariant.                               *)
LEMMA InitIInv == Init => IInv
<1> SUFFICES ASSUME Init
             PROVE  IInv
  OBVIOUS
<1>1. \A k \in Conns : \A c \in k[1] : c \in Clients
  BY Pair
<1>2. NoEnd \in End /\ <<>> \in Seq(Message)
  <2>1. NoEnd \in End
    BY DEF NoEnd, End, State
  <2>2. <<>> \in Seq(Message)
    OBVIOUS
  <2> QED
    BY <2>1, <2>2
<1>3. /\ \A k \in Conns : \A c \in k[1] : end[k][c] = NoEnd /\ chan[k][c] = <<>>
      /\ end = [k \in Conns |-> [c \in k[1] |-> end[k][c]]]
      /\ chan = [k \in Conns |-> [c \in k[1] |-> chan[k][c]]]
  BY DEF Init
<1>4. \A k \in Conns : \A c \in k[1] :
        /\ end[k][c] = NoEnd /\ chan[k][c] = <<>>
        /\ end[k][c].pc = "none" /\ end[k][c].piece = -1 /\ end[k][c].bits = {}
        /\ end[k][c].req = Nothing /\ end[k][c].save = Nothing
  <2>1. /\ NoEnd.pc = "none" /\ NoEnd.piece = -1 /\ NoEnd.bits = {}
        /\ NoEnd.req = Nothing /\ NoEnd.save = Nothing
    BY DEF NoEnd
  <2>2. \A k \in Conns : \A c \in k[1] : end[k][c] = NoEnd /\ chan[k][c] = <<>>
    BY <1>3
  <2> QED
    BY <2>1, <2>2
<1>5. OnEnds(end, End) /\ OnEnds(chan, Seq(Message))
  BY <1>2, <1>3 DEF OnEnds
<1>6. /\ isSeed \in [Clients -> -1 .. 2] /\ done \in [Clients -> SUBSET Pieces]
      /\ owner \in [Clients -> [Pieces -> Conns \cup {None}]]
      /\ count \in [Clients -> [Pieces -> Nat]]
      /\ stale \in [Clients -> {"no", "old", "used"}]
  BY DEF Init
<1>7. saved \in [Clients -> (SUBSET Pieces) \cup {None}]
  <2>1. Saved \subseteq SUBSET Pieces
    BY TorrentAssumption DEF Pieces
  <2> QED
    BY <2>1 DEF Init
<1>8. ASSUME NEW c \in Clients
      PROVE  /\ isSeed[c] = IF c \in Seeds THEN 2 ELSE IF c \in Earlier THEN -1 ELSE 0
             /\ done[c] = IF c \in Seeds THEN Pieces ELSE {}
             /\ disk[c] = IF c \in Seeds THEN Pieces \X Blocks
                          ELSE IF c \in Earlier /\ stale[c] = "no" THEN saved[c] \X Blocks
                          ELSE {}
             /\ (c \in Earlier <=> saved[c] # None)
             /\ c \in Earlier => c \notin Seeds
  BY TorrentAssumption DEF Init
<1>9. disk \in [Clients -> SUBSET (Pieces \X Blocks)]
  <2>1. ASSUME NEW c \in Clients
        PROVE  disk[c] \in SUBSET (Pieces \X Blocks)
    <3>1. c \in Earlier => saved[c] \in SUBSET Pieces
      <4>1. saved[c] \in (SUBSET Pieces) \cup {None}
        BY <1>7
      <4> QED
        BY <1>8, <4>1
    <3>2. CASE c \in Seeds
      BY <1>8, <3>2
    <3>3. CASE c \notin Seeds /\ c \in Earlier /\ stale[c] = "no"
      <4>1. disk[c] = saved[c] \X Blocks
        BY <1>8, <3>3
      <4> QED
        BY <3>1, <3>3, <4>1
    <3>4. CASE c \notin Seeds /\ ~(c \in Earlier /\ stale[c] = "no")
      <4>1. disk[c] = {}
        BY <1>8, <3>4
      <4> QED
        BY <4>1
    <3> QED
      BY <3>2, <3>3, <3>4
  <2>2. disk = [c \in Clients |-> disk[c]]
    BY DEF Init
  <2> QED
    BY <2>1, <2>2
<1>10. Types
  BY <1>5, <1>6, <1>7, <1>9 DEF Types
<1>11. ASSUME NEW c \in Clients
       PROVE  Holds(c) /\ Cardinality(Slots(c)) <= MAXPEER
  <2>1. Holds(c)
    <3>1. CASE c \in Seeds
      <4>1. isSeed[c] = 2 /\ done[c] = Pieces /\ disk[c] = Pieces \X Blocks
            /\ saved[c] = None
        BY <1>8, <3>1
      <4> QED
        BY <4>1 DEF Holds
    <3>2. CASE c \in Earlier
      <4>1. /\ isSeed[c] = -1 /\ done[c] = {} /\ c \notin Seeds
            /\ stale[c] = "no" => disk[c] = saved[c] \X Blocks
        BY <1>8, <3>2
      <4> QED
        BY <4>1 DEF Holds, Up
    <3>3. CASE c \notin Seeds /\ c \notin Earlier
      <4>1. isSeed[c] = 0 /\ done[c] = {} /\ saved[c] = None
        BY <1>8, <3>3
      <4> QED
        BY <3>3, <4>1 DEF Holds
    <3> QED
      BY <3>1, <3>2, <3>3
  <2>2. Slots(c) = {}
    BY <1>4 DEF Slots, ConnsOf
  <2>3. Cardinality(Slots(c)) = 0
    BY <2>2, FS_EmptySet
  <2> QED
    BY <2>1, <2>3, TorrentAssumption
<1>12. ASSUME NEW k \in Conns, NEW c \in k[1]
       PROVE  EndWell(k, c) /\ AllFit(chan[k][c], done[c], Reach(k, c), NoneStale)
  <2>1. /\ end[k][c] = NoEnd /\ chan[k][c] = <<>>
        /\ end[k][c].pc = "none" /\ end[k][c].piece = -1 /\ end[k][c].bits = {}
        /\ end[k][c].req = Nothing /\ end[k][c].save = Nothing
    BY <1>4
  <2>2. Known(end[k][c], Reach(k, c)) /\ Written(end[k][c], disk[c])
    BY <2>1 DEF Known, Written
  <2>3. EndWell(k, c)
    BY <2>1, <2>2 DEF EndWell
  <2>4. AllFit(chan[k][c], done[c], Reach(k, c), NoneStale)
    BY <2>1 DEF AllFit
  <2> QED
    BY <2>3, <2>4
<1> QED
  BY <1>10, <1>11, <1>12 DEF IInv

(* Every step of a thread keeps the invariant.                             *)
LEMMA PToPStep ==
    ASSUME IInv, NEW k \in Conns, NEW c \in k[1], PToP(k, c)
    PROVE  IInv'
<1> QED
  BY HandshakeStep, GreetStep, PeerGoneStep, OnInterestedStep, OnUnchokeStep, OnHaveStep,
     OnBitfieldStep, OnRequestStep, OnPieceStep, ShowStep, CheckStep, AskNextStep,
     AskNewStep DEF PToP

(* So does every step of the system.                                       *)
LEMMA NextIInv == IInv /\ [Next]_vars => IInv'
<1> SUFFICES ASSUME IInv, [Next]_vars
             PROVE  IInv'
  OBVIOUS
<1>1. CASE UNCHANGED vars
  <2>1. UNCHANGED <<isSeed, done, disk, owner, count, saved, stale, end, chan>>
    BY <1>1 DEF vars
  <2>2. Types' = Types
    BY <2>1 DEF Types
  <2>3. (NoneStale' = NoneStale) /\ \A c : Up(c)' = Up(c) /\ Slots(c)' = Slots(c)
    BY <2>1 DEF NoneStale, Up, Slots, ConnsOf
  <2>4. \A c : Holds(c)' = Holds(c)
    BY <2>1, <2>3 DEF Holds
  <2>5. \A k, c : Reach(k, c)' = Reach(k, c)
    BY <2>1 DEF Reach
  <2>6. \A k, c : EndWell(k, c)' = EndWell(k, c)
    BY <2>1, <2>3, <2>5 DEF EndWell
  <2> QED
    BY <2>1, <2>2, <2>3, <2>4, <2>5, <2>6 DEF IInv
<1>2. ASSUME NEW c \in Clients, NEW d \in Clients, Connect(c, d)
      PROVE  IInv'
  BY <1>2, ConnectStep
<1>3. ASSUME NEW c \in Clients, NEW k \in ConnsOf(c), Accept(k, c) \/ PToP(k, c)
      PROVE  IInv'
  <2>1. k \in Conns /\ c \in k[1]
    BY DEF ConnsOf
  <2> QED
    BY <1>3, <2>1, AcceptStep, PToPStep
<1>4. ASSUME NEW c \in Clients, Shutdown(c) \/ Kill(c)
      PROVE  IInv'
  BY <1>4, ShutdownStep, KillStep
<1>5. ASSUME NEW c \in Clients, NEW mode \in 0 .. 2, Start(c, mode)
      PROVE  IInv'
  BY <1>5, StartStep
<1> QED
  BY <1>1, <1>2, <1>3, <1>4, <1>5 DEF Next

-----------------------------------------------------------------------------
(* Blocks are asked for, sent and saved in one order.                      *)

(* Where a connection is at after the block of m.                          *)
After(m) ==
  IF IsLast(m.offset) THEN Nothing ELSE [index |-> m.index, offset |-> m.offset + 1]

(* A message of type t is about the block that a says, or about the first  *)
(* one of a piece if a says none, and leads to b; others lead nowhere.     *)
Step(m, t, a, b) ==
  IF m.type = t
  THEN /\ \/ a = Nothing /\ m.offset = 0
          \/ a = [index |-> m.index, offset |-> m.offset]
       /\ b = After(m)
  ELSE b = a

(* The messages of type t in s lead from a to b.                           *)
Runs(s, t, a, b) ==
  \E f \in [0 .. Len(s) -> State] :
    /\ f[0] = a /\ f[Len(s)] = b
    /\ \A n \in 1 .. Len(s) : Step(s[n], t, f[n - 1], f[n])

(* The pieces on their way to an end and then the requests on their way    *)
(* from it lead from the block it saves next to the one it asks for next.  *)
Ordered(save, in, out, req, away) ==
  \E mid \in State : Runs(in, "piece", save, mid) /\ (~away => Runs(out, "request", mid, req))

(* The requests on their way to an end that is gone or astray are lost.    *)
Away(e) == e.pc \in {"none", "astray"}

(* Only an end that asks is sent pieces.                                   *)
Lacks(s, t) == \A n \in 1 .. Len(s) : s[n].type # t
Young(e) == e.pc \in {"backlog", "slot", "hand", "astray"}

Order(k, c) ==
  /\ end[k][c].pc # "none" /\ isSeed[c] # 2 =>
       Ordered(end[k][c].save, chan[k][c], chan[k][Other(k, c)], end[k][c].req,
               Away(end[k][Other(k, c)]))
  /\ Young(end[k][c]) =>
       Lacks(chan[k][c], "piece") /\ Lacks(chan[k][Other(k, c)], "request")

OInv == \A k \in Conns : \A c \in k[1] : Order(k, c)

(* Nothing leads nowhere.                                                  *)
LEMMA RunsEmpty ==
    ASSUME NEW t, NEW a \in State
    PROVE  Runs(<<>>, t, a, a)
<1> DEFINE f == [n \in 0 .. 0 |-> a]
<1>1. Len(<<>>) = 0
  OBVIOUS
<1>2. f \in [0 .. 0 -> State] /\ f[0] = a
  OBVIOUS
<1>3. 1 .. 0 = {}
  OBVIOUS
<1> HIDE DEF f
<1>4. \E g \in [0 .. 0 -> State] :
        g[0] = a /\ g[0] = a /\ \A n \in 1 .. 0 : Step(<<>>[n], t, g[n - 1], g[n])
  BY <1>2, <1>3
<1> QED
  BY <1>1, <1>4 DEF Runs

(* One message more at the end.                                            *)
LEMMA RunsAppend ==
    ASSUME NEW t, NEW s \in Seq(Message), NEW m \in Message, NEW a, NEW b,
           NEW z \in State, Runs(s, t, a, b), Step(m, t, b, z)
    PROVE  Runs(Append(s, m), t, a, z)
<1> DEFINE r == Append(s, m)
           N == Len(s)
<1>1. /\ Len(r) = N + 1 /\ N \in Nat
      /\ r[N + 1] = m /\ \A n \in 1 .. N : r[n] = s[n]
  BY AppendElements
<1>2. PICK f \in [0 .. N -> State] :
        f[0] = a /\ f[N] = b /\ \A n \in 1 .. N : Step(s[n], t, f[n - 1], f[n])
  BY DEF Runs
<1> DEFINE g == [n \in 0 .. N + 1 |-> IF n = N + 1 THEN z ELSE f[n]]
<1> HIDE DEF r, N
<1>3. g \in [0 .. N + 1 -> State] /\ g[N + 1] = z /\ \A n \in 0 .. N : g[n] = f[n]
  BY <1>1, <1>2
<1> HIDE DEF g
<1>4. g[0] = a /\ g[N] = b
  BY <1>1, <1>2, <1>3
<1>5. ASSUME NEW n \in 1 .. N + 1
      PROVE  Step(r[n], t, g[n - 1], g[n])
  <2>1. CASE n = N + 1
    <3>1. n - 1 = N
      BY <1>1, <2>1
    <3> QED
      BY <1>1, <1>3, <1>4, <2>1, <3>1
  <2>2. CASE n # N + 1
    <3>1. n \in 1 .. N /\ n \in 0 .. N /\ n - 1 \in 0 .. N
      BY <1>1, <2>2
    <3>2. r[n] = s[n] /\ g[n] = f[n] /\ g[n - 1] = f[n - 1]
      BY <1>1, <1>3, <3>1
    <3> QED
      BY <1>2, <3>1, <3>2
  <2> QED
    BY <2>1, <2>2
<1> QED
  BY <1>1, <1>3, <1>4, <1>5 DEF Runs, r

(* The first message leads to where the others start.                      *)
LEMMA RunsTail ==
    ASSUME NEW t, NEW s \in Seq(Message), s # <<>>, NEW a, NEW b, Runs(s, t, a, b)
    PROVE  \E x \in State : Step(Head(s), t, a, x) /\ Runs(Tail(s), t, x, b)
<1> DEFINE r == Tail(s)
           M == Len(r)
<1>1. /\ Len(s) = M + 1 /\ M \in Nat /\ Head(s) = s[1]
      /\ \A n \in 1 .. M : r[n] = s[n + 1]
  BY TailElements
<1>2. PICK f \in [0 .. M + 1 -> State] :
        /\ f[0] = a /\ f[M + 1] = b
        /\ \A n \in 1 .. M + 1 : Step(s[n], t, f[n - 1], f[n])
  BY <1>1 DEF Runs
<1> DEFINE g == [n \in 0 .. M |-> f[n + 1]]
<1> HIDE DEF r, M
<1>3. g \in [0 .. M -> State] /\ \A n \in 0 .. M : g[n] = f[n + 1]
  BY <1>1, <1>2
<1> HIDE DEF g
<1>4. g[0] = f[1] /\ g[M] = b /\ f[1] \in State
  BY <1>1, <1>2, <1>3
<1>5. Step(Head(s), t, a, f[1])
  <2>1. 1 \in 1 .. M + 1 /\ 1 - 1 = 0
    BY <1>1
  <2>2. Step(s[1], t, f[1 - 1], f[1])
    BY <1>2, <2>1
  <2> QED
    BY <1>1, <1>2, <2>1, <2>2
<1>6. ASSUME NEW n \in 1 .. M
      PROVE  Step(r[n], t, g[n - 1], g[n])
  <2>1. n + 1 \in 1 .. M + 1 /\ n \in 0 .. M /\ n - 1 \in 0 .. M /\ (n - 1) + 1 = n
        /\ (n + 1) - 1 = n
    BY <1>1
  <2>2. Step(s[n + 1], t, f[(n + 1) - 1], f[n + 1])
    BY <1>2, <2>1
  <2>3. g[n - 1] = f[n] /\ g[n] = f[n + 1]
    BY <1>3, <2>1
  <2> QED
    BY <1>1, <2>1, <2>2, <2>3
<1>7. Runs(r, t, f[1], b)
  BY <1>3, <1>4, <1>6 DEF Runs, M
<1> QED
  BY <1>4, <1>5, <1>7 DEF r

(* What may happen to messages without any of type t being read or sent.   *)
Alike(s, r, t) ==
  \/ r = s
  \/ s # <<>> /\ r = Tail(s) /\ Head(s).type # t
  \/ \E m \in Message : r = Append(s, m) /\ m.type # t

(* It leads where it led, and to no message of that type.                  *)
LEMMA RunsAlike ==
    ASSUME NEW t, NEW s \in Seq(Message), NEW r, Alike(s, r, t)
    PROVE  /\ \A a, b : b \in State /\ Runs(s, t, a, b) => Runs(r, t, a, b)
           /\ Lacks(s, t) => Lacks(r, t)
<1>1. CASE r = s
  BY <1>1
<1>2. CASE s # <<>> /\ r = Tail(s) /\ Head(s).type # t
  <2>1. ASSUME NEW a, NEW b, Runs(s, t, a, b)
        PROVE  Runs(r, t, a, b)
    <3>1. PICK x \in State : Step(Head(s), t, a, x) /\ Runs(Tail(s), t, x, b)
      BY <1>2, <2>1, RunsTail
    <3> QED
      BY <1>2, <3>1 DEF Step
  <2>2. ASSUME Lacks(s, t)
        PROVE  Lacks(r, t)
    BY <1>2, <2>2, TailElements DEF Lacks
  <2> QED
    BY <2>1, <2>2
<1>3. CASE \E m \in Message : r = Append(s, m) /\ m.type # t
  <2>1. PICK m \in Message : r = Append(s, m) /\ m.type # t
    BY <1>3
  <2>2. ASSUME NEW a, NEW b \in State, Runs(s, t, a, b)
        PROVE  Runs(r, t, a, b)
    <3>1. Step(m, t, b, b)
      BY <2>1 DEF Step
    <3> QED
      BY <2>1, <2>2, <3>1, RunsAppend
  <2>3. ASSUME Lacks(s, t)
        PROVE  Lacks(r, t)
    <3>1. /\ Len(r) = Len(s) + 1 /\ Len(s) \in Nat /\ r[Len(s) + 1] = m
          /\ \A n \in 1 .. Len(s) : r[n] = s[n]
      BY <2>1, AppendElements
    <3>2. ASSUME NEW n \in 1 .. Len(r) PROVE r[n].type # t
      <4>1. n = Len(s) + 1 \/ n \in 1 .. Len(s)
        BY <3>1
      <4> QED
        BY <2>1, <2>3, <3>1, <4>1 DEF Lacks
    <3> QED
      BY <3>2 DEF Lacks
  <2> QED
    BY <2>2, <2>3
<1> QED
  BY <1>1, <1>2, <1>3 DEF Alike

(* A step that an end does not see.                                        *)
Quiet(k, c) ==
  LET d == Other(k, c)
      e == end[k][c]
      f == end'[k][c]
  IN
  /\ f.pc # "none" => e.pc # "none" /\ f.save = e.save /\ f.req = e.req
  /\ isSeed[c] = 2 => isSeed'[c] = 2
  /\ Away(end[k][d]) => Away(end'[k][d])
  /\ Young(f) => Young(e)
  /\ Alike(chan[k][c], chan'[k][c], "piece")
  /\ \/ Alike(chan[k][d], chan'[k][d], "request")
     \/ Away(end'[k][d]) /\ (Lacks(chan[k][d], "request") => Lacks(chan'[k][d], "request"))

(* An end that a step is quiet for, or that is gone, stays in order.        *)
LEMMA QuietOrder ==
    ASSUME IInv, OInv, NEW k \in Conns, NEW c \in k[1],
           Quiet(k, c) \/ end'[k][c].pc = "none"
    PROVE  Order(k, c)'
<1> DEFINE d == Other(k, c)
<1>1. d \in k[1] /\ Other(k, c)' = d
  BY Pair DEF Other
<1>2. /\ chan[k][c] \in Seq(Message) /\ chan[k][d] \in Seq(Message)
      /\ end[k][c] \in End
  BY <1>1, Parts
<1>3. Order(k, c)
  BY DEF OInv
<1>4. CASE end'[k][c].pc = "none"
  BY <1>4 DEF Order, Young
<1>5. CASE end'[k][c].pc # "none"
  <2> DEFINE e == end[k][c]
             f == end'[k][c]
             in == chan[k][c]
             in2 == chan'[k][c]
             out == chan[k][d]
             out2 == chan'[k][d]
             away == Away(end[k][d])
             away2 == Away(end'[k][d])
  <2>1. /\ e.pc # "none" /\ f.save = e.save /\ f.req = e.req
        /\ isSeed[c] = 2 => isSeed'[c] = 2
        /\ away => away2
        /\ Young(f) => Young(e)
        /\ Alike(in, in2, "piece")
        /\ \/ Alike(out, out2, "request")
           \/ away2 /\ (Lacks(out, "request") => Lacks(out2, "request"))
    BY <1>5 DEF Quiet
  <2>2. /\ isSeed[c] # 2 => Ordered(e.save, in, out, e.req, away)
        /\ Young(e) => Lacks(in, "piece") /\ Lacks(out, "request")
    BY <1>3, <2>1 DEF Order
  <2>3. e.req \in State
    BY <1>2 DEF End
  <2>4. in \in Seq(Message) /\ out \in Seq(Message)
    BY <1>2
  <2> HIDE DEF e, f, in, in2, out, out2, away, away2, d
  <2>5. Young(f) => Lacks(in2, "piece") /\ Lacks(out2, "request")
    BY <2>1, <2>2, <2>4, RunsAlike
  <2>6. ASSUME isSeed'[c] # 2
        PROVE  Ordered(f.save, in2, out2, f.req, away2)
    <3>1. PICK mid \in State : /\ Runs(in, "piece", e.save, mid)
                               /\ ~away => Runs(out, "request", mid, e.req)
      BY <2>1, <2>2, <2>6 DEF Ordered
    <3>2. Runs(in2, "piece", e.save, mid)
      BY <2>1, <2>4, <3>1, RunsAlike
    <3>3. ~away2 => Runs(out2, "request", mid, e.req)
      BY <2>1, <2>3, <2>4, <3>1, RunsAlike
    <3> QED
      BY <2>1, <3>2, <3>3 DEF Ordered
  <2> QED
    BY <1>1, <2>5, <2>6 DEF Order, f, in2, out2, away2, d
<1> QED
  BY <1>4, <1>5

(* Messages of neither type are read or sent.                              *)
Calm(s, r) == Alike(s, r, "piece") /\ Alike(s, r, "request")

(* A thread that handles other messages keeps the order.                   *)
LEMMA CalmThread ==
    ASSUME IInv, OInv, NEW k \in Conns, NEW c \in k[1], NEW e \in End,
           end' = Put(end, k, c, e),
           ~Away(end[k][c]), e.save = end[k][c].save, e.req = end[k][c].req,
           Young(e) => Young(end[k][c]),
           \A d \in Clients : isSeed[d] = 2 => isSeed'[d] = 2,
           \A j \in Conns : \A d \in j[1] : Calm(chan[j][d], chan'[j][d])
    PROVE  OInv'
<1>1. /\ end'[k][c] = e
      /\ \A j \in Conns : \A d \in j[1] : j # k \/ d # c => end'[j][d] = end[j][d]
  <2>1. OnEnds(end, End)
    BY Parts DEF Types
  <2>2. /\ Put(end, k, c, e)[k][c] = e
        /\ \A j \in Conns : \A d \in j[1] :
             j # k \/ d # c => Put(end, k, c, e)[j][d] = end[j][d]
    BY <2>1, PutEnd
  <2> QED
    BY <2>2, Zenon
<1>2. ASSUME NEW j \in Conns, NEW d \in j[1]
      PROVE  Order(j, d)'
  <2>1. d \in Clients /\ Other(j, d) \in j[1]
    BY Pair
  <2>2. /\ Alike(chan[j][d], chan'[j][d], "piece")
        /\ Alike(chan[j][Other(j, d)], chan'[j][Other(j, d)], "request")
    BY <2>1 DEF Calm
  <2>3. /\ end'[j][d].save = end[j][d].save /\ end'[j][d].req = end[j][d].req
        /\ Young(end'[j][d]) => Young(end[j][d])
    BY <1>1
  <2>4. end'[j][d].pc # "none" => end[j][d].pc # "none"
    BY <1>1 DEF Away
  <2>5. Away(end[j][Other(j, d)]) => Away(end'[j][Other(j, d)])
    BY <1>1, <2>1
  <2>6. Quiet(j, d)
    BY <2>1, <2>2, <2>3, <2>4, <2>5 DEF Quiet
  <2> QED
    BY <2>6, QuietOrder
<1> QED
  BY <1>2 DEF OInv

(* A thread reads a message or not, and sends one or not.                  *)
Plain(m) == m.type \notin {"piece", "request"}
Chats(k, c) ==
  \E m \in Message :
    /\ Plain(m)
    /\ \/ chan' = chan \/ chan' = Send(chan, k, c, m)
       \/ /\ chan[k][c] # <<>> /\ Plain(Head(chan[k][c]))
          /\ chan' = Read(k, c) \/ chan' = Send(Read(k, c), k, c, m)

(* What is on its way then.                                                *)
LEMMA CalmMail ==
    ASSUME Types, NEW k \in Conns, NEW c \in k[1], Chats(k, c)
    PROVE  \A j \in Conns : \A d \in j[1] : Calm(chan[j][d], chan'[j][d])
<1>1. PICK m \in Message, ch \in {chan, Read(k, c)} :
        /\ Plain(m)
        /\ chan' = ch \/ chan' = Send(ch, k, c, m)
        /\ ch = chan \/ (chan[k][c] # <<>> /\ ch = Read(k, c) /\ Plain(Head(chan[k][c])))
  BY DEF Chats
<1>2. /\ OnEnds(ch, Seq(Message))
      /\ \A j \in Conns : \A d \in j[1] : j # k \/ d # c => ch[j][d] = chan[j][d]
      /\ \/ ch[k][c] = chan[k][c]
         \/ chan[k][c] # <<>> /\ ch[k][c] = Tail(chan[k][c]) /\ Plain(Head(chan[k][c]))
  <2>1. CASE ch = chan
    BY <2>1 DEF Types
  <2>2. CASE chan[k][c] # <<>> /\ ch = Read(k, c) /\ Plain(Head(chan[k][c]))
    BY <2>2, ReadEnd
  <2> QED
    BY <1>1, <2>1, <2>2
<1>3. \A j \in Conns : \A d \in j[1] : Calm(chan[j][d], ch[j][d])
  BY <1>2 DEF Calm, Alike, Plain
<1>4. CASE chan' = ch
  BY <1>3, <1>4
<1>5. CASE chan' = Send(ch, k, c, m)
  <2>1. OnEnds(ch, Seq(Message))
    BY <1>2
  <2>2. \A j \in Conns : \A d \in j[1] :
          \/ Send(ch, k, c, m)[j][d] = ch[j][d]
          \/ /\ j = k /\ d = Other(k, c) /\ end[j][d].pc # "none"
             /\ Send(ch, k, c, m)[j][d] = Append(ch[j][d], m)
    BY <2>1, SendEnd
  <2>3. \A j \in Conns : \A d \in j[1] :
          \/ chan'[j][d] = ch[j][d]
          \/ /\ j = k /\ d = Other(k, c) /\ end[j][d].pc # "none"
             /\ chan'[j][d] = Append(ch[j][d], m)
    BY <1>5, <2>2, Zenon
  <2>4. Other(k, c) # c
    BY Pair
  <2> SUFFICES ASSUME NEW j \in Conns, NEW d \in j[1]
               PROVE  Calm(chan[j][d], chan'[j][d])
    OBVIOUS
  <2>5. CASE chan'[j][d] = ch[j][d]
    BY <1>3, <2>5
  <2>6. CASE j = k /\ d = Other(k, c) /\ chan'[j][d] = Append(ch[j][d], m)
    <3>1. ch[j][d] = chan[j][d]
      BY <1>2, <2>4, <2>6
    <3>2. chan'[j][d] = Append(chan[j][d], m)
      BY <2>6, <3>1
    <3>3. Plain(m)
      BY <1>1
    <3>4. m.type # "piece" /\ m.type # "request"
      BY <3>3 DEF Plain
    <3> QED
      BY <3>2, <3>4 DEF Calm, Alike
  <2> QED
    BY <2>3, <2>5, <2>6
<1> QED
  BY <1>1, <1>4, <1>5

(* Neither does a thread that handles any but requests and pieces.         *)
LEMMA CalmStep ==
    ASSUME IInv, OInv, NEW k \in Conns, NEW c \in k[1], NEW e \in End,
           end' = Put(end, k, c, e),
           ~Away(end[k][c]), e.save = end[k][c].save, e.req = end[k][c].req,
           Young(e) => Young(end[k][c]),
           \A d \in Clients : isSeed[d] = 2 => isSeed'[d] = 2,
           Chats(k, c)
    PROVE  OInv'
<1>1. Types
  BY Parts
<1>2. \A j \in Conns : \A d \in j[1] : Calm(chan[j][d], chan'[j][d])
  BY <1>1, CalmMail
<1> QED
  BY <1>2, CalmThread

(* The handshakes, the bitfields and the news keep the order.              *)
LEMMA HandshakeOrder ==
    ASSUME IInv, OInv, NEW k \in Conns, NEW c \in k[1], Handshake(k, c)
    PROVE  OInv'
<1>1. end[k][c].pc = "slot" /\ end[k][c].pc # "none" /\ UNCHANGED isSeed
  BY DEF Handshake, client
<1>2. end[k][c] \in End
  BY <1>1, Thread
<1> DEFINE e == [end[k][c] EXCEPT !.pc = "hand"]
<1>3. e \in End
  BY <1>2, Ends
<1>4. e.req = end[k][c].req /\ e.save = end[k][c].save
  BY <1>2 DEF End
<1>5. end' = Put(end, k, c, e)
  BY DEF Handshake, Put
<1> HIDE DEF e
<1> DEFINE m == Msg("hand")
<1>8. /\ m \in Message /\ m.type \notin {"piece", "request"}
      /\ chan' = Send(chan, k, c, m)
  BY DEF Message, Msg, Handshake
<1> HIDE DEF m
<1>6. Chats(k, c)
  BY <1>8 DEF Chats, Plain
<1>7. ~Away(end[k][c]) /\ Young(end[k][c])
  BY <1>1 DEF Away, Young
<1> QED
  BY <1>1, <1>3, <1>4, <1>5, <1>6, <1>7, CalmStep

(* A thread that finds no handshake has been sent no block, and is astray. *)
LEMMA GreetOrder ==
    ASSUME IInv, OInv, NEW k \in Conns, NEW c \in k[1], Greet(k, c)
    PROVE  OInv'
<1>1. /\ end[k][c].pc = "hand" /\ end[k][c].pc # "none" /\ chan[k][c] # <<>>
      /\ UNCHANGED isSeed
  BY DEF Greet, client
<1>2. /\ Types /\ end[k][c] \in End /\ c \in Clients /\ OnEnds(end, End)
  BY <1>1, Thread
<1>3. ~Away(end[k][c]) /\ Young(end[k][c])
  BY <1>1 DEF Away, Young
<1>4. CASE Head(chan[k][c]).type = "hand"
  <2> DEFINE e == [end[k][c] EXCEPT !.pc = "read"]
  <2>1. e \in End
    BY <1>2, Ends
  <2>2. e.req = end[k][c].req /\ e.save = end[k][c].save
    BY <1>2 DEF End
  <2>3. end' = Put(end, k, c, e)
    BY <1>4 DEF Greet, Put
  <2> HIDE DEF e
  <2> DEFINE m == [type |-> "bitfield", bits |-> done[c]]
  <2>4. m \in Message /\ m.type \notin {"piece", "request"}
    BY <1>2 DEF Message, Types
  <2>8. chan' = Read(k, c) \/ chan' = Send(Read(k, c), k, c, m)
    BY <1>4 DEF Greet, Read
  <2> HIDE DEF m
  <2>5. Head(chan[k][c]).type \notin {"piece", "request"}
    BY <1>4
  <2>6. Chats(k, c)
    BY <1>1, <2>4, <2>5, <2>8 DEF Chats, Plain
  <2> QED
    BY <1>1, <1>3, <2>1, <2>2, <2>3, <2>6, CalmStep
<1>5. CASE Head(chan[k][c]).type # "hand"
  <2> DEFINE e == [end[k][c] EXCEPT !.pc = "astray"]
  <2>1. e \in End /\ e.req = end[k][c].req /\ e.save = end[k][c].save /\ e.pc = "astray"
    <3>1. e \in End
      BY <1>2, Ends
    <3>2. e.req = end[k][c].req /\ e.save = end[k][c].save /\ e.pc = "astray"
      BY <1>2 DEF End
    <3> QED
      BY <3>1, <3>2
  <2>2. end' = Put(end, k, c, e) /\ chan' = Read(k, c)
    BY <1>5 DEF Greet, Put, Read
  <2> HIDE DEF e
  <2>3. /\ end'[k][c] = e
        /\ \A j \in Conns : \A d \in j[1] : j # k \/ d # c => end'[j][d] = end[j][d]
    <3>1. /\ Put(end, k, c, e)[k][c] = e
          /\ \A j \in Conns : \A d \in j[1] :
               j # k \/ d # c => Put(end, k, c, e)[j][d] = end[j][d]
      BY <1>2, <2>1, PutEnd
    <3> QED
      BY <2>2, <3>1, Zenon
  <2>4. /\ chan'[k][c] = Tail(chan[k][c])
        /\ \A j \in Conns : \A d \in j[1] : j # k \/ d # c => chan'[j][d] = chan[j][d]
    <3>1. /\ Read(k, c)[k][c] = Tail(chan[k][c])
          /\ \A j \in Conns : \A d \in j[1] :
               j # k \/ d # c => Read(k, c)[j][d] = chan[j][d]
      BY <1>1, <1>2, ReadEnd
    <3> QED
      BY <2>2, <3>1, Zenon
  <2>5. chan[k][c] \in Seq(Message) /\ Head(chan[k][c]).type # "piece"
    <3>1. Lacks(chan[k][c], "piece")
      BY <1>3 DEF OInv, Order
    <3>2. chan[k][c] \in Seq(Message)
      BY Parts
    <3> QED
      BY <1>1, <3>1, <3>2, TailElements DEF Lacks
  <2>6. Lacks(chan[k][c], "request") => Lacks(chan'[k][c], "request")
    BY <1>1, <2>4, <2>5, TailElements DEF Lacks
  <2>7. Away(e) /\ Young(e)
    BY <2>1 DEF Away, Young
  <2>8. ASSUME NEW j \in Conns, NEW d \in j[1]
        PROVE  Order(j, d)'
    <3>1. Other(j, d) \in j[1] /\ Other(j, d) # d
      BY Pair
    <3>2. Alike(chan[j][d], chan'[j][d], "piece")
      BY <1>1, <2>4, <2>5 DEF Alike
    <3>3. \/ Alike(chan[j][Other(j, d)], chan'[j][Other(j, d)], "request")
          \/ /\ Away(end'[j][Other(j, d)])
             /\ Lacks(chan[j][Other(j, d)], "request")
                  => Lacks(chan'[j][Other(j, d)], "request")
      <4>1. CASE j = k /\ Other(j, d) = c
        BY <2>3, <2>6, <2>7, <4>1
      <4>2. CASE j # k \/ Other(j, d) # c
        BY <2>4, <3>1, <4>2 DEF Alike
      <4> QED
        BY <4>1, <4>2
    <3>4. /\ end'[j][d].save = end[j][d].save /\ end'[j][d].req = end[j][d].req
          /\ Young(end'[j][d]) => Young(end[j][d])
          /\ end'[j][d].pc # "none" => end[j][d].pc # "none"
      BY <1>1, <1>3, <2>1, <2>3
    <3>5. Away(end[j][Other(j, d)]) => Away(end'[j][Other(j, d)])
      BY <2>3, <2>7, <3>1
    <3>6. Quiet(j, d)
      BY <1>1, <3>2, <3>3, <3>4, <3>5 DEF Quiet
    <3> QED
      BY <3>6, QuietOrder
  <2> QED
    BY <2>8 DEF OInv
<1> QED
  BY <1>4, <1>5

(* A thread that reads another message and may answer with another one.    *)
LEMMA AnswerOrder ==
    ASSUME IInv, OInv, NEW k \in Conns, NEW c \in k[1], end[k][c].pc = "read",
           chan[k][c] # <<>>, Plain(Head(chan[k][c])),
           NEW m \in Message, Plain(m),
           chan' = Read(k, c) \/ chan' = Send(Read(k, c), k, c, m),
           NEW e \in End, end' = Put(end, k, c, e), ~Young(e),
           e.save = end[k][c].save, e.req = end[k][c].req, UNCHANGED isSeed
    PROVE  OInv'
<1>1. ~Away(end[k][c])
  BY DEF Away
<1>2. Chats(k, c)
  BY DEF Chats
<1>3. Young(e) => Young(end[k][c])
  OBVIOUS
<1> QED
  BY <1>1, <1>2, <1>3, CalmStep

(* Interest and permission.                                                *)
LEMMA TalkOrder ==
    ASSUME IInv, OInv, NEW k \in Conns, NEW c \in k[1],
           OnInterested(k, c) \/ OnHave(k, c) \/ OnUnchoke(k, c)
    PROVE  OInv'
<1>1. PICK type \in {"interested", "have", "unchoke"} : Reading(k, c, type)
  BY DEF OnInterested, OnHave, OnUnchoke
<1>2. /\ end[k][c].pc = "read" /\ end[k][c] \in End /\ Put(end, k, c, end[k][c]) = end
      /\ chan[k][c] # <<>> /\ Head(chan[k][c]).type = type
  BY <1>1, ReadingEnd
<1>8. Plain(Head(chan[k][c]))
  BY <1>2 DEF Plain
<1>3. \E m \in Message : /\ Plain(m)
                         /\ chan' = Read(k, c) \/ chan' = Send(Read(k, c), k, c, m)
  <2>1. \A t \in {"interested", "unchoke"} :
          Msg(t) \in Message /\ Plain(Msg(t))
    BY DEF Message, Msg, Plain
  <2>2. \E t \in {"interested", "unchoke"} :
          chan' = Read(k, c) \/ chan' = Send(Read(k, c), k, c, Msg(t))
    BY DEF OnInterested, OnHave, OnUnchoke
  <2> QED
    BY <2>1, <2>2
<1>4. PICK m \in Message : /\ Plain(m)
                           /\ chan' = Read(k, c) \/ chan' = Send(Read(k, c), k, c, m)
  BY <1>3
<1>5. \E e \in End : /\ end' = Put(end, k, c, e) /\ ~Young(e)
                    /\ e.save = end[k][c].save /\ e.req = end[k][c].req
  <2>1. CASE end' = end
    BY <1>2, <2>1 DEF Young
  <2>2. CASE OnUnchoke(k, c)
    <3> DEFINE e == [end[k][c] EXCEPT !.pc = "request"]
    <3>1. end' = Put(end, k, c, e)
      BY <2>2 DEF OnUnchoke, Put
    <3>2. e \in End
      BY <1>2, Ends
    <3>3. e.pc = "request" /\ e.save = end[k][c].save /\ e.req = end[k][c].req
      BY <1>2 DEF End
    <3> HIDE DEF e
    <3> QED
      BY <3>1, <3>2, <3>3 DEF Young
  <2> QED
    BY <2>1, <2>2 DEF OnInterested, OnHave
<1>6. PICK e \in End : /\ end' = Put(end, k, c, e) /\ ~Young(e)
                     /\ e.save = end[k][c].save /\ e.req = end[k][c].req
  BY <1>5
<1>7. UNCHANGED isSeed
  BY DEF OnInterested, OnHave, OnUnchoke, client
<1>9. end[k][c].pc = "read" /\ chan[k][c] # <<>>
  BY <1>2
<1>10. /\ end' = Put(end, k, c, e) /\ ~Young(e)
       /\ e.save = end[k][c].save /\ e.req = end[k][c].req
  BY <1>6
<1>11. Plain(m) /\ (chan' = Read(k, c) \/ chan' = Send(Read(k, c), k, c, m))
  BY <1>4
<1> QED
  BY <1>7, <1>8, <1>9, <1>10, <1>11, AnswerOrder

(* A side that is given up.                                                *)
LEMMA HangupOrder ==
    ASSUME IInv, OInv, NEW k \in Conns, NEW c \in k[1], Hangup(k, c), UNCHANGED isSeed
    PROVE  OInv'
<1> DEFINE none == NoEnd
           empty == <<>>
<1>1. none \in End /\ Away(none)
  BY DEF NoEnd, End, State, Away
<1>2. none.pc = "none"
  BY DEF NoEnd
<1>3. end' = Put(end, k, c, none) /\ chan' = Put(chan, k, c, empty)
  BY DEF Hangup, Put
<1> HIDE DEF none
<1>9. empty \in Seq(Message) /\ Lacks(empty, "request")
  BY DEF Lacks
<1> HIDE DEF empty
<1>4. OnEnds(end, End) /\ OnEnds(chan, Seq(Message))
  BY Parts DEF Types
<1>5. /\ end'[k][c] = none
      /\ \A j \in Conns : \A d \in j[1] : j # k \/ d # c => end'[j][d] = end[j][d]
  <2>1. /\ Put(end, k, c, none)[k][c] = none
        /\ \A j \in Conns : \A d \in j[1] :
             j # k \/ d # c => Put(end, k, c, none)[j][d] = end[j][d]
    BY <1>1, <1>4, PutEnd
  <2> QED
    BY <1>3, <2>1, Zenon
<1>6. /\ chan'[k][c] = empty
      /\ \A j \in Conns : \A d \in j[1] : j # k \/ d # c => chan'[j][d] = chan[j][d]
  <2>1. /\ Put(chan, k, c, empty)[k][c] = empty
        /\ \A j \in Conns : \A d \in j[1] :
             j # k \/ d # c => Put(chan, k, c, empty)[j][d] = chan[j][d]
    BY <1>4, <1>9, PutEnd
  <2> QED
    BY <1>3, <2>1, Zenon
<1>7. Lacks(chan'[k][c], "request")
  BY <1>6, <1>9
<1>8. ASSUME NEW j \in Conns, NEW d \in j[1]
      PROVE  Order(j, d)'
  <2>1. Other(j, d) \in j[1] /\ Other(j, d) # d
    BY Pair
  <2>2. CASE j = k /\ d = c
    BY <1>2, <1>5, <2>2, QuietOrder
  <2>3. CASE j # k \/ d # c
    <3>1. chan'[j][d] = chan[j][d] /\ end'[j][d] = end[j][d]
      BY <1>5, <1>6, <2>3
    <3>2. /\ Away(end[j][Other(j, d)]) => Away(end'[j][Other(j, d)])
          /\ \/ chan'[j][Other(j, d)] = chan[j][Other(j, d)]
             \/ Away(end'[j][Other(j, d)]) /\ Lacks(chan'[j][Other(j, d)], "request")
      BY <1>1, <1>5, <1>6, <1>7, <2>1
    <3>3. Quiet(j, d)
      BY <3>1, <3>2 DEF Quiet, Alike
    <3> QED
      BY <3>3, QuietOrder
  <2> QED
    BY <2>2, <2>3
<1> QED
  BY <1>8 DEF OInv

(* What the other client has is noted.                                     *)
LEMMA OnBitfieldOrder ==
    ASSUME IInv, OInv, NEW k \in Conns, NEW c \in k[1], OnBitfield(k, c)
    PROVE  OInv'
<1> DEFINE q == Head(chan[k][c])
           e == [end[k][c] EXCEPT !.bits = q.bits]
           m == Msg("interested")
<1>1. Reading(k, c, "bitfield") /\ UNCHANGED isSeed
  BY BitfieldCases
<1>2. /\ end[k][c].pc = "read" /\ end[k][c] \in End /\ chan[k][c] # <<>>
      /\ q.type = "bitfield" /\ q \in Message
  BY <1>1, ReadingEnd
<1>6. Plain(Head(chan[k][c]))
  BY <1>2 DEF Plain
<1>3. q.bits \in SUBSET Pieces
  BY <1>2 DEF Message
<1>4. CASE Hangup(k, c)
  BY <1>1, <1>4, HangupOrder
<1>5. CASE /\ end' = [end EXCEPT ![k][c].bits = q.bits]
           /\ chan' = Read(k, c) \/ chan' = Send(Read(k, c), k, c, m)
  <2> HIDE DEF q
  <2>1. e \in End
    BY <1>2, <1>3 DEF End
  <2>2. ~Young(e) /\ e.req = end[k][c].req /\ e.save = end[k][c].save
    BY <1>2 DEF End, Young
  <2>3. end' = Put(end, k, c, e)
    BY <1>5 DEF Put
  <2> HIDE DEF e
  <2>4. m \in Message /\ Plain(m)
    BY DEF Message, Msg, Plain
  <2>5. chan' = Read(k, c) \/ chan' = Send(Read(k, c), k, c, m)
    BY <1>5
  <2> HIDE DEF m
  <2> QED
    BY <1>1, <1>2, <1>6, <2>1, <2>2, <2>3, <2>4, <2>5, AnswerOrder
<1> QED
  BY <1>4, <1>5, BitfieldCases

(* Every peer is told of the piece.                                        *)
LEMMA ShowOrder ==
    ASSUME IInv, OInv, NEW k \in Conns, NEW c \in k[1], Show(k, c)
    PROVE  OInv'
<1> DEFINE e == [end[k][c] EXCEPT !.pc = "check", !.piece = -1]
           m == [type |-> "have", index |-> end[k][c].piece]
<1>1. /\ end[k][c].pc = "show" /\ end[k][c].pc # "none" /\ UNCHANGED isSeed
      /\ end' = Put(end, k, c, e)
      /\ chan' = [j \in Conns |-> IF j \in Slots(c) THEN Send(chan, j, c, m)[j]
                                  ELSE chan[j]]
  BY DEF Show, Put, client
<1>2. end[k][c] \in End /\ end[k][c].piece # -1 /\ OnEnds(chan, Seq(Message))
  BY <1>1, Thread DEF Types
<1>3. e \in End
  BY <1>2, Ends
<1>4. e.pc = "check" /\ e.req = end[k][c].req /\ e.save = end[k][c].save
  BY <1>2 DEF End
<1>5. m \in Message /\ m.type = "have"
  BY <1>2 DEF Message, End
<1> HIDE DEF e, m
<1>6. ASSUME NEW j \in Conns, NEW d \in j[1]
      PROVE  Calm(chan[j][d], chan'[j][d])
  <2>1. CASE j \in Slots(c)
    <3>1. c \in j[1]
      BY <2>1 DEF Slots, ConnsOf
    <3>2. \/ Send(chan, j, c, m)[j][d] = chan[j][d]
          \/ /\ end[j][d].pc # "none"
             /\ Send(chan, j, c, m)[j][d] = Append(chan[j][d], m)
      BY <1>2, <1>5, <3>1, SendEnd
    <3>3. chan'[j] = Send(chan, j, c, m)[j]
      BY <1>1, <2>1
    <3> QED
      BY <1>5, <3>2, <3>3 DEF Calm, Alike
  <2>2. CASE j \notin Slots(c)
    BY <1>1, <2>2 DEF Calm, Alike
  <2> QED
    BY <2>1, <2>2
<1>7. ~Away(end[k][c]) /\ ~Young(e)
  BY <1>1, <1>4 DEF Away, Young
<1>8. \A d \in Clients : isSeed[d] = 2 => isSeed'[d] = 2
  BY <1>1
<1> QED
  BY <1>1, <1>3, <1>4, <1>6, <1>7, <1>8, CalmThread

(* With nothing left to fetch the client is a seed.                        *)
LEMMA CheckOrder ==
    ASSUME IInv, OInv, NEW k \in Conns, NEW c \in k[1], Check(k, c)
    PROVE  OInv'
<1> DEFINE e == [end[k][c] EXCEPT !.pc = "request"]
<1>1. /\ end[k][c].pc = "check" /\ end[k][c].pc # "none"
      /\ isSeed' = isSeed \/ isSeed' = [isSeed EXCEPT ![c] = 2]
      /\ chan' = chan /\ end' = Put(end, k, c, e)
  BY DEF Check, Put
<1>2. end[k][c] \in End /\ c \in Clients /\ isSeed \in [Clients -> -1 .. 2]
  BY <1>1, Thread DEF Types
<1>3. e \in End
  BY <1>2, Ends
<1>4. e.pc = "request" /\ e.req = end[k][c].req /\ e.save = end[k][c].save
  BY <1>2 DEF End
<1> HIDE DEF e
<1>5. \A d \in Clients : isSeed[d] = 2 => isSeed'[d] = 2
  BY <1>1, <1>2
<1>6. \A j \in Conns : \A d \in j[1] : Calm(chan[j][d], chan'[j][d])
  BY <1>1 DEF Calm, Alike
<1>7. ~Away(end[k][c]) /\ ~Young(e)
  BY <1>1, <1>4 DEF Away, Young
<1> QED
  BY <1>1, <1>3, <1>4, <1>5, <1>6, <1>7, CalmThread

(* A step of one connection: only its two ends can see it.                 *)
LEMMA OneConnection ==
    ASSUME IInv, OInv, NEW k \in Conns, NEW c \in k[1],
           \A j \in Conns : \A d \in j[1] :
             j # k => end'[j][d] = end[j][d] /\ chan'[j][d] = chan[j][d],
           \A d \in Clients : isSeed[d] = 2 => isSeed'[d] = 2,
           Order(k, c)', Order(k, Other(k, c))'
    PROVE  OInv'
<1>1. ASSUME NEW j \in Conns, NEW d \in j[1]
      PROVE  Order(j, d)'
  <2>1. d \in Clients /\ Other(j, d) \in j[1]
    BY Pair
  <2>2. CASE j # k
    <3>1. Quiet(j, d)
      BY <2>1, <2>2 DEF Quiet, Alike
    <3> QED
      BY <3>1, QuietOrder
  <2>3. CASE j = k
    <3>1. d = c \/ d = Other(k, c)
      BY <2>3, Pair
    <3> QED
      BY <2>3, <3>1
  <2> QED
    BY <2>2, <2>3
<1> QED
  BY <1>1 DEF OInv

(* What an end expects, in parts.                                          *)
LEMMA OrderParts ==
    ASSUME OInv, NEW k \in Conns, NEW c \in k[1], end[k][c].pc # "none", isSeed[c] # 2
    PROVE  \E mid \in State :
             /\ Runs(chan[k][c], "piece", end[k][c].save, mid)
             /\ ~Away(end[k][Other(k, c)])
                  => Runs(chan[k][Other(k, c)], "request", mid, end[k][c].req)
  BY DEF OInv, Order, Ordered

(* A block is sent for a request: it is the next in the other direction.   *)
LEMMA OnRequestOrder ==
    ASSUME IInv, OInv, NEW k \in Conns, NEW c \in k[1], OnRequest(k, c)
    PROVE  OInv'
<1> DEFINE q == Head(chan[k][c])
           m == [type |-> "piece", index |-> q.index, offset |-> q.offset,
                 good |-> <<q.index, q.offset>> \in disk[c]]
           o == Other(k, c)
<1>1. /\ Reading(k, c, "request") /\ end' = end /\ isSeed' = isSeed
      /\ chan' = Send(Read(k, c), k, c, m)
  BY DEF OnRequest, client
<1>2. /\ q.type = "request" /\ q \in Message /\ chan[k][c] # <<>>
      /\ end[k][c].pc = "read" /\ Types
  BY <1>1, ReadingEnd
<1>3. q.index \in Pieces /\ q.offset \in Blocks
  BY <1>2 DEF Message
<1>4. m \in Message /\ m.type = "piece" /\ m.index = q.index /\ m.offset = q.offset
  <2> DEFINE good == <<q.index, q.offset>> \in disk[c]
  <2>1. good \in BOOLEAN /\ m = [type |-> "piece", index |-> q.index,
                                 offset |-> q.offset, good |-> good]
    OBVIOUS
  <2> HIDE DEF good, q
  <2> QED
    BY <1>3, <2>1 DEF Message
<1> HIDE DEF m
<1>5. /\ o \in k[1] /\ o # c /\ Other(k, o) = c
  BY Pair
<1> HIDE DEF o
<1>6. /\ chan[k][c] \in Seq(Message) /\ chan[k][o] \in Seq(Message)
  BY <1>5, Parts
<1>7. /\ OnEnds(Read(k, c), Seq(Message))
      /\ Read(k, c)[k][c] = Tail(chan[k][c])
      /\ \A j \in Conns : \A d \in j[1] :
           j # k \/ d # c => Read(k, c)[j][d] = chan[j][d]
  BY <1>2, ReadEnd
<1>8. \A j \in Conns : \A d \in j[1] :
        \/ chan'[j][d] = Read(k, c)[j][d]
        \/ /\ j = k /\ d = o /\ end[j][d].pc # "none"
           /\ chan'[j][d] = Append(Read(k, c)[j][d], m)
  <2> DEFINE ch == Read(k, c)
  <2>1. OnEnds(ch, Seq(Message))
    BY <1>7
  <2>2. chan' = Send(ch, k, c, m)
    BY <1>1
  <2> HIDE DEF ch
  <2>3. \A j \in Conns : \A d \in j[1] :
          \/ Send(ch, k, c, m)[j][d] = ch[j][d]
          \/ /\ j = k /\ d = Other(k, c) /\ end[j][d].pc # "none"
             /\ Send(ch, k, c, m)[j][d] = Append(ch[j][d], m)
    BY <1>4, <2>1, SendEnd
  <2> QED
    BY <2>2, <2>3, Zenon DEF ch, o
<1>9. /\ chan'[k][c] = Tail(chan[k][c])
      /\ \/ chan'[k][o] = chan[k][o] /\ end[k][o].pc = "none"
         \/ chan'[k][o] = Append(chan[k][o], m)
  <2>1. end[k][o].pc # "none" => Send(Read(k, c), k, c, m)[k][o] = Append(Read(k, c)[k][o], m)
    <3> DEFINE ch == Read(k, c)
    <3>1. DOMAIN ch = Conns /\ DOMAIN ch[k] = k[1]
      BY <1>7 DEF OnEnds
    <3> HIDE DEF ch
    <3>2. end[k][o].pc # "none" => Send(ch, k, c, m)[k][o] = Append(ch[k][o], m)
      BY <1>5, <3>1 DEF Send, o
    <3> QED
      BY <3>2 DEF ch
  <2> QED
    BY <1>1, <1>5, <1>7, <1>8, <2>1
<1>10. \A j \in Conns : \A d \in j[1] :
         j # k => end'[j][d] = end[j][d] /\ chan'[j][d] = chan[j][d]
  BY <1>1, <1>7, <1>8
<1>11. Order(k, c)'
  <2>1. Alike(chan[k][c], chan'[k][c], "piece")
    BY <1>2, <1>9 DEF Alike, q
  <2>2. Alike(chan[k][o], chan'[k][o], "request")
    BY <1>4, <1>9 DEF Alike
  <2>3. Quiet(k, c)
    BY <1>1, <2>1, <2>2 DEF Quiet, o
  <2> QED
    BY <2>3, QuietOrder
<1>12. Order(k, o)'
  <2>1. CASE end[k][o].pc = "none"
    BY <1>1, <1>5, <2>1, QuietOrder
  <2>2. CASE end[k][o].pc # "none"
    <3>1. chan'[k][o] = Append(chan[k][o], m)
      BY <1>9, <2>2
    <3>2. ~Young(end[k][o])
      <4>1. q = chan[k][c][1] /\ 1 \in 1 .. Len(chan[k][c])
        BY <1>2, <1>6, TailElements DEF q
      <4>2. ~Lacks(chan[k][c], "request")
        BY <1>2, <4>1 DEF Lacks
      <4> QED
        BY <1>5, <4>2 DEF OInv, Order
    <3>3. ASSUME isSeed[o] # 2
          PROVE  Ordered(end[k][o].save, chan'[k][o], chan'[k][c], end[k][o].req,
                         Away(end[k][c]))
      <4>1. ~Away(end[k][c])
        BY <1>2 DEF Away
      <4>2. PICK mid \in State : /\ Runs(chan[k][o], "piece", end[k][o].save, mid)
                                 /\ Runs(chan[k][c], "request", mid, end[k][o].req)
        BY <1>5, <2>2, <3>3, <4>1, OrderParts
      <4>3. PICK x \in State : /\ Step(q, "request", mid, x)
                               /\ Runs(Tail(chan[k][c]), "request", x, end[k][o].req)
        BY <1>2, <1>6, <4>2, RunsTail DEF q
      <4>4. Step(m, "piece", mid, x)
        BY <1>2, <1>4, <4>3 DEF Step, After
      <4>5. Runs(chan'[k][o], "piece", end[k][o].save, x)
        BY <1>4, <1>6, <3>1, <4>2, <4>4, RunsAppend
      <4>6. Runs(chan'[k][c], "request", x, end[k][o].req)
        BY <1>9, <4>3
      <4> QED
        BY <4>5, <4>6 DEF Ordered
    <3>4. Other(k, o)' = c
      BY <1>5 DEF Other
    <3> QED
      BY <1>1, <3>2, <3>3, <3>4 DEF Order
  <2> QED
    BY <2>1, <2>2
<1>13. \A d \in Clients : isSeed[d] = 2 => isSeed'[d] = 2
  BY <1>1
<1> QED
  BY <1>10, <1>11, <1>12, <1>13, OneConnection DEF o

(* A block that is next is saved, and the connection goes on behind it.    *)
LEMMA PieceInOrder ==
    ASSUME IInv, NEW k \in Conns, NEW c \in k[1], OnPiece(k, c), isSeed[c] # 2,
           NEW x \in State, Step(Head(chan[k][c]), "piece", end[k][c].save, x)
    PROVE  /\ end[k][c].pc = "read" /\ chan[k][c] # <<>> /\ chan' = Read(k, c)
           /\ UNCHANGED isSeed
           /\ \E e \in End : /\ end' = Put(end, k, c, e) /\ ~Young(e) /\ e.pc # "none"
                            /\ e.save = x /\ e.req = end[k][c].req
<1> DEFINE m == Head(chan[k][c])
           s == end[k][c].save
           old == end[k][c]
<1>1. /\ old.pc = "read" /\ old \in End /\ chan[k][c] # <<>>
      /\ m.type = "piece" /\ m \in Message /\ OnEnds(end, End)
  <2>1. Reading(k, c, "piece")
    BY DEF OnPiece
  <2> QED
    BY <2>1, ReadingEnd, Thread
<1>2. m.index \in Pieces /\ m.offset \in Blocks /\ s \in State
  BY <1>1 DEF Message, End
<1>3. /\ chan' = Read(k, c) /\ UNCHANGED isSeed
      /\ \/ /\ isSeed[c] = 2 \/ At(m, s).index < 0
            /\ end' = Put(end, k, c, Saving(old, "request", s, -1))
         \/ /\ At(m, s) = [index |-> m.index, offset |-> m.offset]
            /\ \/ /\ IsLast(m.offset)
                  /\ end' = Put(end, k, c, Saving(old, "show", Nothing, m.index))
               \/ /\ ~IsLast(m.offset)
                  /\ end' = Put(end, k, c, Saving(old, "request",
                                   [At(m, s) EXCEPT !.offset = @ + 1], -1))
         \/ At(m, s) # [index |-> m.index, offset |-> m.offset]
  BY <1>1, PieceCases
<1>4. At(m, s) = [index |-> m.index, offset |-> m.offset] /\ x = After(m)
  BY <1>1 DEF Step, At
<1> HIDE DEF m, s, old
<1>5. ~(At(m, s).index < 0)
  BY <1>2, <1>4 DEF Pieces
<1>6. [At(m, s) EXCEPT !.offset = @ + 1] = [index |-> m.index, offset |-> m.offset + 1]
  BY <1>4
<1>7. CASE IsLast(m.offset)
  <2> DEFINE e == Saving(old, "show", Nothing, m.index)
  <2>1. end' = Put(end, k, c, e) /\ x = Nothing
    BY <1>3, <1>4, <1>5, <1>7 DEF After
  <2>2. e \in End /\ e.pc = "show" /\ e.save = Nothing /\ e.req = old.req
    <3>1. Nothing \in State /\ m.index \in Pieces \cup {-1}
      BY <1>2 DEF State
    <3> QED
      BY <1>1, <3>1, SavingEnd
  <2> HIDE DEF e
  <2> QED
    BY <1>1, <1>3, <2>1, <2>2 DEF Young, old
<1>8. CASE ~IsLast(m.offset)
  <2> DEFINE save == [index |-> m.index, offset |-> m.offset + 1]
             e == Saving(old, "request", save, -1)
  <2>1. x = save
    BY <1>4, <1>8 DEF After
  <2>2. end' = Put(end, k, c, e)
    BY <1>3, <1>4, <1>5, <1>6, <1>8
  <2>3. save \in State
    BY <2>1
  <2> HIDE DEF save
  <2>4. e \in End /\ e.pc = "request" /\ e.save = save /\ e.req = old.req
    BY <1>1, <2>3, SavingEnd
  <2> HIDE DEF e
  <2> QED
    BY <1>1, <1>3, <2>1, <2>2, <2>4 DEF Young, old
<1> QED
  BY <1>7, <1>8

(* The blocks that come are the ones that savePiece wants.                 *)
LEMMA OnPieceOrder ==
    ASSUME IInv, OInv, NEW k \in Conns, NEW c \in k[1], OnPiece(k, c)
    PROVE  OInv'
<1> DEFINE q == Head(chan[k][c])
           o == Other(k, c)
<1>1. /\ end[k][c].pc = "read" /\ end[k][c].pc # "none" /\ chan[k][c] # <<>>
      /\ q.type = "piece" /\ Types /\ OnEnds(end, End) /\ end[k][c] \in End
  <2>1. Reading(k, c, "piece")
    BY DEF OnPiece
  <2> QED
    BY <2>1, ReadingEnd, Thread
<1>2. chan' = Read(k, c) /\ isSeed' = isSeed
  BY DEF OnPiece
<1>3. o \in k[1] /\ o # c /\ Other(k, o) = c
  BY Pair
<1> HIDE DEF o
<1>4. chan[k][c] \in Seq(Message) /\ chan[k][o] \in Seq(Message)
  BY <1>3, Parts
<1>5. /\ chan'[k][c] = Tail(chan[k][c])
      /\ \A j \in Conns : \A d \in j[1] : j # k \/ d # c => chan'[j][d] = chan[j][d]
  <2>1. /\ Read(k, c)[k][c] = Tail(chan[k][c])
        /\ \A j \in Conns : \A d \in j[1] :
             j # k \/ d # c => Read(k, c)[j][d] = chan[j][d]
    BY <1>1, ReadEnd
  <2> QED
    BY <1>2, <2>1, Zenon
<1> DEFINE Goes(e) ==
             /\ end' = Put(end, k, c, e) /\ ~Young(e) /\ e.pc # "none"
             /\ isSeed[c] # 2 =>
                  Ordered(e.save, chan'[k][c], chan'[k][o], e.req, Away(end[k][o]))
<1>6. \E e \in End : Goes(e)
  <2>1. CASE isSeed[c] = 2
    <3> DEFINE e == Saving(end[k][c], "request", end[k][c].save, -1)
    <3>1. end' = Put(end, k, c, e)
      BY <1>1, <2>1, PieceCases
    <3>2. end[k][c].save \in State
      BY <1>1 DEF End
    <3>3. e \in End /\ e.pc = "request"
      BY <1>1, <3>2, SavingEnd
    <3> HIDE DEF e
    <3> QED
      BY <2>1, <3>1, <3>3 DEF Young
  <2>2. CASE isSeed[c] # 2
    <3>1. PICK mid \in State : /\ Runs(chan[k][c], "piece", end[k][c].save, mid)
                               /\ ~Away(end[k][o]) =>
                                    Runs(chan[k][o], "request", mid, end[k][c].req)
      BY <1>1, <2>2, OrderParts DEF o
    <3>2. PICK x \in State : /\ Step(q, "piece", end[k][c].save, x)
                             /\ Runs(Tail(chan[k][c]), "piece", x, mid)
      BY <1>1, <1>4, <3>1, RunsTail
    <3>3. PICK e \in End : /\ end' = Put(end, k, c, e) /\ ~Young(e) /\ e.pc # "none"
                           /\ e.save = x /\ e.req = end[k][c].req
      BY <2>2, <3>2, PieceInOrder
    <3>5. Ordered(e.save, chan'[k][c], chan'[k][o], e.req, Away(end[k][o]))
      BY <1>3, <1>5, <3>1, <3>2, <3>3 DEF Ordered
    <3> QED
      BY <3>3, <3>5
  <2> QED
    BY <2>1, <2>2
<1> HIDE DEF Goes
<1>12. PICK e \in End : Goes(e)
  BY <1>6
<1>7. /\ end' = Put(end, k, c, e) /\ ~Young(e) /\ e.pc # "none"
      /\ isSeed[c] # 2 =>
           Ordered(e.save, chan'[k][c], chan'[k][o], e.req, Away(end[k][o]))
  BY <1>12 DEF Goes
<1>8. /\ end'[k][c] = e
      /\ \A j \in Conns : \A d \in j[1] : j # k \/ d # c => end'[j][d] = end[j][d]
  <2>1. /\ Put(end, k, c, e)[k][c] = e
        /\ \A j \in Conns : \A d \in j[1] :
             j # k \/ d # c => Put(end, k, c, e)[j][d] = end[j][d]
    BY <1>1, PutEnd
  <2> QED
    BY <1>7, <2>1, Zenon
<1>9. Order(k, c)'
  <2>1. Other(k, c)' = o
    BY DEF Other, o
  <2>2. end'[k][o] = end[k][o]
    BY <1>3, <1>8
  <2> QED
    BY <1>2, <1>7, <1>8, <2>1, <2>2 DEF Order
<1>10. Order(k, o)'
  <2>1. end'[k][o] = end[k][o] /\ chan'[k][o] = chan[k][o]
    BY <1>3, <1>5, <1>8
  <2>2. Alike(chan[k][c], chan'[k][c], "request")
    BY <1>1, <1>5 DEF Alike
  <2>3. ~Away(end[k][c])
    BY <1>1 DEF Away
  <2>4. Quiet(k, o)
    BY <1>2, <1>3, <2>1, <2>2, <2>3 DEF Quiet, Alike
  <2> QED
    BY <1>3, <2>4, QuietOrder
<1>11. \A j \in Conns : \A d \in j[1] :
         j # k => end'[j][d] = end[j][d] /\ chan'[j][d] = chan[j][d]
  BY <1>5, <1>8
<1> QED
  BY <1>2, <1>9, <1>10, <1>11, OneConnection DEF o

(* The block asked for is the one that the connection is at, or the first. *)
LEMMA AskOrder ==
    ASSUME IInv, OInv, NEW k \in Conns, NEW c \in k[1], end[k][c].pc = "request",
           NEW i \in Pieces, NEW b \in Blocks,
           \/ end[k][c].req = Nothing /\ b = 0
           \/ end[k][c].req = [index |-> i, offset |-> b],
           Ask(k, c, [index |-> i, offset |-> b]),
           \A d \in Clients : isSeed[d] = 2 <=> isSeed'[d] = 2
    PROVE  OInv'
<1> DEFINE m == [type |-> "request", index |-> i, offset |-> b]
           req == After(m)
           old == end[k][c].req
           e == Asking(end[k][c], req)
           o == Other(k, c)
<1>1. /\ Types /\ end[k][c] \in End /\ c \in Clients /\ OnEnds(end, End)
      /\ OnEnds(chan, Seq(Message)) /\ end[k][c].pc # "none"
  BY Thread DEF Types
<1>2. m \in Message /\ m.type = "request" /\ m.index = i /\ m.offset = b
  BY DEF Message
<1>3. chan' = Send(chan, k, c, m)
  BY DEF Ask
<1>4. req = IF IsLast(b) THEN Nothing ELSE [index |-> i, offset |-> b + 1]
  BY DEF After
<1>5. end' = AskingFields(end, k, c, req)
  <2> DEFINE r == [index |-> i, offset |-> b]
             more == IF IsLast(r.offset) THEN Nothing ELSE [r EXCEPT !.offset = @ + 1]
  <2>1. more = req
    BY <1>4
  <2> HIDE DEF r
  <2>2. Ask(k, c, r)
    BY DEF r
  <2>3. end' = AskingFields(end, k, c, more)
    BY <2>2, Zenon DEF Ask, AskingFields
  <2> HIDE DEF more, req
  <2> QED
    BY <2>1, <2>3
<1>6. Step(m, "request", old, req)
  BY <1>2 DEF Step
<1>7. req \in State
  <2>1. CASE IsLast(b)
    BY <1>4, <2>1 DEF State
  <2>2. CASE ~IsLast(b)
    BY <1>4, <2>2, TorrentAssumption DEF IsLast, State, Blocks
  <2> QED
    BY <2>1, <2>2
<1> HIDE DEF req, m
<1>8. end' = Put(end, k, c, e)
  BY <1>1, <1>5, PutAsking
<1>9. e \in End /\ e.pc = "read" /\ e.req = req /\ e.save = end[k][c].save
  BY <1>1, <1>7 DEF End, Asking
<1> HIDE DEF e
<1>10. /\ end'[k][c] = e
       /\ \A j \in Conns : \A d \in j[1] : j # k \/ d # c => end'[j][d] = end[j][d]
  <2>1. /\ Put(end, k, c, e)[k][c] = e
        /\ \A j \in Conns : \A d \in j[1] :
             j # k \/ d # c => Put(end, k, c, e)[j][d] = end[j][d]
    BY <1>1, <1>9, PutEnd
  <2> QED
    BY <1>8, <2>1, Zenon
<1>11. o \in k[1] /\ o # c /\ Other(k, o) = c /\ o \in Clients
  BY Pair
<1> HIDE DEF o
<1>12. chan[k][c] \in Seq(Message) /\ chan[k][o] \in Seq(Message)
  BY <1>11, Parts
<1>13. /\ \A j \in Conns : \A d \in j[1] : j # k \/ d # o => chan'[j][d] = chan[j][d]
       /\ \/ chan'[k][o] = chan[k][o] /\ end[k][o].pc = "none"
          \/ chan'[k][o] = Append(chan[k][o], m)
  <2>1. \A j \in Conns : \A d \in j[1] :
          \/ Send(chan, k, c, m)[j][d] = chan[j][d]
          \/ /\ j = k /\ d = Other(k, c) /\ end[j][d].pc # "none"
             /\ Send(chan, k, c, m)[j][d] = Append(chan[j][d], m)
    BY <1>1, <1>2, SendEnd
  <2>2. end[k][o].pc # "none" => Send(chan, k, c, m)[k][o] = Append(chan[k][o], m)
    <3>1. DOMAIN chan = Conns /\ DOMAIN chan[k] = k[1]
      BY <1>1 DEF OnEnds
    <3> QED
      BY <1>11, <3>1 DEF Send, o
  <2> QED
    BY <1>3, <1>11, <2>1, <2>2 DEF o
<1>14. Order(k, c)'
  <2>1. Other(k, c)' = o
    BY DEF Other, o
  <2>2. end'[k][o] = end[k][o] /\ chan'[k][c] = chan[k][c]
    BY <1>10, <1>11, <1>13
  <2>3. ~Young(e) /\ e.pc # "none"
    BY <1>9 DEF Young
  <2>4. ASSUME isSeed[c] # 2
        PROVE  Ordered(e.save, chan'[k][c], chan'[k][o], e.req, Away(end[k][o]))
    <3>1. PICK mid \in State : /\ Runs(chan[k][c], "piece", end[k][c].save, mid)
                               /\ ~Away(end[k][o]) => Runs(chan[k][o], "request", mid, old)
      BY <1>1, <2>4, OrderParts DEF o
    <3>2. ASSUME ~Away(end[k][o])
          PROVE  Runs(chan'[k][o], "request", mid, req)
      <4>1. chan'[k][o] = Append(chan[k][o], m)
        BY <1>13, <3>2 DEF Away
      <4>2. Runs(Append(chan[k][o], m), "request", mid, req)
        BY <1>2, <1>6, <1>7, <1>12, <3>1, <3>2, RunsAppend
      <4> QED
        BY <4>1, <4>2
    <3> QED
      BY <1>9, <2>2, <3>1, <3>2 DEF Ordered
  <2> QED
    BY <1>1, <1>10, <2>1, <2>2, <2>3, <2>4 DEF Order
<1>15. Order(k, o)'
  <2>1. end'[k][o] = end[k][o] /\ chan'[k][c] = chan[k][c]
    BY <1>10, <1>11, <1>13
  <2>2. Alike(chan[k][o], chan'[k][o], "piece")
    BY <1>2, <1>13 DEF Alike
  <2>3. ~Away(end[k][c])
    BY DEF Away
  <2>4. Quiet(k, o)
    BY <1>11, <2>1, <2>2, <2>3 DEF Quiet, Alike
  <2> QED
    BY <1>11, <2>4, QuietOrder
<1>16. \A j \in Conns : \A d \in j[1] :
         j # k => end'[j][d] = end[j][d] /\ chan'[j][d] = chan[j][d]
  BY <1>10, <1>13
<1> QED
  BY <1>14, <1>15, <1>16, OneConnection DEF o

(* The thread goes on with its piece.                                      *)
LEMMA AskNextOrder ==
    ASSUME IInv, OInv, NEW k \in Conns, NEW c \in k[1], AskNext(k, c)
    PROVE  OInv'
<1> DEFINE r == end[k][c].req
<1>1. /\ end[k][c].pc = "request" /\ end[k][c].pc # "none" /\ r.index >= 0
      /\ Ask(k, c, r) /\ UNCHANGED isSeed
  BY DEF AskNext, client
<1>2. end[k][c] \in End
  BY <1>1, Thread
<1>3. r \in State /\ r # Nothing
  BY <1>1, <1>2 DEF End, Nothing
<1> HIDE DEF r
<1>4. r.index \in Pieces /\ r.offset \in Blocks
      /\ r = [index |-> r.index, offset |-> r.offset]
  BY <1>3 DEF State
<1>5. Ask(k, c, [index |-> r.index, offset |-> r.offset])
  BY <1>1, <1>4
<1>6. end[k][c].req = [index |-> r.index, offset |-> r.offset]
  BY <1>4 DEF r
<1>7. \A d \in Clients : isSeed[d] = 2 <=> isSeed'[d] = 2
  BY <1>1
<1> QED
  BY <1>1, <1>4, <1>5, <1>6, <1>7, AskOrder

(* It begins another one, or finds none.                                   *)
LEMMA AskNewOrder ==
    ASSUME IInv, OInv, NEW k \in Conns, NEW c \in k[1], AskNew(k, c)
    PROVE  OInv'
<1>1. /\ end[k][c].pc = "request" /\ end[k][c].pc # "none" /\ end[k][c].req.index < 0
      /\ isSeed' = IF isSeed[c] = 0 THEN [isSeed EXCEPT ![c] = 1] ELSE isSeed
  BY DEF AskNew
<1>2. /\ Types /\ end[k][c] \in End /\ c \in Clients
      /\ isSeed \in [Clients -> -1 .. 2]
  BY <1>1, Thread DEF Types
<1>3. \A d \in Clients : isSeed[d] = 2 <=> isSeed'[d] = 2
  BY <1>1, <1>2
<1>4. end[k][c].req = Nothing
  <2>1. end[k][c].req \in State
    BY <1>2 DEF End
  <2> QED
    BY <1>1, <2>1 DEF State, Pieces
<1>5. CASE Choice(k, c) = {}
  <2>1. PICK pc \in {"drawing", "read"} : end' = [end EXCEPT ![k][c].pc = pc]
    BY <1>5 DEF AskNew
  <2> DEFINE e == [end[k][c] EXCEPT !.pc = pc]
  <2>2. e \in End /\ e.pc = pc /\ e.req = end[k][c].req /\ e.save = end[k][c].save
    BY <1>2 DEF End
  <2>3. end' = Put(end, k, c, e)
    BY <2>1 DEF Put
  <2> HIDE DEF e
  <2>4. \A j \in Conns : \A d \in j[1] : Calm(chan[j][d], chan'[j][d])
    <3>1. chan' = chan
      BY <1>5 DEF AskNew
    <3> QED
      BY <3>1 DEF Calm, Alike
  <2>5. ~Away(end[k][c]) /\ ~Young(e)
    BY <1>1, <2>2 DEF Away, Young
  <2> QED
    BY <1>3, <2>2, <2>3, <2>4, <2>5, CalmThread
<1>6. CASE Choice(k, c) # {}
  <2>1. PICK i \in Choice(k, c) : Ask(k, c, [index |-> i, offset |-> 0])
    BY <1>6 DEF AskNew
  <2>2. i \in Pieces
    BY <1>2, ChoiceIsKnown
  <2> DEFINE zero == 0
  <2>3. zero \in Blocks /\ Ask(k, c, [index |-> i, offset |-> zero]) /\ zero = 0
    BY <2>1, TorrentAssumption DEF Blocks
  <2> HIDE DEF zero
  <2> QED
    BY <1>1, <1>3, <1>4, <2>2, <2>3, AskOrder
<1> QED
  BY <1>5, <1>6

(* waitPeer takes the next connection, or closes it.                       *)
LEMMA AcceptOrder ==
    ASSUME IInv, OInv, NEW k \in Conns, NEW c \in k[1], Accept(k, c)
    PROVE  OInv'
<1>1. end[k][c].pc = "backlog" /\ end[k][c].pc # "none" /\ UNCHANGED isSeed
  BY DEF Accept, client
<1>2. CASE Hangup(k, c)
  BY <1>1, <1>2, HangupOrder
<1>3. CASE ~Hangup(k, c)
  <2> DEFINE e == Waiting(end[k][c], "slot")
  <2>1. chan' = chan /\ end' = Put(end, k, c, e)
    BY <1>3 DEF Accept, Put, Waiting
  <2>2. end[k][c] \in End
    BY <1>1, Thread
  <2>3. e \in End /\ e.req = end[k][c].req /\ e.save = end[k][c].save
    BY <2>2, TakenEnd
  <2> HIDE DEF e
  <2>4. \A j \in Conns : \A d \in j[1] : Calm(chan[j][d], chan'[j][d])
    BY <2>1 DEF Calm, Alike
  <2>5. ~Away(end[k][c]) /\ Young(end[k][c])
    BY <1>1 DEF Away, Young
  <2>6. \A d \in Clients : isSeed[d] = 2 => isSeed'[d] = 2
    BY <1>1
  <2> QED
    BY <2>1, <2>3, <2>4, <2>5, <2>6, CalmThread
<1> QED
  BY <1>2, <1>3

(* The peer has closed its side.                                           *)
LEMMA PeerGoneOrder ==
    ASSUME IInv, OInv, NEW k \in Conns, NEW c \in k[1], PeerGone(k, c)
    PROVE  OInv'
<1>1. Hangup(k, c) /\ UNCHANGED isSeed
  BY DEF PeerGone, client
<1> QED
  BY <1>1, HangupOrder

(* An end that is at nothing, with nothing on its way.                     *)
LEMMA FreshOrder ==
    ASSUME NEW other
    PROVE  /\ Ordered(Nothing, <<>>, <<>>, Nothing, Away(other))
           /\ Lacks(<<>>, "piece") /\ Lacks(<<>>, "request")
<1>1. Lacks(<<>>, "piece") /\ Lacks(<<>>, "request")
  BY DEF Lacks
<1>2. Nothing \in State
  BY DEF State
<1>3. Runs(<<>>, "piece", Nothing, Nothing) /\ Runs(<<>>, "request", Nothing, Nothing)
  BY <1>2, RunsEmpty
<1> QED
  BY <1>1, <1>2, <1>3 DEF Ordered

(* main connects to a client of its list.                                  *)
LEMMA ConnectOrder ==
    ASSUME IInv, OInv, NEW c \in Clients, NEW d \in Clients, Connect(c, d)
    PROVE  OInv'
<1>1. {c, d} \in Links /\ chan' = chan /\ UNCHANGED isSeed
  BY DEF Connect, client
<1>2. PICK n \in 1 .. MaxPerPair :
        /\ Free(<<{c, d}, n>>)
        /\ end' = [end EXCEPT ![<<{c, d}, n>>][c].pc = "slot",
                              ![<<{c, d}, n>>][d].pc = "backlog"]
  BY DEF Connect
<1> DEFINE k == <<{c, d}, n>>
<1>3. k \in Conns /\ k[1] = {c, d} /\ c \in k[1] /\ d \in k[1]
  BY <1>1 DEF Conns
<1>4. Free(k) /\ end' = [end EXCEPT ![k][c].pc = "slot", ![k][d].pc = "backlog"]
  BY <1>2
<1> HIDE DEF k
<1>5. c # d /\ Other(k, c) = d /\ Other(k, d) = c
  <2>1. Other(k, c) \in k[1] /\ Other(k, c) # c /\ Other(k, Other(k, c)) = c
    BY <1>3, Pair
  <2> QED
    BY <1>3, <2>1
<1>6. /\ OnEnds(end, End) /\ end[k][c] = NoEnd /\ end[k][d] = NoEnd
      /\ chan[k][c] = <<>> /\ chan[k][d] = <<>>
  BY <1>3, <1>4, Parts DEF Types, Free, EndWell
<1>7. DOMAIN end = Conns /\ \A j \in Conns : DOMAIN end[j] = j[1]
  <2>1. /\ end = [j \in Conns |-> [x \in j[1] |-> end[j][x]]]
    BY <1>6 DEF OnEnds
  <2> QED
    BY <2>1
<1>8. /\ end'[k][c].save = Nothing /\ end'[k][c].req = Nothing
      /\ end'[k][d].save = Nothing /\ end'[k][d].req = Nothing
  BY <1>3, <1>4, <1>5, <1>6, <1>7 DEF NoEnd
<1>9. \A j \in Conns : \A x \in j[1] :
        j # k => end'[j][x] = end[j][x] /\ chan'[j][x] = chan[j][x]
  BY <1>1, <1>4, <1>7
<1>10. Other(k, c)' = d /\ Other(k, d)' = c
  BY <1>5 DEF Other
<1>11. Order(k, c)' /\ Order(k, d)'
  BY <1>1, <1>6, <1>8, <1>10, FreshOrder DEF Order
<1>12. \A x \in Clients : isSeed[x] = 2 => isSeed'[x] = 2
  BY <1>1
<1> QED
  BY <1>3, <1>5, <1>9, <1>11, <1>12, OneConnection

(* A process that ends takes with it what is on its way to it.             *)
LEMMA GoneOrder ==
    ASSUME IInv, OInv, NEW c \in Clients, Gone(c)
    PROVE  OInv'
<1>1. /\ \A d \in Clients \ {c} : isSeed'[d] = isSeed[d]
      /\ \A j \in Conns : \A d \in j[1] :
           /\ end'[j][d] = IF d = c THEN NoEnd ELSE end[j][d]
           /\ chan'[j][d] = IF d = c THEN <<>> ELSE chan[j][d]
  BY Parts DEF Gone, Types
<1>2. NoEnd.pc = "none" /\ Away(NoEnd) /\ Lacks(<<>>, "request")
  BY DEF NoEnd, Away, Lacks
<1>3. ASSUME NEW j \in Conns, NEW d \in j[1]
      PROVE  Order(j, d)'
  <2>1. d \in Clients /\ Other(j, d) \in j[1]
    BY Pair
  <2>2. CASE d = c
    BY <1>1, <1>2, <2>2, QuietOrder
  <2>3. CASE d # c
    <3>1. end'[j][d] = end[j][d] /\ chan'[j][d] = chan[j][d] /\ isSeed'[d] = isSeed[d]
      BY <1>1, <2>1, <2>3
    <3>2. /\ Away(end[j][Other(j, d)]) => Away(end'[j][Other(j, d)])
          /\ \/ chan'[j][Other(j, d)] = chan[j][Other(j, d)]
             \/ Away(end'[j][Other(j, d)]) /\ Lacks(chan'[j][Other(j, d)], "request")
      BY <1>1, <1>2, <2>1
    <3>3. Quiet(j, d)
      BY <3>1, <3>2 DEF Quiet, Alike
    <3> QED
      BY <3>3, QuietOrder
  <2> QED
    BY <2>2, <2>3
<1> QED
  BY <1>3 DEF OInv

(* A process that starts has no connection yet.                            *)
LEMMA StartOrder ==
    ASSUME IInv, OInv, NEW c \in Clients, NEW mode \in 0 .. 2, Start(c, mode)
    PROVE  OInv'
<1>1. /\ end' = end /\ chan' = chan /\ ~Up(c)
      /\ \A d \in Clients \ {c} : isSeed'[d] = isSeed[d]
  BY Parts DEF Start, Types
<1>2. ASSUME NEW j \in Conns, NEW d \in j[1]
      PROVE  Order(j, d)'
  <2>1. d \in Clients
    BY Pair
  <2>2. CASE d = c
    <3>1. end'[j][d].pc = "none"
      BY <1>1, <2>2, Parts DEF EndWell
    <3> QED
      BY <3>1, QuietOrder
  <2>3. CASE d # c
    <3>1. Quiet(j, d)
      BY <1>1, <2>1, <2>3 DEF Quiet, Alike
    <3> QED
      BY <3>1, QuietOrder
  <2> QED
    BY <2>2, <2>3
<1> QED
  BY <1>2 DEF OInv

(* At first nothing is on its way.                                         *)
LEMMA InitOrder == Init => OInv
<1> SUFFICES ASSUME Init, NEW k \in Conns, NEW c \in k[1]
             PROVE  Order(k, c)
  BY DEF OInv
<1>1. Other(k, c) \in k[1]
  BY Pair
<1>2. end[k][c] = NoEnd /\ chan[k][c] = <<>> /\ chan[k][Other(k, c)] = <<>>
  BY <1>1 DEF Init
<1> QED
  BY <1>2, FreshOrder DEF Order, NoEnd

(* Every step keeps the order.                                             *)
LEMMA NextOrder == IInv /\ OInv /\ [Next]_vars => OInv'
<1> SUFFICES ASSUME IInv, OInv, [Next]_vars
             PROVE  OInv'
  OBVIOUS
<1>1. CASE UNCHANGED vars
  BY <1>1 DEF vars, OInv, Order, Other
<1>2. ASSUME NEW c \in Clients, NEW d \in Clients, Connect(c, d)
      PROVE  OInv'
  BY <1>2, ConnectOrder
<1>3. ASSUME NEW c \in Clients, NEW k \in ConnsOf(c), Accept(k, c) \/ PToP(k, c)
      PROVE  OInv'
  <2>1. k \in Conns /\ c \in k[1]
    BY DEF ConnsOf
  <2> QED
    BY <1>3, <2>1, AcceptOrder, HandshakeOrder, GreetOrder, PeerGoneOrder, TalkOrder,
       OnBitfieldOrder, OnRequestOrder, OnPieceOrder, ShowOrder, CheckOrder,
       AskNextOrder, AskNewOrder DEF PToP
<1>4. ASSUME NEW c \in Clients, Shutdown(c) \/ Kill(c)
      PROVE  OInv'
  <2>1. Gone(c)
    BY <1>4 DEF Shutdown, Kill
  <2> QED
    BY <2>1, GoneOrder
<1>5. ASSUME NEW c \in Clients, NEW mode \in 0 .. 2, Start(c, mode)
      PROVE  OInv'
  BY <1>5, StartOrder
<1> QED
  BY <1>1, <1>2, <1>3, <1>4, <1>5 DEF Next

(* Messages fit what their ends expect.                                    *)
LEMMA OrderFits == IInv /\ OInv => AnswersFit
<1> SUFFICES ASSUME IInv, OInv, NEW k \in Conns, NEW c \in k[1]
             PROVE
    /\ NoneStale => \A n \in DOMAIN chan[k][c] :
         LET m == chan[k][c][n]
         IN  /\ m.type = "request" => <<m.index, m.offset>> \in disk[c]
             /\ m.type = "piece" => m.good
    /\ Up(c) /\ isSeed[c] # 2 /\ chan[k][c] # <<>> =>
         LET m == Head(chan[k][c])
         IN  m.type = "piece" /\ m.offset # 0
               => end[k][c].save = [index |-> m.index, offset |-> m.offset]
  BY DEF AnswersFit
<1>1. /\ c \in Clients /\ Holds(c) /\ EndWell(k, c) /\ chan[k][c] \in Seq(Message)
      /\ AllFit(chan[k][c], done[c], Reach(k, c), NoneStale)
  BY Pair, Parts
<1> DEFINE s == chan[k][c]
<1>2. DOMAIN s = 1 .. Len(s) /\ \A n \in 1 .. Len(s) : s[n] \in Message
  BY <1>1
<1>3. ASSUME NoneStale, NEW n \in DOMAIN s
      PROVE  /\ s[n].type = "request" => <<s[n].index, s[n].offset>> \in disk[c]
             /\ s[n].type = "piece" => s[n].good
  <2>1. s[n] \in Message /\ Fits(s[n], done[c], Reach(k, c), NoneStale)
    BY <1>1, <1>2, <1>3 DEF AllFit
  <2>2. ASSUME s[n].type = "request"
        PROVE  <<s[n].index, s[n].offset>> \in disk[c]
    <3>1. s[n].offset \in Blocks
      BY <2>1, <2>2 DEF Message
    <3>2. s[n].index \in done[c]
      BY <2>1, <2>2 DEF Fits
    <3> QED
      BY <1>1, <1>3, <3>1, <3>2 DEF Holds
  <2>3. s[n].type = "piece" => s[n].good
    BY <1>3, <2>1 DEF Fits
  <2> QED
    BY <2>2, <2>3
<1>4. ASSUME isSeed[c] # 2, s # <<>>, Head(s).type = "piece", Head(s).offset # 0
      PROVE  end[k][c].save = [index |-> Head(s).index, offset |-> Head(s).offset]
  <2>1. end[k][c].pc # "none"
    BY <1>1, <1>4 DEF EndWell
  <2>2. PICK mid \in State : Runs(s, "piece", end[k][c].save, mid)
    BY <1>4, <2>1, OrderParts
  <2>3. PICK x \in State : Step(Head(s), "piece", end[k][c].save, x)
    BY <1>1, <1>4, <2>2, RunsTail
  <2> QED
    BY <1>4, <2>3 DEF Step
<1> QED
  BY <1>3, <1>4

-----------------------------------------------------------------------------
(* What follows for every behaviour.                                        *)

(* Clients, connections and what they carry satisfy the invariant.         *)
THEOREM Invariant == Spec => []IInv
<1>1. Init => IInv
  BY InitIInv
<1>2. IInv /\ [Next]_vars => IInv'
  BY NextIInv
<1> QED
  BY <1>1, <1>2, PTL DEF Spec

(* Tables, slots and threads stay what they are: a client never has more   *)
(* than MAXPEER slots, whoever connects and whoever accepts, and no thread *)
(* outlives its process.                                                   *)
THEOREM TypeCorrect == Spec => []TypeOK
<1>1. IInv => TypeOK
  BY Parts DEF TypeOK, Types, EndWell
<1> QED
  BY <1>1, Invariant, PTL

(* What a client takes for done is on its disk, all of it and right, and a *)
(* client that takes itself for a seed has every piece: for any number of  *)
(* clients, interleaving of their threads, kill, shutdown and restart that *)
(* does not use a .bf file older than the file.                            *)
THEOREM IntegrityCorrect == Spec => []Integrity
<1>1. IInv => Integrity
  BY Parts DEF Integrity, Holds
<1> QED
  BY <1>1, Invariant, PTL

(* No client is asked for a block it does not have or sends a wrong one    *)
(* (sendPiece does not look, p2p.c 482), and the blocks come in the order  *)
(* savePiece wants (591-599): for any number of clients, pieces, blocks    *)
(* and connections, any interleaving of the threads and any restarts.      *)
THEOREM AnswersFitCorrect == Spec => []AnswersFit
<1>1. Init => IInv /\ OInv
  BY InitIInv, InitOrder
<1>2. IInv /\ OInv /\ [Next]_vars => (IInv /\ OInv)'
  BY NextIInv, NextOrder
<1> QED
  BY <1>1, <1>2, OrderFits, PTL DEF Spec

=============================================================================
