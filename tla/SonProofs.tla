------------------------------ MODULE SonProofs ------------------------------
(***************************************************************************)
(* Theorems about Son, for any nodes, links, payloads and packet size.     *)
(***************************************************************************)
EXTENDS Son, TLAPS, FiniteSetTheorems

-----------------------------------------------------------------------------
(* Receivers.                                                              *)

States == {"PKTSTART1", "PKTSTART2", "PKTRECV", "PKTSTOP1", "smashed"}
Rx == [st : States \cup {"done"}, buf : Seq(Nat), rest : Seq(Nat)]

(* A new receiver is one.                                                  *)
LEMMA ReceiverIs == Receiver \in Rx /\ Receiver.st = "PKTSTART1"
<1>1. <<>> \in Seq(Nat)
  OBVIOUS
<1> QED
  BY <1>1 DEF Receiver, Rx, States

(* A receiver in another state, or with other bytes.                       *)
LEMMA RxFields ==
    ASSUME NEW r \in Rx, NEW st \in States \cup {"done"}, NEW s \in Seq(Nat)
    PROVE  /\ [r EXCEPT !.st = st] \in Rx
           /\ [r EXCEPT !.rest = s] \in Rx
           /\ [r EXCEPT !.rest = s].st = r.st
           /\ [r EXCEPT !.buf = s] \in Rx
           /\ r.buf \in Seq(Nat) /\ r.rest \in Seq(Nat) /\ r.st \in States \cup {"done"}
  BY DEF Rx

(* Bytes are stored.                                                       *)
LEMMA StoreType ==
    ASSUME NEW r \in Rx, NEW bytes \in Seq(Nat), NEW size, NEW st \in States
    PROVE  Store(r, bytes, size, st) \in Rx
<1> DEFINE new == IF Len(r.buf) + Len(bytes) > size THEN "smashed" ELSE st
           q == [r EXCEPT !.buf = r.buf \o bytes]
<1>1. new \in States
  BY DEF States
<1>2. r.buf \o bytes \in Seq(Nat)
  BY DEF Rx
<1>3. q \in Rx
  BY <1>2, RxFields
<1>4. Store(r, bytes, size, st) = [q EXCEPT !.st = new]
  BY Zenon DEF Store
<1> HIDE DEF q, new
<1>5. [q EXCEPT !.st = new] \in Rx
  BY <1>1, <1>3 DEF Rx
<1> QED
  BY <1>4, <1>5

(* A character is read.                                                    *)
LEMMA StepType ==
    ASSUME NEW r \in Rx, NEW c \in Nat, NEW size
    PROVE  Step(r, c, size) \in Rx
<1>1. <<c>> \in Seq(Nat) /\ <<33>> \in Seq(Nat) /\ <<33, c>> \in Seq(Nat)
  OBVIOUS
<1>2. \A st \in States \cup {"done"} : [r EXCEPT !.st = st] \in Rx
  BY DEF Rx
<1>3. \A st \in States : /\ Store(r, <<c>>, size, st) \in Rx /\ Store(r, <<33>>, size, st) \in Rx
                         /\ Store(r, <<33, c>>, size, st) \in Rx
  BY <1>1, StoreType
<1>4. r.st \in States \cup {"done"}
  BY DEF Rx
<1>5. CASE r.st = "PKTSTART1"
  <2>1. Step(r, c, size) = [r EXCEPT !.st = IF c = 33 THEN "PKTSTART2" ELSE r.st]
    BY <1>5 DEF Step
  <2> QED
    BY <1>2, <1>4, <2>1 DEF States
<1>6. CASE r.st = "PKTSTART2"
  <2>1. Step(r, c, size) = [r EXCEPT !.st = IF c = 38 THEN "PKTRECV" ELSE "PKTSTART1"]
    BY <1>6 DEF Step
  <2> QED
    BY <1>2, <2>1 DEF States
<1>7. CASE r.st = "PKTRECV"
  <2>1. \/ Step(r, c, size) = [r EXCEPT !.st = "PKTSTOP1"]
        \/ Step(r, c, size) = Store(r, <<c>>, size, "PKTRECV")
        \/ Step(r, c, size) = r
    BY <1>7 DEF Step
  <2> QED
    BY <1>2, <1>3, <2>1 DEF States
<1>8. CASE r.st \notin {"PKTSTART1", "PKTSTART2", "PKTRECV"}
  <2>1. \/ Step(r, c, size) = [r EXCEPT !.st = "done"]
        \/ Step(r, c, size) = Store(r, <<33>>, size, "PKTSTOP1")
        \/ Step(r, c, size) = Store(r, <<33, c>>, size, "PKTRECV")
        \/ Step(r, c, size) = r
    BY <1>8 DEF Step
  <2> QED
    BY <1>2, <1>3, <2>1 DEF States
<1> QED
  BY <1>5, <1>6, <1>7, <1>8

(* What a character makes of a receiver: behind the end it is left.        *)
Char(q, c, size) ==
    IF q.st \in {"done", "smashed"} THEN [q EXCEPT !.rest = Append(@, c)] ELSE Step(q, c, size)

(* It stays a receiver.                                                    *)
LEMMA CharType ==
    ASSUME NEW q \in Rx, NEW c \in Nat, NEW size
    PROVE  Char(q, c, size) \in Rx
<1>1. Append(q.rest, c) \in Seq(Nat)
  BY DEF Rx
<1>2. [q EXCEPT !.rest = Append(q.rest, c)] \in Rx
  BY <1>1, RxFields
<1> QED
  BY <1>2, StepType DEF Char

(* A set of numbers has a smallest one.                                    *)
LEMMA SmallestOne ==
    ASSUME NEW S \in SUBSET Nat, S # {}
    PROVE  \E n \in S : \A m \in S : n <= m
<1> DEFINE R == {ss \in Nat \X Nat : ss[1] < ss[2]}
<1>1. IsWellFoundedOn(R, Nat)
  BY NatLessThanWellFounded DEF OpToRel
<1>2. PICK n \in S : \A m \in S : ~(<<m, n>> \in R)
  BY <1>1, WFMin
<1>3. ASSUME NEW m \in S
      PROVE  n <= m
  <2>1. n \in Nat /\ m \in Nat
    OBVIOUS
  <2>2. ~(m < n)
    BY <1>2, <2>1
  <2> HIDE DEF R
  <2> QED
    BY <2>1, <2>2
<1> QED
  BY <1>3

(* f gives the receivers after the first n bytes, one byte after another.  *)
IsAfter(f, r, bytes, size, n) ==
    f = [i \in 0 .. n |-> IF i = 0 THEN {r} ELSE {Char(q, bytes[i], size) : q \in f[i - 1]}]

(* There is such an f: otherwise take the smallest n for which there is    *)
(* none; one for n - 1 can be extended.                                    *)
LEMMA AfterExists ==
    ASSUME NEW r, NEW bytes, NEW size, NEW n \in Nat
    PROVE  \E f : IsAfter(f, r, bytes, size, n)
<1> DEFINE S == {k \in Nat : ~\E f : IsAfter(f, r, bytes, size, k)}
<1>1. SUFFICES ASSUME S # {}
               PROVE  FALSE
  OBVIOUS
<1>2. PICK m \in S : \A k \in S : m <= k
  <2> HIDE DEF S
  <2>1. S \in SUBSET Nat
    BY DEF S
  <2> QED
    BY <1>1, <2>1, SmallestOne
<1>3. m \in Nat /\ ~\E f : IsAfter(f, r, bytes, size, m)
  BY <1>2
<1>4. m # 0
  <2>1. IsAfter([i \in 0 .. 0 |-> {r}], r, bytes, size, 0)
    BY DEF IsAfter
  <2> QED
    BY <1>3, <2>1
<1>5. PICK f : IsAfter(f, r, bytes, size, m - 1)
  <2>1. m - 1 \in Nat /\ ~(m <= m - 1)
    BY <1>3, <1>4
  <2> QED
    BY <1>2, <2>1
<1> DEFINE g == [i \in 0 .. m |-> IF i <= m - 1 THEN f[i]
                                  ELSE {Char(q, bytes[m], size) : q \in f[m - 1]}]
<1>6. ASSUME NEW i \in 0 .. m
      PROVE  g[i] = IF i = 0 THEN {r} ELSE {Char(q, bytes[i], size) : q \in g[i - 1]}
  <2>1. CASE i <= m - 1
    <3>1. i \in 0 .. m - 1 /\ g[i] = f[i]
      BY <1>3, <2>1
    <3>2. f[i] = IF i = 0 THEN {r} ELSE {Char(q, bytes[i], size) : q \in f[i - 1]}
      BY <1>5, <3>1 DEF IsAfter
    <3>3. i # 0 => g[i - 1] = f[i - 1]
      BY <1>3, <2>1
    <3> HIDE DEF g
    <3> QED
      BY <3>1, <3>2, <3>3
  <2>2. CASE i = m
    <3>1. g[i] = {Char(q, bytes[i], size) : q \in f[i - 1]}
      BY <1>3, <1>4, <2>2
    <3>2. g[i - 1] = f[i - 1]
      BY <1>3, <1>4, <2>2
    <3> HIDE DEF g
    <3> QED
      BY <1>4, <2>2, <3>1, <3>2
  <2> QED
    BY <1>3, <2>1, <2>2
<1>7. IsAfter(g, r, bytes, size, m)
  <2>1. g = [i \in 0 .. m |-> g[i]]
    OBVIOUS
  <2> HIDE DEF g
  <2> QED
    BY <1>6, <2>1 DEF IsAfter
<1> QED
  BY <1>3, <1>7

(* Whatever holds of a receiver at the start, and after a byte if it held  *)
(* before it, holds of the receivers that reading leads to.                *)
LEMMA ReadsThrough ==
    ASSUME NEW r, NEW bytes \in Seq(Nat), NEW size, NEW S, r \in S[0],
           \A i \in 1 .. Len(bytes) : \A q \in S[i - 1] : Char(q, bytes[i], size) \in S[i]
    PROVE  Reads(r, bytes, size) \subseteq S[Len(bytes)]
<1> DEFINE n == Len(bytes)
<1>1. n \in Nat
  OBVIOUS
<1>2. PICK after : IsAfter(after, r, bytes, size, n) /\ Reads(r, bytes, size) = after[n]
  <2> DEFINE after == CHOOSE f : IsAfter(f, r, bytes, size, n)
  <2>1. \E f : IsAfter(f, r, bytes, size, n)
    BY <1>1, AfterExists
  <2>2. IsAfter(after, r, bytes, size, n)
    BY <2>1
  <2>3. Reads(r, bytes, size) = after[n]
    BY DEF Reads, IsAfter, Char
  <2> QED
    BY <2>2, <2>3
<1> HIDE DEF n
<1>3. ASSUME NEW i \in 0 .. n
      PROVE  after[i] = IF i = 0 THEN {r} ELSE {Char(q, bytes[i], size) : q \in after[i - 1]}
  BY <1>2 DEF IsAfter
<1>4. \A i \in 1 .. n : \A q \in S[i - 1] : Char(q, bytes[i], size) \in S[i]
  BY DEF n
<1> DEFINE bad == {i \in 0 .. n : ~(after[i] \subseteq S[i])}
<1>5. bad = {}
  <2>1. SUFFICES ASSUME bad # {}
                 PROVE  FALSE
    OBVIOUS
  <2>2. bad \in SUBSET Nat
    BY <1>1
  <2>3. PICK m \in bad : \A k \in bad : m <= k
    <3> HIDE DEF bad
    <3> QED
      BY <2>1, <2>2, SmallestOne
  <2>4. m \in 0 .. n /\ ~(after[m] \subseteq S[m])
    BY <2>3
  <2>5. m # 0
    <3>1. 0 \in 0 .. n
      BY <1>1
    <3>2. after[0] = {r}
      BY <1>3, <3>1
    <3> QED
      BY <2>4, <3>2
  <2>6. m \in 1 .. n
    BY <1>1, <2>4, <2>5
  <2>7. after[m - 1] \subseteq S[m - 1]
    <3>1. m - 1 \in 0 .. n /\ ~(m <= m - 1)
      BY <1>1, <2>6
    <3> QED
      BY <2>3, <3>1
  <2>8. after[m] = {Char(q, bytes[m], size) : q \in after[m - 1]}
    BY <1>3, <2>4, <2>5
  <2> QED
    BY <1>4, <2>4, <2>6, <2>7, <2>8
<1>6. n \in 0 .. n
  BY <1>1
<1> QED
  BY <1>2, <1>5, <1>6 DEF n

(* What is read leaves a receiver, with the bytes that are not read.       *)
LEMMA ReadsType ==
    ASSUME NEW r \in Rx, NEW bytes \in Seq(Nat), NEW size
    PROVE  Reads(r, bytes, size) \in SUBSET Rx
<1> DEFINE n == Len(bytes)
           S == [i \in 0 .. n |-> Rx]
<1>1. n \in Nat /\ \A i \in 1 .. n : bytes[i] \in Nat
  OBVIOUS
<1>2. \A i \in 0 .. n : S[i] = Rx
  OBVIOUS
<1> HIDE DEF S
<1>3. r \in S[0]
  BY <1>1, <1>2
<1>4. ASSUME NEW i \in 1 .. n, NEW q \in S[i - 1]
      PROVE  Char(q, bytes[i], size) \in S[i]
  <2>1. i \in 0 .. n /\ i - 1 \in 0 .. n /\ bytes[i] \in Nat
    BY <1>1
  <2> QED
    BY <1>2, <2>1, CharType
<1>5. Reads(r, bytes, size) \subseteq S[n]
  BY <1>3, <1>4, ReadsThrough
<1>6. S[n] = Rx
  BY <1>1, <1>2
<1> QED
  BY <1>5, <1>6

-----------------------------------------------------------------------------
(* The invariant.                                                          *)

Phases == {"off", "setup", "up", "gone"}
Packet == [pkt : Seq(Nat), all : BOOLEAN, to : SUBSET Nodes]

(* The processes, and whether SIP is connected.                            *)
Processes ==
    /\ phase \in [Nodes -> Phases] /\ sip \in [Nodes -> {"none", "up", "gone"}]
    /\ sip_conn \in [Nodes -> BOOLEAN]
    /\ \A n \in Nodes : sip_conn[n] => phase[n] = "up" /\ sip[n] # "none"
    /\ listen \in [LinkConns -> {"off", "on", "ended"}]
    /\ \A l \in LinkConns : listen[l] = "on" => phase[l[3]] = "up"

(* What is under way, and who is about to send what.                       *)
UnderWay ==
    /\ stream \in [Conns -> Seq(Nat)] /\ rx \in [Conns -> Rx]
    /\ \A c \in Conns : rx[c].st # "done"
    /\ calls \in [Threads -> Seq(Seq(Nat))]
    /\ out \in [Nodes -> Packet] /\ \A n \in Nodes : out[n].to \subseteq Nbrs(n)
    /\ sent \in Nat

(* What node n in a phase has dialled and accepted, and whom it has a      *)
(* connection to; quiet says that no neighbour has ended.                  *)
Connected(n, ph, dials, waiting, acc, con, quiet) ==
    /\ con \subseteq Nbrs(n) /\ dials \subseteq Small(n)
    /\ waiting \subseteq Big(n) /\ acc \subseteq Big(n)
    /\ ph = "off" => acc = {}
    /\ quiet /\ ph = "setup" => (Small(n) \ dials) \subseteq con /\ acc \subseteq con
    /\ quiet /\ ph = "up" => con = Nbrs(n)

Quiet(n) == \A m \in Nbrs(n) : phase[m] # "gone"

SetUp ==
    /\ dial \in [Nodes -> SUBSET Nodes] /\ backlog \in [Nodes -> SUBSET Nodes]
    /\ accepted \in [Nodes -> SUBSET Nodes] /\ conn \in [Nodes -> SUBSET Nodes]
    /\ \A n \in Nodes : Connected(n, phase[n], dial[n], backlog[n], accepted[n], conn[n], Quiet(n))

(* The inductive invariant.                                                *)
IInv == Processes /\ UnderWay /\ SetUp

-----------------------------------------------------------------------------
(* Nodes and connections.                                                  *)

(* A neighbour is bigger or smaller, and neighbourhood is mutual.          *)
LEMMA Neighbours ==
    ASSUME NEW n \in Nodes
    PROVE  /\ Nbrs(n) \subseteq Nodes /\ Big(n) \cup Small(n) = Nbrs(n)
           /\ \A m \in Small(n) : n \in Big(m)
           /\ \A m \in Nbrs(n) : m # n
<1>1. Nodes \subseteq Nat
  BY SonAssumption
<1>2. n \notin Nbrs(n)
  <2>1. {n, n} \notin Links
    <3>1. Cardinality({n}) = 1
      BY FS_Singleton
    <3>2. \A l \in Links : Cardinality(l) = 2
      BY SonAssumption
    <3>3. {n} \notin Links
      BY <3>1, <3>2
    <3>4. {n, n} = {n}
      OBVIOUS
    <3> QED
      BY <3>3, <3>4
  <2> QED
    BY <2>1 DEF Nbrs
<1>3. ASSUME NEW m \in Nbrs(n)
      PROVE  m \in Nodes /\ m # n /\ (m < n \/ m > n)
  BY <1>1, <1>2 DEF Nbrs
<1>4. ASSUME NEW m \in Small(n)
      PROVE  n \in Big(m)
  <2>1. m \in Nodes /\ m \in Nat /\ n \in Nat /\ m < n /\ {n, m} \in Links
    BY <1>1 DEF Small, Nbrs
  <2>2. {m, n} = {n, m} /\ n > m
    BY <2>1
  <2> QED
    BY <2>1, <2>2 DEF Big, Nbrs
<1> QED
  BY <1>3, <1>4 DEF Big, Small

(* Who writes and reads on a connection.                                   *)
LEMMA Connections ==
    /\ \A l \in LinkConns : /\ l \in Conns /\ l \in Threads /\ l[2] \in Nodes /\ l[3] \in Nodes
                            /\ l[2] \in Nbrs(l[3]) /\ Dest(l) \in Conns
    /\ \A n \in Nodes : Up(n) \in Conns /\ Down(n) \in Conns
    /\ \A n \in Nodes, m \in Nodes : m \in Nbrs(n) => Link(n, m) \in LinkConns
    /\ \A t \in SipThreads : t \in Threads /\ t[2] \in Nodes /\ Dest(t) \in Conns
    /\ \A n \in Nodes : Daemon(n) \in Threads /\ Sender(n) \in Threads
<1>1. ASSUME NEW l \in LinkConns
      PROVE  /\ l \in Conns /\ l \in Threads /\ l[2] \in Nodes /\ l[3] \in Nodes
             /\ l[2] \in Nbrs(l[3]) /\ Dest(l) = Down(l[3])
  <2>1. PICK e \in Nodes \X Nodes : {e[1], e[2]} \in Links /\ l = <<"link", e[1], e[2]>>
    BY DEF LinkConns, Link
  <2>2. l[2] = e[1] /\ l[3] = e[2] /\ e[1] \in Nodes /\ e[2] \in Nodes
    BY <2>1
  <2>3. {e[2], e[1]} \in Links
    <3>1. {e[2], e[1]} = {e[1], e[2]}
      OBVIOUS
    <3> QED
      BY <2>1, <3>1
  <2> QED
    BY <2>2, <2>3 DEF Conns, Threads, Nbrs, Dest
<1>2. ASSUME NEW n \in Nodes
      PROVE  Up(n) \in Conns /\ Down(n) \in Conns /\ Daemon(n) \in Threads /\ Sender(n) \in Threads
  BY DEF Conns, Threads, SipThreads
<1>3. ASSUME NEW n \in Nodes, NEW m \in Nodes, m \in Nbrs(n)
      PROVE  Link(n, m) \in LinkConns
  <2>1. <<n, m>> \in {x \in Nodes \X Nodes : {x[1], x[2]} \in Links}
    BY <1>3 DEF Nbrs
  <2> QED
    BY <2>1 DEF LinkConns
<1>4. ASSUME NEW t \in SipThreads
      PROVE  t \in Threads /\ t[2] \in Nodes /\ Dest(t) \in Conns
  <2>1. PICK n \in Nodes : t = <<"daemon", n, n>> \/ t = <<"other", n, n>>
    BY DEF SipThreads, Daemon, Sender
  <2>2. t[1] # "link" /\ t[2] = n
    BY <2>1
  <2>3. t \notin LinkConns
    <3>1. ASSUME NEW l \in LinkConns
          PROVE  l[1] = "link"
      <4>1. PICK e \in Nodes \X Nodes : l = <<"link", e[1], e[2]>>
        BY DEF LinkConns, Link
      <4> QED
        BY <4>1
    <3> QED
      BY <2>2, <3>1
  <2> QED
    BY <1>2, <2>2, <2>3 DEF Dest, Threads
<1> QED
  BY <1>1, <1>2, <1>3, <1>4

(* A structure and its delimiters are bytes.                               *)
LEMMA FrameType ==
    ASSUME NEW body \in Seq(Nat)
    PROVE  FrameOf(body) \in Seq(Seq(Nat)) /\ Framed(body) \in Seq(Nat)
<1>1. Opening \in Seq(Nat) /\ Closing \in Seq(Nat)
  BY DEF Opening, Closing
<1>2. Opening \o body \in Seq(Nat)
  BY <1>1
<1>3. Framed(body) \in Seq(Nat)
  BY <1>1, <1>2 DEF Framed
<1>4. FrameOf(body) \in Seq(Seq(Nat))
  BY <1>1 DEF FrameOf
<1> QED
  BY <1>3, <1>4

(* So is the structure that is read: not empty, with zeros behind what was *)
(* stored.                                                                 *)
LEMMA GotType ==
    ASSUME NEW c, NEW r \in Rx
    PROVE  Got(c, r) \in Seq(Nat) /\ Got(c, r) # <<>>
<1>1. Size(c) \in Nat /\ Size(c) # 0
  BY SonAssumption DEF Size
<1> DEFINE n == Size(c)
           g == [j \in 1 .. n |-> IF j <= Len(r.buf) THEN r.buf[j] ELSE 0]
<1>2. Got(c, r) = g
  BY DEF Got, Structure
<1>3. r.buf \in Seq(Nat)
  BY DEF Rx
<1> HIDE DEF n
<1>4. n \in Nat /\ n # 0
  BY <1>1 DEF n
<1>5. \A j \in 1 .. n : (IF j <= Len(r.buf) THEN r.buf[j] ELSE 0) \in Nat
  <2>1. ASSUME NEW j \in 1 .. n, j <= Len(r.buf)
        PROVE  r.buf[j] \in Nat
    <3>1. j \in 1 .. Len(r.buf)
      BY <1>3, <1>4, <2>1
    <3> QED
      BY <1>3, <3>1
  <2> QED
    BY <2>1
<1>6. g \in [1 .. n -> Nat]
  BY <1>5
<1> HIDE DEF g
<1>7. g \in Seq(Nat) /\ Len(g) = n
  BY <1>4, <1>6
<1>8. g # <<>>
  BY <1>4, <1>7
<1> QED
  BY <1>2, <1>7, <1>8

-----------------------------------------------------------------------------
(* What several actions share.                                             *)

(* A step changes nothing in the processes.                                *)
LEMMA ProcessesSame == Processes /\ UNCHANGED <<phase, sip, sip_conn, listen>> => Processes'
  BY DEF Processes

(* Nothing that is under way.                                              *)
LEMMA UnderWaySame == UnderWay /\ UNCHANGED <<stream, rx, calls, out, sent>> => UnderWay'
  BY DEF UnderWay

(* Nothing in the set-up.                                                  *)
LEMMA SetUpSame == SetUp /\ UNCHANGED <<setup, conn>> => SetUp'
  BY DEF SetUp, setup, Quiet

(* A receiving function reads.                                             *)
LEMMA HearsTypes ==
    ASSUME UnderWay, NEW c \in Conns, NEW r \in Heard(c), Hears(c, r)
    PROVE  /\ r \in Rx
           /\ stream' \in [Conns -> Seq(Nat)] /\ rx' \in [Conns -> Rx]
           /\ \A d \in Conns : rx'[d].st # "done"
<1>1. stream \in [Conns -> Seq(Nat)] /\ rx \in [Conns -> Rx] /\ \A d \in Conns : rx[d].st # "done"
  BY DEF UnderWay
<1>2. r \in Rx
  <2>1. rx[c] \in Rx /\ stream[c] \in Seq(Nat)
    BY <1>1
  <2> DEFINE q == rx[c]  bytes == stream[c]
  <2>2. q \in Rx /\ bytes \in Seq(Nat)
    BY <2>1
  <2>3. Heard(c) = Reads(q, bytes, Size(c))
    BY DEF Heard
  <2> HIDE DEF q, bytes
  <2>4. Reads(q, bytes, Size(c)) \in SUBSET Rx
    BY <2>2, ReadsType
  <2> QED
    BY <2>3, <2>4
<1>3. stream' \in [Conns -> Seq(Nat)]
  <2>1. r.rest \in Seq(Nat)
    BY <1>2 DEF Rx
  <2>2. stream' = [stream EXCEPT ![c] = r.rest]
    BY DEF Hears
  <2> QED
    BY <1>1, <2>1, <2>2
<1>4. PICK q \in Rx : q.st # "done" /\ rx' = [rx EXCEPT ![c] = q]
  <2>1. CASE Done(r)
    <3>1. rx' = [rx EXCEPT ![c] = Receiver]
      BY <2>1 DEF Hears
    <3> QED
      BY <3>1, ReceiverIs
  <2>2. CASE ~Done(r)
    <3> DEFINE q == [r EXCEPT !.rest = <<>>]
    <3>1. rx' = [rx EXCEPT ![c] = q]
      BY <2>2 DEF Hears
    <3>2. <<>> \in Seq(Nat)
      OBVIOUS
    <3>3. q \in Rx /\ q.st = r.st
      BY <1>2, <3>2, RxFields
    <3>4. r.st # "done"
      BY <2>2 DEF Done
    <3> HIDE DEF q
    <3> QED
      BY <3>1, <3>3, <3>4
  <2> QED
    BY <2>1, <2>2
<1>5. rx' \in [Conns -> Rx] /\ \A d \in Conns : rx'[d].st # "done"
  BY <1>1, <1>4
<1> QED
  BY <1>2, <1>3, <1>5

(* A thread makes one of its calls.                                        *)
LEMMA SendCallTypes ==
    ASSUME UnderWay, NEW t \in Threads, Dest(t) \in Conns, calls[t] # <<>>, SendCall(t)
    PROVE  stream' \in [Conns -> Seq(Nat)] /\ calls' \in [Threads -> Seq(Seq(Nat))]
<1>1. stream \in [Conns -> Seq(Nat)] /\ calls \in [Threads -> Seq(Seq(Nat))]
  BY DEF UnderWay
<1>2. Head(calls[t]) \in Seq(Nat) /\ Tail(calls[t]) \in Seq(Seq(Nat))
  BY <1>1
<1>3. stream' = [stream EXCEPT ![Dest(t)] = @ \o Head(calls[t])] /\ calls' = [calls EXCEPT ![t] = Tail(@)]
  BY DEF SendCall
<1>4. stream[Dest(t)] \o Head(calls[t]) \in Seq(Nat)
  BY <1>1, <1>2
<1> QED
  BY <1>1, <1>2, <1>3, <1>4

-----------------------------------------------------------------------------
(* The invariant holds at the start, and every step keeps it.              *)

(* Initially nobody is connected and nothing is under way.                 *)
LEMMA InitInv == Init => IInv
<1> SUFFICES ASSUME Init
             PROVE  IInv
  OBVIOUS
<1>1. Processes
  BY DEF Init, Processes, Phases
<1>2. UnderWay
  <2>1. <<>> \in Seq(Nat) /\ <<>> \in Seq(Seq(Nat))
    OBVIOUS
  <2>2. stream \in [Conns -> Seq(Nat)] /\ calls \in [Threads -> Seq(Seq(Nat))]
    BY <2>1 DEF Init
  <2>3. rx \in [Conns -> Rx] /\ \A c \in Conns : rx[c].st # "done"
    BY ReceiverIs DEF Init
  <2>4. Nothing \in Packet /\ Nothing.to = {}
    BY <2>1 DEF Nothing, Packet
  <2>5. out \in [Nodes -> Packet] /\ \A n \in Nodes : out[n].to \subseteq Nbrs(n)
    BY <2>4 DEF Init
  <2>6. sent \in Nat
    BY DEF Init
  <2> QED
    BY <2>2, <2>3, <2>5, <2>6 DEF UnderWay
<1>3. SetUp
  <2>1. ASSUME NEW n \in Nodes
        PROVE  Connected(n, "off", {}, {}, {}, {}, Quiet(n))
    BY DEF Connected
  <2> QED
    BY <2>1 DEF Init, SetUp
<1> QED
  BY <1>1, <1>2, <1>3 DEF IInv

(* main begins the set-up.                                                 *)
LEMMA StartKeeps == ASSUME IInv, NEW n \in Nodes, Start(n) PROVE IInv'
<1>1. Processes'
  BY DEF Start, IInv, Processes, Phases
<1>2. UnderWay'
  BY UnderWaySame DEF Start, IInv
<1>3. SetUp'
  <2>1. \A k \in Nodes : Quiet(k)' => Quiet(k)
    BY Neighbours DEF Start, Quiet, IInv, Processes
  <2>2. dial' = [dial EXCEPT ![n] = Small(n)] /\ phase' = [phase EXCEPT ![n] = "setup"] /\ phase[n] = "off"
        /\ UNCHANGED <<backlog, accepted, conn>>
    BY DEF Start
  <2>3. Small(n) \subseteq Nodes
    BY Neighbours
  <2>4. dial' \in [Nodes -> SUBSET Nodes] /\ \A k \in Nodes : dial'[k] = IF k = n THEN Small(n) ELSE dial[k]
    BY <2>2, <2>3 DEF IInv, SetUp
  <2>5. \A k \in Nodes : phase'[k] = IF k = n THEN "setup" ELSE phase[k]
    BY <2>2 DEF IInv, Processes
  <2>6. ASSUME NEW k \in Nodes
        PROVE  Connected(k, phase'[k], dial'[k], backlog'[k], accepted'[k], conn'[k], Quiet(k)')
    <3>1. Connected(k, phase[k], dial[k], backlog[k], accepted[k], conn[k], Quiet(k))
      BY DEF IInv, SetUp
    <3>2. UNCHANGED <<backlog, accepted, conn>>
      BY <2>2
    <3> QED
      BY <2>1, <2>2, <2>4, <2>5, <3>1, <3>2 DEF Connected
  <2> QED
    BY <2>2, <2>4, <2>6 DEF IInv, SetUp
<1> QED
  BY <1>1, <1>2, <1>3 DEF IInv

(* A connection is dialled, or refused by a neighbour that has ended.      *)
LEMMA DialKeeps == ASSUME IInv, NEW n \in Nodes, NEW m \in Nbrs(n), Dial(n, m) PROVE IInv'
<1>1. Processes' /\ UnderWay'
  BY ProcessesSame, UnderWaySame DEF Dial, IInv
<1>2. m \in Nodes /\ m \in Small(n) /\ n \in Big(m)
  <2>1. m \in dial[n] /\ dial[n] \subseteq Small(n)
    BY DEF Dial, IInv, SetUp, Connected
  <2> QED
    BY <2>1, Neighbours
<1>3. phase[n] = "setup" /\ UNCHANGED <<phase, accepted>> /\ m # n
  BY Neighbours DEF Dial
<1>4. \A k \in Nodes : Quiet(k)' <=> Quiet(k)
  BY <1>3 DEF Quiet
<1>5. CASE phase[m] = "gone"
  <2>1. dial' = [dial EXCEPT ![n] = {}] /\ UNCHANGED <<backlog, conn>>
    BY <1>5 DEF Dial
  <2>2. dial' \in [Nodes -> SUBSET Nodes] /\ \A k \in Nodes : dial'[k] = IF k = n THEN {} ELSE dial[k]
    BY <2>1 DEF IInv, SetUp
  <2>3. ~Quiet(n)
    BY <1>5 DEF Quiet
  <2>4. ASSUME NEW k \in Nodes
        PROVE  Connected(k, phase'[k], dial'[k], backlog'[k], accepted'[k], conn'[k], Quiet(k)')
    <3>1. Connected(k, phase[k], dial[k], backlog[k], accepted[k], conn[k], Quiet(k))
      BY DEF IInv, SetUp
    <3> QED
      BY <1>3, <1>4, <2>1, <2>2, <2>3, <3>1 DEF Connected
  <2> QED
    BY <1>1, <1>3, <2>1, <2>2, <2>4 DEF IInv, SetUp
<1>6. CASE phase[m] # "gone"
  <2>1. /\ dial' = [dial EXCEPT ![n] = @ \ {m}] /\ conn' = [conn EXCEPT ![n] = @ \cup {m}]
        /\ backlog' = [backlog EXCEPT ![m] = @ \cup {n}]
    BY <1>6 DEF Dial
  <2>2. dial' \in [Nodes -> SUBSET Nodes] /\ \A k \in Nodes : dial'[k] = IF k = n THEN dial[k] \ {m} ELSE dial[k]
    BY <2>1 DEF IInv, SetUp
  <2>3. conn' \in [Nodes -> SUBSET Nodes] /\ \A k \in Nodes : conn'[k] = IF k = n THEN conn[k] \cup {m} ELSE conn[k]
    BY <1>2, <2>1 DEF IInv, SetUp
  <2>4. backlog' \in [Nodes -> SUBSET Nodes]
        /\ \A k \in Nodes : backlog'[k] = IF k = m THEN backlog[k] \cup {n} ELSE backlog[k]
    BY <1>2, <2>1 DEF IInv, SetUp
  <2>5. ASSUME NEW k \in Nodes
        PROVE  Connected(k, phase'[k], dial'[k], backlog'[k], accepted'[k], conn'[k], Quiet(k)')
    <3>1. Connected(k, phase[k], dial[k], backlog[k], accepted[k], conn[k], Quiet(k))
      BY DEF IInv, SetUp
    <3>2. phase'[k] = phase[k] /\ accepted'[k] = accepted[k] /\ (Quiet(k)' <=> Quiet(k))
      BY <1>3, <1>4
    <3> QED
      BY <1>2, <1>3, <2>2, <2>3, <2>4, <3>1, <3>2 DEF Connected
  <2> QED
    BY <1>1, <1>3, <2>2, <2>3, <2>4, <2>5 DEF IInv, SetUp
<1> QED
  BY <1>5, <1>6

(* A connection is accepted.                                               *)
LEMMA AcceptKeeps == ASSUME IInv, NEW n \in Nodes, NEW m \in Nbrs(n), AcceptNbr(n, m) PROVE IInv'
<1>1. Processes' /\ UnderWay'
  BY ProcessesSame, UnderWaySame DEF AcceptNbr, IInv
<1>2. m \in Nodes /\ m \in Big(n)
  <2>1. m \in backlog[n] /\ backlog[n] \subseteq Big(n)
    BY DEF AcceptNbr, IInv, SetUp, Connected
  <2> QED
    BY <2>1, Neighbours
<1>3. phase[n] = "setup" /\ UNCHANGED <<phase, dial>>
  BY DEF AcceptNbr
<1>4. \A k \in Nodes : Quiet(k)' <=> Quiet(k)
  BY <1>3 DEF Quiet
<1>5. /\ backlog' = [backlog EXCEPT ![n] = @ \ {m}] /\ conn' = [conn EXCEPT ![n] = @ \cup {m}]
      /\ accepted' = [accepted EXCEPT ![n] = @ \cup {m}]
  BY DEF AcceptNbr
<1>6. /\ backlog' \in [Nodes -> SUBSET Nodes] /\ accepted' \in [Nodes -> SUBSET Nodes]
      /\ conn' \in [Nodes -> SUBSET Nodes]
  BY <1>2, <1>5 DEF IInv, SetUp
<1>7. ASSUME NEW k \in Nodes
      PROVE  Connected(k, phase'[k], dial'[k], backlog'[k], accepted'[k], conn'[k], Quiet(k)')
  <2>1. Connected(k, phase[k], dial[k], backlog[k], accepted[k], conn[k], Quiet(k))
    BY DEF IInv, SetUp
  <2>2. phase'[k] = phase[k] /\ dial'[k] = dial[k] /\ (Quiet(k)' <=> Quiet(k))
    BY <1>3, <1>4
  <2>3. /\ backlog'[k] = IF k = n THEN backlog[k] \ {m} ELSE backlog[k]
        /\ accepted'[k] = IF k = n THEN accepted[k] \cup {m} ELSE accepted[k]
        /\ conn'[k] = IF k = n THEN conn[k] \cup {m} ELSE conn[k]
    BY <1>5 DEF IInv, SetUp
  <2> QED
    BY <1>2, <1>3, <2>1, <2>2, <2>3, Neighbours DEF Connected
<1> QED
  BY <1>1, <1>3, <1>6, <1>7 DEF IInv, SetUp

(* The set-up is done.                                                     *)
LEMMA JoinKeeps == ASSUME IInv, NEW n \in Nodes, Join(n) PROVE IInv'
<1>1. /\ phase' = [phase EXCEPT ![n] = "up"] /\ phase[n] = "setup" /\ dial[n] = {} /\ accepted[n] = Big(n)
      /\ listen' = [l \in LinkConns |-> IF l[3] = n THEN "on" ELSE listen[l]]
      /\ UNCHANGED <<dial, backlog, accepted, conn, sip, sip_conn>>
  BY DEF Join
<1>2. phase' \in [Nodes -> Phases] /\ \A k \in Nodes : phase'[k] = IF k = n THEN "up" ELSE phase[k]
  BY <1>1 DEF IInv, Processes, Phases
<1>3. Processes'
  <2>1. listen' \in [LinkConns -> {"off", "on", "ended"}]
    BY <1>1 DEF IInv, Processes
  <2>2. \A l \in LinkConns : listen'[l] = "on" => phase'[l[3]] = "up"
    BY <1>1, <1>2, Connections DEF IInv, Processes
  <2>3. \A k \in Nodes : sip_conn'[k] => phase'[k] = "up" /\ sip'[k] # "none"
    BY <1>1, <1>2 DEF IInv, Processes
  <2> QED
    BY <1>1, <1>2, <2>1, <2>2, <2>3 DEF IInv, Processes
<1>4. UnderWay'
  BY UnderWaySame DEF Join, IInv
<1>5. SetUp'
  <2>1. \A k \in Nodes : Quiet(k)' => Quiet(k)
    BY <1>1, <1>2, Neighbours DEF Quiet
  <2>2. ASSUME NEW k \in Nodes
        PROVE  Connected(k, phase'[k], dial'[k], backlog'[k], accepted'[k], conn'[k], Quiet(k)')
    <3>1. Connected(k, phase[k], dial[k], backlog[k], accepted[k], conn[k], Quiet(k))
      BY DEF IInv, SetUp
    <3>2. Big(k) \cup Small(k) = Nbrs(k)
      BY Neighbours
    <3> QED
      BY <1>1, <1>2, <2>1, <3>1, <3>2 DEF Connected
  <2> QED
    BY <1>1, <2>2 DEF IInv, SetUp
<1> QED
  BY <1>3, <1>4, <1>5 DEF IInv

(* A listener reads.                                                       *)
LEMMA ListenerReadsKeeps == ASSUME IInv, NEW l \in LinkConns, ListenerReads(l) PROVE IInv'
<1>1. Processes' /\ SetUp'
  BY ProcessesSame, SetUpSame DEF ListenerReads, IInv, setup
<1>2. PICK r \in Heard(l) :
        /\ Hears(l, r)
        /\ calls' = IF Done(r) /\ sip_conn[l[3]] THEN [calls EXCEPT ![l] = FrameOf(Got(l, r))]
                    ELSE calls
  BY DEF ListenerReads
<1>3. l \in Conns /\ l \in Threads
  BY Connections
<1>4. /\ r \in Rx /\ stream' \in [Conns -> Seq(Nat)] /\ rx' \in [Conns -> Rx]
      /\ \A d \in Conns : rx'[d].st # "done"
  BY <1>2, <1>3, HearsTypes DEF IInv
<1>5. calls' \in [Threads -> Seq(Seq(Nat))]
  <2>1. FrameOf(Got(l, r)) \in Seq(Seq(Nat))
    BY <1>4, GotType, FrameType
  <2>2. calls \in [Threads -> Seq(Seq(Nat))]
    BY DEF IInv, UnderWay
  <2> QED
    BY <1>2, <1>3, <2>1, <2>2
<1>6. UNCHANGED <<out, sent>>
  BY DEF ListenerReads
<1> QED
  BY <1>1, <1>4, <1>5, <1>6 DEF IInv, UnderWay

(* A listener forwards.                                                    *)
LEMMA ListenerForwardsKeeps == ASSUME IInv, NEW l \in LinkConns, ListenerForwards(l) PROVE IInv'
<1>1. SetUp' /\ UNCHANGED <<rx, out, phase, sip, sent>>
  BY SetUpSame DEF ListenerForwards, IInv, setup
<1>2. l \in Conns /\ l \in Threads /\ Dest(l) \in Conns /\ l[3] \in Nodes /\ calls[l] # <<>>
  BY Connections DEF ListenerForwards
<1>3. calls \in [Threads -> Seq(Seq(Nat))] /\ Tail(calls[l]) \in Seq(Seq(Nat))
      /\ <<>> \in Seq(Seq(Nat))
  <2>1. calls \in [Threads -> Seq(Seq(Nat))]
    BY DEF IInv, UnderWay
  <2>2. calls[l] \in Seq(Seq(Nat)) /\ calls[l] # <<>>
    BY <1>2, <2>1
  <2> QED
    BY <2>1, <2>2
<1>4. CASE SendCall(l) /\ UNCHANGED <<sip_conn, listen>>
  <2>1. stream' \in [Conns -> Seq(Nat)] /\ calls' \in [Threads -> Seq(Seq(Nat))]
    BY <1>2, <1>4, SendCallTypes DEF IInv
  <2>2. UnderWay'
    BY <1>1, <2>1 DEF IInv, UnderWay
  <2>3. Processes'
    BY <1>1, <1>4, ProcessesSame DEF IInv
  <2> QED
    BY <1>1, <2>2, <2>3 DEF IInv
<1>5. CASE calls' = [calls EXCEPT ![l] = Tail(@)] /\ UNCHANGED <<stream, sip_conn, listen>>
  <2>1. calls' \in [Threads -> Seq(Seq(Nat))]
    BY <1>2, <1>3, <1>5
  <2>2. UnderWay'
    BY <1>1, <1>5, <2>1 DEF IInv, UnderWay
  <2>3. Processes'
    BY <1>1, <1>5, ProcessesSame DEF IInv
  <2> QED
    BY <1>1, <2>2, <2>3 DEF IInv
<1>6. CASE /\ calls' = [calls EXCEPT ![l] = <<>>]
           /\ sip_conn' = [sip_conn EXCEPT ![l[3]] = FALSE]
           /\ listen' = [listen EXCEPT ![l] = "ended"]
           /\ stream' = stream
  <2>1. calls' \in [Threads -> Seq(Seq(Nat))]
    BY <1>2, <1>3, <1>6
  <2>2. UnderWay'
    BY <1>1, <1>6, <2>1 DEF IInv, UnderWay
  <2>3. Processes'
    BY <1>1, <1>2, <1>6 DEF IInv, Processes
  <2> QED
    BY <1>1, <2>2, <2>3 DEF IInv
<1> QED
  BY <1>4, <1>5, <1>6 DEF ListenerForwards

(* A listener finds its neighbour gone, or not connected: it takes a       *)
(* connection away only from a node that is not quiet.                     *)
LEMMA ListenerEndsKeeps == ASSUME IInv, NEW l \in LinkConns, ListenerEnds(l) PROVE IInv'
<1>1. UnderWay' /\ UNCHANGED <<setup, sip, sip_conn>>
  BY UnderWaySame DEF ListenerEnds, IInv
<1>2. l[3] \in Nodes /\ l[2] \in Nbrs(l[3])
  BY Connections
<1>3. /\ conn' = [conn EXCEPT ![l[3]] = @ \ {l[2]}] /\ listen' = [listen EXCEPT ![l] = "ended"]
      /\ l[2] \notin conn[l[3]] \/ phase[l[2]] = "gone"
  BY DEF ListenerEnds
<1>4. UNCHANGED <<phase, dial, backlog, accepted>>
  BY <1>1 DEF setup
<1>5. Processes'
  BY <1>1, <1>3, <1>4 DEF IInv, Processes
<1>6. SetUp'
  <2>1. conn' \in [Nodes -> SUBSET Nodes]
        /\ \A k \in Nodes : conn'[k] = IF k = l[3] THEN conn[k] \ {l[2]} ELSE conn[k]
    BY <1>2, <1>3 DEF IInv, SetUp
  <2>2. l[2] \in conn[l[3]] => ~Quiet(l[3])
    BY <1>2, <1>3 DEF Quiet
  <2>3. \A k \in Nodes : Quiet(k)' <=> Quiet(k)
    BY <1>4 DEF Quiet
  <2>4. ASSUME NEW k \in Nodes
        PROVE  Connected(k, phase'[k], dial'[k], backlog'[k], accepted'[k], conn'[k], Quiet(k)')
    <3>1. Connected(k, phase[k], dial[k], backlog[k], accepted[k], conn[k], Quiet(k))
      BY DEF IInv, SetUp
    <3> QED
      BY <1>4, <2>1, <2>2, <2>3, <3>1 DEF Connected
  <2> QED
    BY <1>4, <2>1, <2>4 DEF IInv, SetUp
<1> QED
  BY <1>1, <1>5, <1>6 DEF IInv

(* SIP connects to SON.                                                    *)
LEMMA SipConnectsKeeps == ASSUME IInv, NEW n \in Nodes, SipConnects(n) PROVE IInv'
<1>1. UnderWay' /\ SetUp'
  BY UnderWaySame, SetUpSame DEF SipConnects, IInv, setup
<1>2. Processes'
  BY DEF SipConnects, IInv, Processes, setup
<1> QED
  BY <1>1, <1>2 DEF IInv

(* waitSIP reads a packet and the neighbours it goes to.                   *)
LEMMA WaitSIPReadsKeeps == ASSUME IInv, NEW n \in Nodes, WaitSIPReads(n) PROVE IInv'
<1>1. Processes' /\ SetUp' /\ UNCHANGED <<calls, sent>>
  BY ProcessesSame, SetUpSame DEF WaitSIPReads, IInv, setup
<1>2. PICK r \in Heard(Up(n)) :
        /\ Hears(Up(n), r)
        /\ LET next == Head(Got(Up(n), r))
               all == next = BROADCAST_NODEID
           IN  out' = IF Done(r)
                      THEN [out EXCEPT ![n] = [pkt |-> Tail(Got(Up(n), r)), all |-> all,
                                               to |-> IF all THEN Nbrs(n) ELSE Nbrs(n) \cap {next}]]
                      ELSE out
  BY DEF WaitSIPReads
<1>3. Up(n) \in Conns
  BY Connections
<1>4. /\ r \in Rx /\ stream' \in [Conns -> Seq(Nat)] /\ rx' \in [Conns -> Rx]
      /\ \A d \in Conns : rx'[d].st # "done"
  BY <1>2, <1>3, HearsTypes DEF IInv
<1>5. out \in [Nodes -> Packet] /\ \A k \in Nodes : out[k].to \subseteq Nbrs(k)
  BY DEF IInv, UnderWay
<1>6. out' \in [Nodes -> Packet] /\ \A k \in Nodes : out'[k].to \subseteq Nbrs(k)
  <2> DEFINE got == Got(Up(n), r)
             next == Head(got)
             all == next = BROADCAST_NODEID
             to == IF all THEN Nbrs(n) ELSE Nbrs(n) \cap {next}
             p == [pkt |-> Tail(got), all |-> all, to |-> to]
  <2>1. out' = IF Done(r) THEN [out EXCEPT ![n] = p] ELSE out
    BY <1>2
  <2>2. p \in Packet /\ p.to \subseteq Nbrs(n)
    <3>1. got \in Seq(Nat) /\ got # <<>>
      BY <1>4, GotType
    <3> HIDE DEF got
    <3>2. Tail(got) \in Seq(Nat)
      BY <3>1
    <3>3. to \subseteq Nbrs(n) /\ Nbrs(n) \subseteq Nodes
      BY Neighbours
    <3>4. all \in BOOLEAN
      OBVIOUS
    <3> HIDE DEF all, to, next
    <3> QED
      BY <3>2, <3>3, <3>4 DEF Packet
  <2> HIDE DEF p
  <2> QED
    BY <1>5, <2>1, <2>2
<1> QED
  BY <1>1, <1>4, <1>6 DEF IInv, UnderWay

(* The packet goes to one neighbour; the connection is given up only when  *)
(* that neighbour has ended.                                               *)
LEMMA SendToKeeps == ASSUME IInv, NEW n \in Nodes, NEW m \in Nbrs(n), SendTo(n, m) PROVE IInv'
<1>1. Processes' /\ UNCHANGED <<phase, dial, backlog, accepted, rx, calls, sent>>
  BY ProcessesSame DEF SendTo, IInv, setup
<1>2. m \in Nodes /\ Link(n, m) \in Conns
  BY Neighbours, Connections
<1>3. out \in [Nodes -> Packet] /\ out[n] \in Packet /\ \A k \in Nodes : out[k].to \subseteq Nbrs(k)
  BY DEF IInv, UnderWay
<1>4. stream' \in [Conns -> Seq(Nat)]
  <2>1. stream \in [Conns -> Seq(Nat)] /\ stream[Link(n, m)] \in Seq(Nat)
    BY <1>2 DEF IInv, UnderWay
  <2>2. out[n].pkt \in Seq(Nat)
    BY <1>3 DEF Packet
  <2>3. Framed(out[n].pkt) \in Seq(Nat)
    BY <2>2, FrameType
  <2>4. stream[Link(n, m)] \o Framed(out[n].pkt) \in Seq(Nat)
    BY <2>1, <2>3
  <2>5. \/ stream' = [stream EXCEPT ![Link(n, m)] = @ \o Framed(out[n].pkt)]
        \/ stream' = stream
    BY DEF SendTo
  <2> QED
    BY <1>2, <2>1, <2>4, <2>5
<1>5. out' \in [Nodes -> Packet] /\ \A k \in Nodes : out'[k].to \subseteq Nbrs(k)
  <2> DEFINE p == [out[n] EXCEPT !.to = @ \ {m}]
  <2>1. p \in Packet /\ p.to \subseteq Nbrs(n)
    BY <1>3 DEF Packet
  <2>2. Nothing \in Packet /\ Nothing.to = {}
    <3>1. <<>> \in Seq(Nat)
      OBVIOUS
    <3> QED
      BY <3>1 DEF Nothing, Packet
  <2>3. out' = [out EXCEPT ![n] = IF out[n].to = {m} THEN Nothing ELSE p]
    BY DEF SendTo
  <2> HIDE DEF p
  <2> QED
    BY <1>3, <2>1, <2>2, <2>3
<1>6. UnderWay'
  BY <1>1, <1>4, <1>5 DEF IInv, UnderWay
<1>7. SetUp'
  <2>1. \/ conn' = conn
        \/ (m \notin conn[n] \/ phase[m] = "gone") /\ conn' = [conn EXCEPT ![n] = @ \ {m}]
    BY DEF SendTo
  <2>2. conn \in [Nodes -> SUBSET Nodes]
    BY DEF IInv, SetUp
  <2>3. conn' \in [Nodes -> SUBSET Nodes]
        /\ \A k \in Nodes : \/ conn'[k] = conn[k]
                            \/ conn'[k] \subseteq conn[k] /\ ~Quiet(k)
    BY <2>1, <2>2 DEF Quiet
  <2>4. \A k \in Nodes : Quiet(k)' <=> Quiet(k)
    BY <1>1 DEF Quiet
  <2>5. ASSUME NEW k \in Nodes
        PROVE  Connected(k, phase'[k], dial'[k], backlog'[k], accepted'[k], conn'[k], Quiet(k)')
    <3>1. Connected(k, phase[k], dial[k], backlog[k], accepted[k], conn[k], Quiet(k))
      BY DEF IInv, SetUp
    <3> QED
      BY <1>1, <2>3, <2>4, <3>1 DEF Connected
  <2> QED
    BY <1>1, <2>3, <2>5 DEF IInv, SetUp
<1> QED
  BY <1>1, <1>6, <1>7 DEF IInv

(* A SON process ends: its neighbours are no longer quiet, and what was    *)
(* its own is gone.                                                        *)
LEMMA GoneKeeps == ASSUME IInv, NEW n \in Nodes, Gone(n) PROVE IInv'
<1>1. /\ phase' = [phase EXCEPT ![n] = "gone"]
      /\ dial' = [dial EXCEPT ![n] = {}] /\ backlog' = [backlog EXCEPT ![n] = {}]
      /\ accepted' = [accepted EXCEPT ![n] = {}]
      /\ conn' = [conn EXCEPT ![n] = {}] /\ sip_conn' = [sip_conn EXCEPT ![n] = FALSE]
      /\ listen' = [l \in LinkConns |-> IF l[3] = n THEN "ended" ELSE listen[l]]
      /\ calls' = [t \in Threads |-> IF Dest(t)[3] = n THEN <<>> ELSE calls[t]]
      /\ out' = [out EXCEPT ![n] = Nothing] /\ UNCHANGED <<sip, sent>>
  BY DEF Gone
<1>2. phase' \in [Nodes -> Phases] /\ \A k \in Nodes : phase'[k] = IF k = n THEN "gone" ELSE phase[k]
  BY <1>1 DEF IInv, Processes, Phases
<1>3. Processes'
  <2>1. sip_conn' \in [Nodes -> BOOLEAN]
        /\ \A k \in Nodes : sip_conn'[k] = IF k = n THEN FALSE ELSE sip_conn[k]
    BY <1>1 DEF IInv, Processes
  <2>2. \A k \in Nodes : sip_conn'[k] => phase'[k] = "up" /\ sip'[k] # "none"
    BY <1>1, <1>2, <2>1 DEF IInv, Processes
  <2>3. listen' \in [LinkConns -> {"off", "on", "ended"}]
        /\ \A l \in LinkConns : listen'[l] = IF l[3] = n THEN "ended" ELSE listen[l]
    BY <1>1 DEF IInv, Processes
  <2>4. \A l \in LinkConns : listen'[l] = "on" => phase'[l[3]] = "up"
    BY <1>2, <2>3, Connections DEF IInv, Processes
  <2> QED
    BY <1>1, <1>2, <2>1, <2>2, <2>3, <2>4 DEF IInv, Processes
<1>4. UnderWay'
  <2>1. <<>> \in Seq(Nat) /\ <<>> \in Seq(Seq(Nat))
    OBVIOUS
  <2>2. PICK ends2 \in SUBSET Conns : stream' = [c \in Conns |-> IF c \in ends2 THEN <<>> ELSE stream[c]]
    <3> DEFINE into == {c \in Conns : c[3] = n}
    <3>1. PICK lost \in SUBSET {c \in LinkConns : c[2] = n} :
            stream' = [c \in Conns |-> IF c \in into \cup lost THEN <<>> ELSE stream[c]]
      BY DEF Gone
    <3>2. lost \subseteq Conns
      BY Connections
    <3> QED
      BY <3>1, <3>2
  <2>3. stream' \in [Conns -> Seq(Nat)]
    BY <2>1, <2>2 DEF IInv, UnderWay
  <2>4. rx' = [c \in Conns |-> IF c \in {d \in Conns : d[3] = n} THEN Receiver ELSE rx[c]]
    BY DEF Gone
  <2>5. rx' \in [Conns -> Rx] /\ \A c \in Conns : rx'[c].st # "done"
    <3>1. \A c \in Conns : rx'[c] = Receiver \/ rx'[c] = rx[c]
      BY <2>4
    <3>2. rx \in [Conns -> Rx] /\ \A c \in Conns : rx[c].st # "done"
      BY DEF IInv, UnderWay
    <3>3. \A c \in Conns : rx'[c] \in Rx /\ rx'[c].st # "done"
      BY <3>1, <3>2, ReceiverIs
    <3>4. rx' = [c \in Conns |-> rx'[c]]
      BY <2>4
    <3> QED
      BY <3>3, <3>4
  <2>6. calls' \in [Threads -> Seq(Seq(Nat))]
    BY <1>1, <2>1 DEF IInv, UnderWay
  <2>7. Nothing \in Packet /\ Nothing.to = {}
    BY <2>1 DEF Nothing, Packet
  <2>8. out' \in [Nodes -> Packet] /\ \A k \in Nodes : out'[k].to \subseteq Nbrs(k)
    BY <1>1, <2>7 DEF IInv, UnderWay
  <2> QED
    BY <1>1, <2>3, <2>5, <2>6, <2>8 DEF IInv, UnderWay
<1>5. SetUp'
  <2>1. \A k \in Nodes : Quiet(k)' => Quiet(k)
    BY <1>2, Neighbours DEF Quiet
  <2>2. /\ dial' \in [Nodes -> SUBSET Nodes] /\ backlog' \in [Nodes -> SUBSET Nodes]
        /\ accepted' \in [Nodes -> SUBSET Nodes] /\ conn' \in [Nodes -> SUBSET Nodes]
    BY <1>1 DEF IInv, SetUp
  <2>3. ASSUME NEW k \in Nodes
        PROVE  Connected(k, phase'[k], dial'[k], backlog'[k], accepted'[k], conn'[k], Quiet(k)')
    <3>1. CASE k = n
      <4>1. phase'[k] = "gone" /\ dial'[k] = {} /\ backlog'[k] = {} /\ accepted'[k] = {} /\ conn'[k] = {}
        BY <1>1, <1>2, <3>1 DEF IInv, SetUp
      <4> QED
        BY <4>1 DEF Connected
    <3>2. CASE k # n
      <4>1. /\ phase'[k] = phase[k] /\ dial'[k] = dial[k] /\ backlog'[k] = backlog[k]
            /\ accepted'[k] = accepted[k] /\ conn'[k] = conn[k]
        BY <1>1, <1>2, <3>2 DEF IInv, SetUp
      <4>2. Connected(k, phase[k], dial[k], backlog[k], accepted[k], conn[k], Quiet(k))
        BY DEF IInv, SetUp
      <4> QED
        BY <2>1, <4>1, <4>2 DEF Connected
    <3> QED
      BY <3>1, <3>2
  <2> QED
    BY <2>2, <2>3 DEF SetUp
<1> QED
  BY <1>3, <1>4, <1>5 DEF IInv

(* A thread of SIP begins a structure.                                     *)
LEMMA SipSendsKeeps == ASSUME IInv, NEW n \in Nodes, SipSends(n) PROVE IInv'
<1>1. Processes' /\ SetUp' /\ UNCHANGED <<stream, rx, out>>
  BY ProcessesSame, SetUpSame DEF SipSends, IInv, setup
<1> DEFINE k == sent + 1
<1>2. k \in Nat /\ sent' = k /\ \A m \in Nodes \cup {BROADCAST_NODEID} :
                                    FrameOf(<<m>> \o Payloads[k]) \in Seq(Seq(Nat))
  <2>1. sent \in Nat
    BY DEF IInv, UnderWay
  <2>2. sent < Len(Payloads) /\ sent' = k
    BY DEF SipSends
  <2>3. Payloads \in Seq(Seq(Nat)) /\ Nodes \cup {BROADCAST_NODEID} \subseteq Nat
    BY SonAssumption
  <2>4. k \in 1 .. Len(Payloads) /\ k \in Nat
    BY <2>1, <2>2, <2>3
  <2>5. Payloads[k] \in Seq(Nat)
    BY <2>3, <2>4
  <2>6. ASSUME NEW m \in Nodes \cup {BROADCAST_NODEID}
        PROVE  <<m>> \o Payloads[k] \in Seq(Nat)
    <3>1. <<m>> \in Seq(Nat)
      BY <2>3
    <3> QED
      BY <2>5, <3>1
  <2> QED
    BY <2>2, <2>4, <2>6, FrameType
<1> HIDE DEF k
<1>3. Daemon(n) \in Threads /\ Sender(n) \in Threads /\ Nbrs(n) \subseteq Nodes
  BY Connections, Neighbours
<1>4. PICK t \in Threads, m \in Nodes \cup {BROADCAST_NODEID} :
        calls' = [calls EXCEPT ![t] = FrameOf(<<m>> \o Payloads[k])]
  BY <1>2, <1>3 DEF SipSends
<1>5. calls' \in [Threads -> Seq(Seq(Nat))]
  BY <1>2, <1>4 DEF IInv, UnderWay
<1> QED
  BY <1>1, <1>2, <1>5 DEF IInv, UnderWay

(* It goes on with it.                                                     *)
LEMMA SipCallsKeeps == ASSUME IInv, NEW t \in SipThreads, SipCalls(t) PROVE IInv'
<1>1. Processes' /\ SetUp' /\ UNCHANGED <<rx, out, sent>>
  BY ProcessesSame, SetUpSame DEF SipCalls, IInv, setup
<1>2. t \in Threads /\ Dest(t) \in Conns /\ calls[t] # <<>> /\ SendCall(t)
  BY Connections DEF SipCalls
<1>3. stream' \in [Conns -> Seq(Nat)] /\ calls' \in [Threads -> Seq(Seq(Nat))]
  BY <1>2, SendCallTypes DEF IInv
<1> QED
  BY <1>1, <1>3 DEF IInv, UnderWay

(* SIP reads what a listener has forwarded.                                *)
LEMMA SipReadsKeeps == ASSUME IInv, NEW n \in Nodes, SipReads(n) PROVE IInv'
<1>1. Processes' /\ SetUp' /\ UNCHANGED <<calls, out, sent>>
  BY ProcessesSame, SetUpSame DEF SipReads, IInv, setup
<1>2. PICK r \in Heard(Down(n)) : Hears(Down(n), r)
  BY DEF SipReads
<1>3. Down(n) \in Conns
  BY Connections
<1>4. stream' \in [Conns -> Seq(Nat)] /\ rx' \in [Conns -> Rx] /\ \A d \in Conns : rx'[d].st # "done"
  BY <1>2, <1>3, HearsTypes DEF IInv
<1> QED
  BY <1>1, <1>4 DEF IInv, UnderWay

(* A SIP process ends.                                                     *)
LEMMA SipEndsKeeps == ASSUME IInv, NEW n \in Nodes, SipEnds(n) PROVE IInv'
<1>1. SetUp' /\ UNCHANGED <<phase, sip_conn, listen, rx, out, sent>>
  BY SetUpSame DEF SipEnds, IInv, setup
<1>2. Processes'
  <2>1. sip' = [sip EXCEPT ![n] = "gone"]
    BY DEF SipEnds
  <2> QED
    BY <1>1, <2>1 DEF IInv, Processes
<1>3. UnderWay'
  <2>1. <<>> \in Seq(Nat) /\ <<>> \in Seq(Seq(Nat))
    OBVIOUS
  <2>2. stream' = [stream EXCEPT ![Down(n)] = <<>>]
        /\ calls' = [t \in Threads |-> IF t \in SipThreads /\ t[2] = n THEN <<>> ELSE calls[t]]
    BY DEF SipEnds
  <2> QED
    BY <1>1, <2>1, <2>2 DEF IInv, UnderWay
<1> QED
  BY <1>1, <1>2, <1>3 DEF IInv

(* Every step keeps the invariant.                                         *)
LEMMA NextInv == IInv /\ [Next]_vars => IInv'
<1> SUFFICES ASSUME IInv, [Next]_vars
             PROVE  IInv'
  OBVIOUS
<1>1. ASSUME NEW n \in Nodes, Start(n)
      PROVE  IInv'
  BY <1>1, StartKeeps
<1>2. ASSUME NEW n \in Nodes, Join(n)
      PROVE  IInv'
  BY <1>2, JoinKeeps
<1>3. ASSUME NEW n \in Nodes, SipConnects(n)
      PROVE  IInv'
  BY <1>3, SipConnectsKeeps
<1>4. ASSUME NEW n \in Nodes, WaitSIP(n)
      PROVE  IInv'
  <2>1. CASE WaitSIPReads(n)
    BY <2>1, WaitSIPReadsKeeps
  <2>2. CASE \E m \in Nbrs(n) : SendTo(n, m)
    BY <2>2, SendToKeeps
  <2>3. CASE WaitSIPReturns(n)
    BY <2>3, GoneKeeps DEF WaitSIPReturns
  <2> QED
    BY <1>4, <2>1, <2>2, <2>3 DEF WaitSIP
<1>5. ASSUME NEW n \in Nodes, Killed(n)
      PROVE  IInv'
  BY <1>5, GoneKeeps DEF Killed
<1>6. ASSUME NEW n \in Nodes, NEW m \in Nbrs(n), Dial(n, m) \/ AcceptNbr(n, m)
      PROVE  IInv'
  BY <1>6, DialKeeps, AcceptKeeps
<1>7. ASSUME NEW n \in Nodes, SipSends(n) \/ SipReads(n) \/ SipEnds(n)
      PROVE  IInv'
  BY <1>7, SipSendsKeeps, SipReadsKeeps, SipEndsKeeps
<1>8. ASSUME NEW l \in LinkConns, Listener(l)
      PROVE  IInv'
  BY <1>8, ListenerReadsKeeps, ListenerForwardsKeeps, ListenerEndsKeeps DEF Listener
<1>9. ASSUME NEW t \in SipThreads, SipCalls(t)
      PROVE  IInv'
  BY <1>9, SipCallsKeeps
<1>10. CASE UNCHANGED vars
  BY <1>10, ProcessesSame, UnderWaySame, SetUpSame DEF IInv, vars, setup
<1> QED
  BY <1>1, <1>2, <1>3, <1>4, <1>5, <1>6, <1>7, <1>8, <1>9, <1>10 DEF Next

-----------------------------------------------------------------------------
(* Frames: what is on a connection is, byte for byte, what has to come.    *)

(* The structures of a size that may be sent.                              *)
Bodies(size) == {b \in Seq(Nat) : Len(b) = size /\ Clean(b)}

(* The bytes of the frame of b.                                            *)
At(b, j) == CASE j = 1 -> 33
              [] j = 2 -> 38
              [] j \in 3 .. Len(b) + 2 -> b[j - 2]
              [] j = Len(b) + 3 -> 33
              [] OTHER -> 35

(* u is s and then t.                                                      *)
Joins(s, t, u) ==
    /\ u \in Seq(Nat) /\ Len(u) = Len(s) + Len(t)
    /\ \A i \in 1 .. Len(s) : u[i] = s[i]
    /\ \A j \in 1 .. Len(t) : u[Len(s) + j] = t[j]

(* Sequences with the same elements.                                       *)
LEMMA SeqEqual ==
    ASSUME NEW s \in Seq(Nat), NEW t \in Seq(Nat), Len(s) = Len(t),
           \A i \in 1 .. Len(s) : s[i] = t[i]
    PROVE  s = t
  OBVIOUS

(* Two sequences, one behind the other.                                    *)
LEMMA Concat ==
    ASSUME NEW s \in Seq(Nat), NEW t \in Seq(Nat)
    PROVE  Joins(s, t, s \o t)
<1>1. s \o t \in Seq(Nat) /\ Len(s \o t) = Len(s) + Len(t)
  OBVIOUS
<1>2. \A i \in 1 .. Len(s) + Len(t) : (s \o t)[i] = IF i <= Len(s) THEN s[i] ELSE t[i - Len(s)]
  OBVIOUS
<1>3. Len(s) \in Nat /\ Len(t) \in Nat
  OBVIOUS
<1>4. \A i \in 1 .. Len(s) : i \in 1 .. Len(s) + Len(t) /\ i <= Len(s)
  BY <1>3
<1>5. ASSUME NEW j \in 1 .. Len(t)
      PROVE  (s \o t)[Len(s) + j] = t[j]
  <2>1. /\ Len(s) + j \in 1 .. Len(s) + Len(t) /\ ~(Len(s) + j <= Len(s))
        /\ Len(s) + j - Len(s) = j
    BY <1>3
  <2> QED
    BY <1>2, <2>1
<1> QED
  BY <1>1, <1>2, <1>4, <1>5 DEF Joins

(* Three.                                                                  *)
LEMMA Associates ==
    ASSUME NEW x \in Seq(Nat), NEW y \in Seq(Nat), NEW z \in Seq(Nat)
    PROVE  (x \o y) \o z = x \o (y \o z)
<1> DEFINE xy == x \o y
           yz == y \o z
           left == xy \o z
           right == x \o yz
<1>1. Joins(x, y, xy) /\ Joins(y, z, yz)
  BY Concat
<1>2. xy \in Seq(Nat) /\ yz \in Seq(Nat)
  <2> HIDE DEF xy, yz
  <2> QED
    BY <1>1 DEF Joins
<1>3. Joins(xy, z, left) /\ Joins(x, yz, right)
  <2> HIDE DEF xy, yz
  <2> QED
    BY <1>2, Concat
<1> HIDE DEF xy, yz, left, right
<1>4. /\ Len(x) \in Nat /\ Len(y) \in Nat /\ Len(z) \in Nat
      /\ Len(xy) = Len(x) + Len(y) /\ Len(yz) = Len(y) + Len(z)
      /\ Len(left) = (Len(x) + Len(y)) + Len(z) /\ Len(right) = Len(x) + (Len(y) + Len(z))
      /\ left \in Seq(Nat) /\ right \in Seq(Nat)
  BY <1>1, <1>3 DEF Joins
<1>5. ASSUME NEW i \in 1 .. Len(left)
      PROVE  left[i] = right[i]
  <2>1. CASE i <= Len(x)
    <3>1. i \in 1 .. Len(x) /\ i \in 1 .. Len(xy)
      BY <1>4, <2>1
    <3> QED
      BY <1>1, <1>3, <3>1 DEF Joins
  <2>2. CASE ~(i <= Len(x)) /\ i <= Len(x) + Len(y)
    <3>1. /\ i - Len(x) \in 1 .. Len(y) /\ i - Len(x) \in 1 .. Len(yz) /\ i \in 1 .. Len(xy)
          /\ Len(x) + (i - Len(x)) = i
      BY <1>4, <2>2
    <3>2. left[i] = xy[i] /\ xy[i] = y[i - Len(x)]
      BY <1>1, <1>3, <3>1 DEF Joins
    <3>3. right[i] = yz[i - Len(x)] /\ yz[i - Len(x)] = y[i - Len(x)]
      BY <1>1, <1>3, <3>1 DEF Joins
    <3> QED
      BY <3>2, <3>3
  <2>3. CASE ~(i <= Len(x) + Len(y))
    <3> DEFINE j == i - (Len(x) + Len(y))
    <3>1. /\ j \in 1 .. Len(z) /\ Len(y) + j \in 1 .. Len(yz) /\ Len(x) + (Len(y) + j) = i
          /\ Len(xy) + j = i
      <4> DEFINE a == Len(x)
                 b == Len(y)
                 c == Len(z)
                 ii == i
                 jj == j
      <4>1. /\ a \in Nat /\ b \in Nat /\ c \in Nat /\ ii \in 1 .. (a + b) + c /\ ~(ii <= a + b)
            /\ jj = ii - (a + b) /\ Len(yz) = b + c /\ Len(xy) = a + b
        BY <1>4, <2>3
      <4> HIDE DEF a, b, c, ii, jj
      <4>2. jj \in 1 .. c /\ b + jj \in 1 .. b + c /\ a + (b + jj) = ii /\ (a + b) + jj = ii
        BY <4>1
      <4> QED
        BY <4>1, <4>2, Zenon DEF a, b, c, ii, jj
    <3> HIDE DEF j
    <3>2. left[i] = z[j]
      BY <1>3, <3>1 DEF Joins
    <3>3. right[i] = yz[Len(y) + j] /\ yz[Len(y) + j] = z[j]
      BY <1>1, <1>3, <3>1 DEF Joins
    <3> QED
      BY <3>2, <3>3
  <2> QED
    BY <1>4, <2>1, <2>2, <2>3
<1>6. Len(left) = Len(right)
  BY <1>4
<1>7. left = right
  BY <1>4, <1>5, <1>6, SeqEqual
<1> QED
  BY <1>7 DEF left, right, xy, yz

(* A frame is sent in three calls.                                         *)
LEMMA FramedIs ==
    ASSUME NEW b \in Seq(Nat)
    PROVE  Framed(b) = Opening \o (b \o Closing)
<1> DEFINE op == Opening
           cl == Closing
<1>1. op \in Seq(Nat) /\ cl \in Seq(Nat)
  BY DEF Opening, Closing
<1>2. Framed(b) = (op \o b) \o cl
  BY DEF Framed
<1> HIDE DEF op, cl
<1>3. (op \o b) \o cl = op \o (b \o cl)
  BY <1>1, Associates
<1> QED
  BY <1>2, <1>3 DEF op, cl

(* A frame, byte by byte.                                                  *)
LEMMA FrameAt ==
    ASSUME NEW b \in Seq(Nat)
    PROVE  /\ Len(Framed(b)) = Len(b) + 4
           /\ \A j \in 1 .. Len(b) + 4 : Framed(b)[j] = At(b, j)
<1> DEFINE n == Len(b)
           op == Opening
           cl == Closing
           s == op \o b
           fr == s \o cl
<1>1. n \in Nat
  OBVIOUS
<1>2. /\ op \in Seq(Nat) /\ Len(op) = 2 /\ op[1] = 33 /\ op[2] = 38
      /\ cl \in Seq(Nat) /\ Len(cl) = 2 /\ cl[1] = 33 /\ cl[2] = 35
  BY DEF Opening, Closing
<1>3. Framed(b) = fr
  BY DEF Framed
<1> HIDE DEF op, cl
<1>4. /\ s \in Seq(Nat) /\ Len(s) = 2 + n /\ (\A j \in 1 .. 2 : s[j] = op[j])
      /\ \A j \in 1 .. n : s[2 + j] = b[j]
  <2>1. Joins(op, b, s)
    BY <1>2, Concat
  <2> HIDE DEF s
  <2> QED
    BY <1>2, <2>1 DEF Joins
<1> HIDE DEF s
<1>5. /\ Len(fr) = n + 4 /\ (\A j \in 1 .. n + 2 : fr[j] = s[j])
      /\ \A j \in 1 .. 2 : fr[n + 2 + j] = cl[j]
  <2>1. /\ Len(fr) = Len(s) + Len(cl) /\ (\A j \in 1 .. Len(s) : fr[j] = s[j])
        /\ \A j \in 1 .. Len(cl) : fr[Len(s) + j] = cl[j]
    <3>1. Joins(s, cl, fr)
      BY <1>2, <1>4, Concat
    <3> HIDE DEF fr
    <3> QED
      BY <3>1 DEF Joins
  <2>2. 2 + n = n + 2 /\ n + 2 + 2 = n + 4
    BY <1>1
  <2> HIDE DEF fr, n
  <2> QED
    BY <1>2, <1>4, <2>1, <2>2
<1> HIDE DEF fr
<1>6. ASSUME NEW j \in 1 .. n + 4
      PROVE  fr[j] = At(b, j)
  <2>1. CASE j = 1 \/ j = 2
    <3>1. j \in 1 .. n + 2 /\ j \in 1 .. 2
      BY <1>1, <2>1
    <3>2. fr[j] = op[j]
      BY <1>4, <1>5, <3>1
    <3> QED
      BY <1>2, <2>1, <3>2 DEF At
  <2>2. CASE j \in 3 .. n + 2
    <3>1. /\ j \in 1 .. n + 2 /\ j - 2 \in 1 .. n /\ 2 + (j - 2) = j
          /\ j # 1 /\ j # 2
      BY <1>1, <2>2
    <3>2. fr[j] = b[j - 2]
      BY <1>4, <1>5, <3>1
    <3>3. j \in 3 .. Len(b) + 2
      BY <2>2
    <3> QED
      BY <3>1, <3>2, <3>3 DEF At
  <2>3. CASE j \notin 1 .. n + 2
    <3>1. j - (n + 2) \in 1 .. 2 /\ n + 2 + (j - (n + 2)) = j
      BY <1>1, <2>3
    <3>2. fr[j] = cl[j - (n + 2)]
      BY <1>5, <3>1
    <3>3. j # 1 /\ j # 2 /\ j \notin 3 .. n + 2 /\ (j = n + 3 <=> j - (n + 2) = 1)
      BY <1>1, <2>3
    <3>4. j - (n + 2) = 1 \/ j - (n + 2) = 2
      BY <3>1
    <3> QED
      BY <1>2, <3>2, <3>3, <3>4 DEF At
  <2>4. j = 1 \/ j = 2 \/ j \in 3 .. n + 2 \/ j \notin 1 .. n + 2
    BY <1>1
  <2> QED
    BY <2>1, <2>2, <2>3, <2>4
<1> QED
  BY <1>3, <1>5, <1>6

(* Frames of one length, one behind the other.                             *)
LEMMA Multiples ==
    ASSUME NEW L \in Nat
    PROVE  /\ 0 * L = 0 /\ 1 * L = L
           /\ \A n \in Nat : n * L \in Nat /\ (n + 1) * L = n * L + L
           /\ \A n \in Nat, m \in Nat : n <= m => n * L <= m * L
<1>1. 0 * L = 0 /\ 1 * L = L
  OBVIOUS
<1>2. \A n \in Nat : n * L \in Nat /\ (n + 1) * L = n * L + L
  OBVIOUS
<1>3. ASSUME NEW n \in Nat, NEW m \in Nat, n <= m
      PROVE  n * L <= m * L
  <2>1. PICK k \in Nat : m = n + k
    <3>1. m - n \in Nat /\ m = n + (m - n)
      BY <1>3
    <3> QED
      BY <3>1
  <2>2. m * L = n * L + k * L /\ k * L \in Nat /\ n * L \in Nat
    BY <2>1
  <2> QED
    BY <2>2
<1> QED
  BY <1>1, <1>2, <1>3

(* T is what is left of the frames of the bodies in owes when p bytes of   *)
(* the first have been read.                                               *)
Wire(T, owes, p, size) ==
    /\ Len(T) + p = Len(owes) * (size + 4)
    /\ \A i \in 1 .. Len(owes), j \in 1 .. size + 4 :
         LET x == (i - 1) * (size + 4) + j - p
         IN  x >= 1 => T[x] = At(owes[i], j)

(* Nothing is left of nothing.                                             *)
LEMMA WireNone ==
    ASSUME NEW size \in Nat, NEW T \in Seq(Nat), NEW p \in Nat
    PROVE  /\ Wire(<<>>, <<>>, 0, size)
           /\ Wire(T, <<>>, p, size) => T = <<>> /\ p = 0
<1>1. 0 * (size + 4) = 0
  BY Multiples
<1>2. Wire(<<>>, <<>>, 0, size)
  BY <1>1 DEF Wire
<1>3. ASSUME Wire(T, <<>>, p, size)
      PROVE  T = <<>> /\ p = 0
  <2>1. Len(T) + p = 0
    BY <1>1, <1>3 DEF Wire
  <2> QED
    BY <2>1
<1> QED
  BY <1>2, <1>3

(* One more frame is put behind the others.                                *)
LEMMA WireAppend ==
    ASSUME NEW size \in Nat, NEW T \in Seq(Nat), NEW owes \in Seq(Bodies(size)), NEW p \in Nat,
           Wire(T, owes, p, size), NEW b \in Bodies(size)
    PROVE  Wire(T \o Framed(b), Append(owes, b), p, size)
<1> DEFINE L == size + 4
           n == Len(owes)
           U == T \o Framed(b)
           new == Append(owes, b)
<1>1. L \in Nat /\ n \in Nat /\ Len(T) \in Nat
  OBVIOUS
<1>2. b \in Seq(Nat) /\ Len(b) = size
  BY DEF Bodies
<1>3. Framed(b) \in Seq(Nat) /\ Len(Framed(b)) = L /\ \A j \in 1 .. L : Framed(b)[j] = At(b, j)
  BY <1>2, FrameAt, FrameType
<1>4. Len(U) = Len(T) + L /\ (\A x \in 1 .. Len(T) : U[x] = T[x])
      /\ \A j \in 1 .. L : U[Len(T) + j] = Framed(b)[j]
  <2> DEFINE fr == Framed(b)
  <2>1. Joins(T, fr, U)
    BY <1>3, Concat
  <2>2. Len(fr) = L
    BY <1>3
  <2> HIDE DEF U, L
  <2> QED
    BY <2>1, <2>2 DEF Joins
<1>5. Len(new) = n + 1 /\ new[n + 1] = b /\ \A i \in 1 .. n : new[i] = owes[i]
  OBVIOUS
<1>6. Len(T) + p = n * L /\ \A i \in 1 .. n, j \in 1 .. L :
                              (i - 1) * L + j - p >= 1 => T[(i - 1) * L + j - p] = At(owes[i], j)
  BY DEF Wire
<1> HIDE DEF L, n, U, new
<1>7. Len(U) + p = Len(new) * L
  <2>1. (n + 1) * L = n * L + L /\ n * L \in Nat
    BY <1>1, Multiples
  <2> QED
    <3> DEFINE nL == n * L  newL == Len(new) * L  tl == Len(T)  ul == Len(U)
    <3>1. nL \in Nat /\ tl + p = nL /\ newL = nL + L
      BY <1>5, <1>6, <2>1
    <3>2. ul = tl + L /\ tl \in Nat /\ L \in Nat
      BY <1>1, <1>4
    <3> HIDE DEF nL, newL, tl, ul
    <3>3. ul + p = newL
      BY <3>1, <3>2
    <3> QED
      BY <3>3 DEF newL, ul
<1>8. ASSUME NEW i \in 1 .. n + 1, NEW j \in 1 .. L, (i - 1) * L + j - p >= 1
      PROVE  U[(i - 1) * L + j - p] = At(new[i], j)
  <2> DEFINE m == (i - 1) * L
  <2>1. CASE i = n + 1
    <3>1. m + j - p = Len(T) + j
      <4>1. m = n * L
        <5>1. i - 1 = n
          BY <1>1, <2>1
        <5> QED
          BY <5>1
      <4>2. n * L \in Nat
        BY <1>1, Multiples
      <4> HIDE DEF m
      <4> QED
        BY <1>1, <1>6, <4>1, <4>2
    <3>2. U[Len(T) + j] = At(b, j)
      BY <1>3, <1>4
    <3> QED
      BY <1>5, <2>1, <3>1, <3>2
  <2>2. CASE i # n + 1
    <3>1. i \in 1 .. n /\ i - 1 \in Nat /\ (i - 1) + 1 = i /\ i \in Nat
      BY <1>1, <2>2
    <3>2. m \in Nat /\ i * L = m + L /\ i * L <= n * L /\ n * L \in Nat /\ i * L \in Nat
      BY <1>1, <3>1, Multiples
    <3>3. m + j - p >= 1
      BY <1>8
    <3>4. m + j - p \in 1 .. Len(T)
      <4> DEFINE nL == n * L  iL == i * L
      <4>1. nL \in Nat /\ iL \in Nat /\ m \in Nat /\ iL = m + L /\ iL <= nL /\ Len(T) + p = nL
        BY <1>6, <3>2
      <4> HIDE DEF m, nL, iL
      <4> QED
        BY <1>1, <3>3, <4>1
    <3>5. T[m + j - p] = At(owes[i], j)
      BY <1>6, <3>1, <3>3
    <3> QED
      BY <1>4, <1>5, <3>1, <3>4, <3>5
  <2> QED
    BY <2>1, <2>2
<1> QED
  BY <1>5, <1>7, <1>8 DEF Wire, L, U, new

(* U is T without its first k bytes.                                       *)
Left(T, U, k) == Len(T) = k + Len(U) /\ \A j \in 1 .. Len(U) : U[j] = T[k + j]

(* The first bytes are read.                                               *)
LEMMA WireShift ==
    ASSUME NEW size \in Nat, NEW k \in Nat, NEW U \in Seq(Nat), NEW T, Left(T, U, k),
           NEW owes, NEW p \in Nat, Wire(T, owes, p, size), Len(owes) \in Nat
    PROVE  Wire(U, owes, p + k, size)
<1> DEFINE L == size + 4
           n == Len(owes)
<1>1. L \in Nat /\ n \in Nat /\ Len(U) \in Nat /\ n * L \in Nat
  BY Multiples
<1>2. Len(T) = k + Len(U) /\ \A j \in 1 .. Len(U) : T[k + j] = U[j]
  BY DEF Left
<1>3. Len(T) + p = n * L /\ \A i \in 1 .. n, j \in 1 .. L :
                              (i - 1) * L + j - p >= 1 => T[(i - 1) * L + j - p] = At(owes[i], j)
  BY DEF Wire
<1> HIDE DEF L, n
<1>4. Len(U) + (p + k) = n * L
  <2> DEFINE nL == n * L
  <2>1. nL \in Nat /\ Len(T) + p = nL
    BY <1>1, <1>3
  <2> HIDE DEF nL
  <2>2. Len(U) + (p + k) = nL
    BY <1>1, <1>2, <2>1
  <2> QED
    BY <2>2 DEF nL
<1>5. ASSUME NEW i \in 1 .. n, NEW j \in 1 .. L, (i - 1) * L + j - (p + k) >= 1
      PROVE  U[(i - 1) * L + j - (p + k)] = At(owes[i], j)
  <2> DEFINE m == (i - 1) * L  nL == n * L  iL == i * L
  <2>1. i \in Nat /\ i - 1 \in Nat /\ (i - 1) + 1 = i /\ i <= n
    BY <1>1
  <2>2. m \in Nat /\ iL = m + L /\ iL <= nL /\ nL \in Nat /\ iL \in Nat
    BY <1>1, <2>1, Multiples
  <2>3. Len(U) + (p + k) = nL /\ m + j - (p + k) >= 1
    BY <1>4, <1>5
  <2>4. m + j - p >= 1 => T[m + j - p] = At(owes[i], j)
    BY <1>3
  <2> HIDE DEF m, nL, iL
  <2>5. /\ m + j - (p + k) \in 1 .. Len(U) /\ m + j - p >= 1
        /\ k + (m + j - (p + k)) = m + j - p
    BY <1>1, <2>2, <2>3
  <2>6. U[m + j - (p + k)] = At(owes[i], j)
    BY <1>2, <2>4, <2>5
  <2> QED
    BY <2>6 DEF m
<1> QED
  BY <1>4, <1>5 DEF Wire, L, n

(* The first frame has been read.                                          *)
LEMMA WireNext ==
    ASSUME NEW size \in Nat, NEW T \in Seq(Nat), NEW B, NEW owes \in Seq(B), owes # <<>>,
           Wire(T, owes, size + 4, size)
    PROVE  Wire(T, Tail(owes), 0, size)
<1> DEFINE L == size + 4
           n == Len(owes)
           new == Tail(owes)
<1>1. L \in Nat /\ n \in Nat /\ n # 0 /\ Len(T) \in Nat
  OBVIOUS
<1>2. Len(new) = n - 1 /\ \A i \in 1 .. n - 1 : new[i] = owes[i + 1]
  OBVIOUS
<1>3. Len(T) + L = n * L /\ \A i \in 1 .. n, j \in 1 .. L :
                              (i - 1) * L + j - L >= 1 => T[(i - 1) * L + j - L] = At(owes[i], j)
  BY DEF Wire
<1> HIDE DEF L, n, new
<1>4. n - 1 \in Nat /\ (n - 1) + 1 = n
  BY <1>1
<1>5. Len(T) + 0 = Len(new) * L
  <2> DEFINE nL == n * L  mL == (n - 1) * L
  <2>1. nL = mL + L /\ mL \in Nat /\ Len(T) + L = nL
    BY <1>1, <1>3, <1>4, Multiples
  <2> HIDE DEF nL, mL
  <2>2. Len(T) + 0 = mL
    BY <1>1, <2>1
  <2> QED
    BY <1>2, <2>2 DEF mL
<1>6. ASSUME NEW i \in 1 .. n - 1, NEW j \in 1 .. L, (i - 1) * L + j - 0 >= 1
      PROVE  T[(i - 1) * L + j - 0] = At(new[i], j)
  <2> DEFINE m == (i - 1) * L  iL == i * L
  <2>1. i \in Nat /\ i - 1 \in Nat /\ (i - 1) + 1 = i /\ i + 1 \in 1 .. n /\ (i + 1) - 1 = i
    BY <1>1
  <2>2. m \in Nat /\ iL = m + L /\ m + j - 0 >= 1
    BY <1>1, <1>6, <2>1, Multiples
  <2>3. iL + j - L >= 1 => T[iL + j - L] = At(owes[i + 1], j)
    BY <1>3, <2>1
  <2> HIDE DEF m, iL
  <2>4. iL + j - L = m + j - 0
    BY <1>1, <2>2
  <2>5. T[m + j - 0] = At(owes[i + 1], j)
    BY <2>2, <2>3, <2>4
  <2> QED
    BY <1>2, <2>5 DEF m
<1> QED
  BY <1>2, <1>5, <1>6 DEF Wire, L, new

(* The bytes that come next are those of the first body.                   *)
LEMMA WireFirst ==
    ASSUME NEW size \in Nat, NEW T \in Seq(Nat), NEW owes, Len(owes) \in Nat \ {0},
           NEW p \in 0 .. size + 3, Wire(T, owes, p, size)
    PROVE  \A j \in 1 .. size + 4 - p : j \in 1 .. Len(T) /\ T[j] = At(owes[1], p + j)
<1> SUFFICES ASSUME NEW j \in 1 .. size + 4 - p
             PROVE  j \in 1 .. Len(T) /\ T[j] = At(owes[1], p + j)
  OBVIOUS
<1> DEFINE L == size + 4
           n == Len(owes)
           nL == n * L
<1>1. L \in Nat /\ n \in Nat /\ 1 <= n /\ Len(T) \in Nat /\ p + j \in 1 .. L /\ 1 \in 1 .. n
  OBVIOUS
<1>2. L <= nL /\ nL \in Nat
  <2>1. 1 * L = L /\ 1 * L <= n * L /\ n * L \in Nat
    BY <1>1, Multiples
  <2> QED
    BY <2>1
<1>3. Len(T) + p = nL
  BY DEF Wire
<1>4. (1 - 1) * L + (p + j) - p >= 1 => T[(1 - 1) * L + (p + j) - p] = At(owes[1], p + j)
  <2> HIDE DEF L
  <2> QED
    BY <1>1 DEF Wire, L
<1>5. (1 - 1) * L + (p + j) - p = j
  <2>1. (1 - 1) * L = 0
    BY <1>1, Multiples
  <2> HIDE DEF L
  <2> DEFINE z == (1 - 1) * L
  <2>2. z = 0
    BY <2>1
  <2> HIDE DEF z
  <2>3. z + (p + j) - p = j
    BY <2>2
  <2> QED
    BY <2>3 DEF z
<1> HIDE DEF nL, n
<1>6. j \in 1 .. Len(T) /\ j >= 1
  BY <1>1, <1>2, <1>3
<1> HIDE DEF L
<1> QED
  BY <1>4, <1>5, <1>6

(* The first k bytes of b are stored.                                      *)
Holds(buf, b, k) == Len(buf) = k /\ \A j \in 1 .. k : buf[j] = b[j]

(* The receiver has read the first p bytes of the frame of b; behind a '!' *)
(* it does not know yet whether the frame ends.                            *)
IsAt(r, b, p) ==
    /\ r.rest = <<>>
    /\ p = 0 => r.st = "PKTSTART1" /\ r.buf = <<>>
    /\ p = 1 => r.st = "PKTSTART2" /\ r.buf = <<>>
    /\ p >= 2 => IF p >= 3 /\ At(b, p) = 33
                 THEN r.st = "PKTSTOP1" /\ Holds(r.buf, b, p - 3)
                 ELSE r.st = "PKTRECV" /\ Holds(r.buf, b, p - 2)

(* strlen ends within what has been stored.                                *)
LEMMA StrlenBounds ==
    ASSUME NEW buf \in Seq(Nat)
    PROVE  Strlen(buf) \in 0 .. Len(buf)
<1> DEFINE zeros == {j \in DOMAIN buf : buf[j] = 0}
<1>1. DOMAIN buf = 1 .. Len(buf) /\ Len(buf) \in Nat
  OBVIOUS
<1>2. CASE zeros = {}
  <2>1. Strlen(buf) = Len(buf)
    BY <1>2 DEF Strlen
  <2> QED
    BY <1>1, <2>1
<1>3. CASE zeros # {}
  <2> DEFINE z == CHOOSE j \in zeros : \A k \in zeros : j <= k
  <2>1. zeros \in SUBSET Nat /\ zeros \subseteq 1 .. Len(buf)
    BY <1>1
  <2>2. Strlen(buf) = z - 1
    BY <1>3 DEF Strlen
  <2> HIDE DEF zeros
  <2>3. \E j \in zeros : \A k \in zeros : j <= k
    BY <1>3, <2>1, SmallestOne
  <2>4. z \in zeros
    BY <2>3
  <2> HIDE DEF z
  <2> QED
    BY <1>1, <2>1, <2>2, <2>4
<1> QED
  BY <1>2, <1>3

(* q is r in another state, or after it has stored bytes.                  *)
Turned(r, st, q) == q.st = st /\ q.buf = r.buf /\ q.rest = r.rest
Stored(r, bytes, st, q) == q.st = st /\ q.buf = r.buf \o bytes /\ q.rest = r.rest

(* A receiver that has the room stores bytes.                              *)
LEMMA StoreIs ==
    ASSUME NEW r \in Rx, NEW bytes \in Seq(Nat), NEW size \in Nat, NEW st,
           Len(r.buf) + Len(bytes) <= size
    PROVE  Stored(r, bytes, st, Store(r, bytes, size, st))
<1>1. Len(r.buf) \in Nat /\ Len(bytes) \in Nat
  BY DEF Rx
<1>2. ~(Len(r.buf) + Len(bytes) > size)
  BY <1>1
<1>3. Store(r, bytes, size, st) = [r EXCEPT !.buf = r.buf \o bytes, !.st = st]
  BY <1>2 DEF Store
<1> QED
  BY <1>3 DEF Stored, Rx

(* What a character does, state by state, to a receiver that has the room. *)
LEMMA StepIs ==
    ASSUME NEW r \in Rx, NEW c \in Nat, NEW size \in Nat, NEW q, q = Step(r, c, size)
    PROVE  /\ r.st = "PKTSTART1" /\ c = 33 => Turned(r, "PKTSTART2", q)
           /\ r.st = "PKTSTART2" /\ c = 38 => Turned(r, "PKTRECV", q)
           /\ r.st = "PKTRECV" /\ c = 33 => Turned(r, "PKTSTOP1", q)
           /\ r.st = "PKTRECV" /\ c # 33 /\ Len(r.buf) < size => Stored(r, <<c>>, "PKTRECV", q)
           /\ r.st = "PKTSTOP1" /\ c = 35 => Turned(r, "done", q)
           /\ r.st = "PKTSTOP1" /\ c = 33 /\ Len(r.buf) < size => Stored(r, <<33>>, "PKTSTOP1", q)
           /\ r.st = "PKTSTOP1" /\ c # 33 /\ c # 35 /\ Len(r.buf) + 1 < size =>
                Stored(r, <<33, c>>, "PKTRECV", q)
<1>1. \A st : Turned(r, st, [r EXCEPT !.st = st])
  BY DEF Rx, Turned
<1>2. Len(r.buf) \in Nat
  BY DEF Rx
<1>3. ASSUME r.st = "PKTSTART1", c = 33
      PROVE  Turned(r, "PKTSTART2", q)
  <2>1. q = [r EXCEPT !.st = "PKTSTART2"]
    BY <1>3 DEF Step
  <2> QED
    BY <1>1, <2>1
<1>4. ASSUME r.st = "PKTSTART2", c = 38
      PROVE  Turned(r, "PKTRECV", q)
  <2>1. q = [r EXCEPT !.st = "PKTRECV"]
    BY <1>4 DEF Step
  <2> QED
    BY <1>1, <2>1
<1>5. ASSUME r.st = "PKTRECV", c = 33
      PROVE  Turned(r, "PKTSTOP1", q)
  <2>1. q = [r EXCEPT !.st = "PKTSTOP1"]
    BY <1>5 DEF Step
  <2> QED
    BY <1>1, <2>1
<1>6. ASSUME r.st = "PKTRECV", c # 33, Len(r.buf) < size
      PROVE  Stored(r, <<c>>, "PKTRECV", q)
  <2>1. q = Store(r, <<c>>, size, "PKTRECV")
    BY <1>6 DEF Step
  <2> DEFINE bytes == <<c>>
  <2>2. Len(r.buf) + Len(bytes) <= size /\ bytes \in Seq(Nat)
    BY <1>2, <1>6
  <2> HIDE DEF bytes
  <2>3. Stored(r, bytes, "PKTRECV", Store(r, bytes, size, "PKTRECV"))
    BY <2>2, StoreIs
  <2> QED
    BY <2>1, <2>3 DEF bytes
<1>7. ASSUME r.st = "PKTSTOP1", c = 35
      PROVE  Turned(r, "done", q)
  <2>1. q = [r EXCEPT !.st = "done"]
    BY <1>7 DEF Step
  <2> QED
    BY <1>1, <2>1
<1>8. ASSUME r.st = "PKTSTOP1", c = 33, Len(r.buf) < size
      PROVE  Stored(r, <<33>>, "PKTSTOP1", q)
  <2>1. q = Store(r, <<33>>, size, "PKTSTOP1")
    BY <1>8 DEF Step
  <2> DEFINE bytes == <<33>>
  <2>2. Len(r.buf) + Len(bytes) <= size /\ bytes \in Seq(Nat)
    BY <1>2, <1>8
  <2> HIDE DEF bytes
  <2>3. Stored(r, bytes, "PKTSTOP1", Store(r, bytes, size, "PKTSTOP1"))
    BY <2>2, StoreIs
  <2> QED
    BY <2>1, <2>3 DEF bytes
<1>9. ASSUME r.st = "PKTSTOP1", c # 33, c # 35, Len(r.buf) + 1 < size
      PROVE  Stored(r, <<33, c>>, "PKTRECV", q)
  <2>1. Strlen(r.buf) + 1 < size
    <3>1. Strlen(r.buf) \in 0 .. Len(r.buf)
      BY StrlenBounds DEF Rx
    <3> QED
      BY <1>2, <1>9, <3>1
  <2>2. q = Store(r, <<33, c>>, size, "PKTRECV")
    BY <1>9, <2>1 DEF Step
  <2> DEFINE bytes == <<33, c>>
  <2>3. Len(r.buf) + Len(bytes) <= size /\ bytes \in Seq(Nat)
    BY <1>2, <1>9
  <2> HIDE DEF bytes
  <2>4. Stored(r, bytes, "PKTRECV", Store(r, bytes, size, "PKTRECV"))
    BY <2>3, StoreIs
  <2> QED
    BY <2>2, <2>4 DEF bytes
<1> QED
  BY <1>3, <1>4, <1>5, <1>6, <1>7, <1>8, <1>9

(* More bytes of the body are stored.                                      *)
LEMMA HoldsMore ==
    ASSUME NEW buf \in Seq(Nat), NEW b, NEW k \in Nat, Holds(buf, b, k), NEW bytes \in Seq(Nat),
           \A j \in 1 .. Len(bytes) : bytes[j] = b[k + j]
    PROVE  Holds(buf \o bytes, b, k + Len(bytes))
<1> DEFINE new == buf \o bytes
           n == Len(bytes)
<1>1. Joins(buf, bytes, new)
  BY Concat
<1>2. n \in Nat
  OBVIOUS
<1> HIDE DEF new, n
<1>3. /\ Len(new) = k + n /\ (\A i \in 1 .. k : new[i] = b[i])
      /\ \A i \in 1 .. n : new[k + i] = b[k + i]
  BY <1>1 DEF Joins, Holds, n
<1>4. ASSUME NEW i \in 1 .. k + n
      PROVE  new[i] = b[i]
  <2>1. CASE i \in 1 .. k
    BY <1>3, <2>1
  <2>2. CASE i \notin 1 .. k
    <3>1. i - k \in 1 .. n /\ k + (i - k) = i
      BY <1>2, <2>2
    <3> QED
      BY <1>3, <3>1
  <2> QED
    BY <2>1, <2>2
<1> QED
  BY <1>3, <1>4 DEF Holds, new, n

(* Inside a frame a byte brings the receiver on: nothing before the closing*)
(* delimiter looks like it, and there is always room for what is stored.   *)
LEMMA IsAtStep ==
    ASSUME NEW size \in Nat, NEW b \in Bodies(size), NEW r \in Rx, NEW p \in 0 .. size + 2,
           IsAt(r, b, p)
    PROVE  IsAt(Step(r, At(b, p + 1), size), b, p + 1)
<1> DEFINE c == At(b, p + 1)
           q == Step(r, c, size)
<1>1. b \in Seq(Nat) /\ Len(b) = size /\ r.buf \in Seq(Nat) /\ r.rest = <<>>
  BY DEF Bodies, Rx, IsAt
<1>2. \A j \in 1 .. size - 1 : ~(b[j] = 33 /\ b[j + 1] = 35)
  BY <1>1 DEF Bodies, Clean
<1>3. \A j \in 3 .. size + 2 : At(b, j) = b[j - 2] /\ b[j - 2] \in Nat
  <2>1. ASSUME NEW j \in 3 .. size + 2
        PROVE  At(b, j) = b[j - 2] /\ b[j - 2] \in Nat
    <3>1. j # 1 /\ j # 2 /\ j \in 3 .. Len(b) + 2 /\ j - 2 \in 1 .. size
      BY <1>1
    <3> QED
      BY <1>1, <3>1 DEF At
  <2> QED
    BY <2>1
<1>4. At(b, 1) = 33 /\ At(b, 2) = 38 /\ At(b, size + 3) = 33
  <2>1. size + 3 # 1 /\ size + 3 # 2 /\ size + 3 \notin 3 .. size + 2 /\ size + 3 = Len(b) + 3
    BY <1>1
  <2> QED
    BY <1>1, <2>1 DEF At
<1>5. c \in Nat
  <2>1. p + 1 = 1 \/ p + 1 = 2 \/ p + 1 \in 3 .. size + 2 \/ p + 1 = size + 3
    OBVIOUS
  <2> QED
    BY <1>3, <1>4, <2>1
<1>6. q = Step(r, c, size)
  OBVIOUS
<1> SUFFICES IsAt(q, b, p + 1)
  OBVIOUS
<1> HIDE DEF c, q
<1>7. CASE p = 0
  <2>1. c = 33 /\ r.st = "PKTSTART1" /\ r.buf = <<>>
    BY <1>4, <1>7 DEF IsAt, c
  <2>2. Turned(r, "PKTSTART2", q)
    BY <1>5, <1>6, <2>1, StepIs
  <2>3. q.st = "PKTSTART2" /\ q.buf = <<>> /\ q.rest = <<>>
    BY <1>1, <2>1, <2>2 DEF Turned
  <2> QED
    BY <1>7, <2>3 DEF IsAt
<1>8. CASE p = 1
  <2>1. c = 38 /\ r.st = "PKTSTART2" /\ r.buf = <<>>
    BY <1>4, <1>8 DEF IsAt, c
  <2>2. Turned(r, "PKTRECV", q)
    BY <1>5, <1>6, <2>1, StepIs
  <2>3. q.st = "PKTRECV" /\ q.buf = <<>> /\ q.rest = <<>>
    BY <1>1, <2>1, <2>2 DEF Turned
  <2>4. Holds(q.buf, b, 0)
    BY <2>3 DEF Holds
  <2>5. IsAt(q, b, 2)
    BY <2>3, <2>4 DEF IsAt
  <2> QED
    BY <1>8, <2>5
<1>9. ASSUME p >= 2, q.rest = <<>>,
             IF c = 33 THEN q.st = "PKTSTOP1" /\ Holds(q.buf, b, p - 2)
             ELSE q.st = "PKTRECV" /\ Holds(q.buf, b, p - 1)
      PROVE  IsAt(q, b, p + 1)
  <2>1. p + 1 >= 3 /\ p + 1 >= 2 /\ p + 1 # 0 /\ p + 1 # 1 /\ (p + 1) - 3 = p - 2 /\ (p + 1) - 2 = p - 1
    BY <1>9
  <2> QED
    BY <1>9, <2>1 DEF IsAt, c
<1>10. CASE p >= 2 /\ ~(p >= 3 /\ At(b, p) = 33)
  <2>1. r.st = "PKTRECV" /\ Holds(r.buf, b, p - 2)
    BY <1>10 DEF IsAt
  <2>2. CASE c = 33
    <3>1. Turned(r, "PKTSTOP1", q)
      BY <1>5, <1>6, <2>1, <2>2, StepIs
    <3>2. q.st = "PKTSTOP1" /\ q.buf = r.buf /\ q.rest = <<>>
      BY <1>1, <3>1 DEF Turned
    <3> QED
      BY <1>9, <1>10, <2>1, <2>2, <3>2
  <2>3. CASE c # 33
    <3>1. p + 1 \in 3 .. size + 2
      <4>1. p + 1 # size + 3
        BY <1>4, <2>3 DEF c
      <4> QED
        BY <1>10, <4>1
    <3>2. /\ p - 2 \in Nat /\ (p - 2) + 1 = p - 1 /\ (p + 1) - 2 = p - 1 /\ p - 2 < size
      BY <3>1
    <3>3. c = b[(p - 2) + 1]
      BY <1>3, <3>1, <3>2 DEF c
    <3>4. Holds(r.buf \o <<c>>, b, p - 1)
      <4> DEFINE one == <<c>>
      <4>1. one \in Seq(Nat) /\ Len(one) = 1 /\ one[1] = c
        BY <1>5
      <4> HIDE DEF one
      <4>2. \A j \in 1 .. Len(one) : one[j] = b[(p - 2) + j]
        BY <3>3, <4>1
      <4>3. Holds(r.buf \o one, b, (p - 2) + Len(one))
        BY <1>1, <2>1, <3>2, <4>1, <4>2, HoldsMore
      <4> QED
        BY <3>2, <4>1, <4>3 DEF one
    <3>5. Len(r.buf) < size
      BY <2>1, <3>2 DEF Holds
    <3>6. Stored(r, <<c>>, "PKTRECV", q)
      BY <1>5, <1>6, <2>1, <2>3, <3>5, StepIs
    <3>7. q.st = "PKTRECV" /\ q.buf = r.buf \o <<c>> /\ q.rest = <<>>
      BY <1>1, <3>6 DEF Stored
    <3>8. Holds(q.buf, b, p - 1)
      BY <3>4, <3>7
    <3> QED
      BY <1>9, <1>10, <2>3, <3>7, <3>8
  <2> QED
    BY <2>2, <2>3
<1>11. CASE p >= 3 /\ At(b, p) = 33
  <2>1. r.st = "PKTSTOP1" /\ Holds(r.buf, b, p - 3)
    BY <1>11 DEF IsAt
  <2>2. /\ p \in 3 .. size + 2 /\ p - 3 \in Nat /\ (p - 3) + 1 = p - 2 /\ p - 2 \in Nat
        /\ (p - 3) + 2 = p - 1 /\ (p - 2) + 1 = p - 1 /\ p - 3 < size /\ p >= 2
    BY <1>11
  <2>3. b[p - 2] = 33 /\ Len(r.buf) = p - 3
    BY <1>3, <1>11, <2>1, <2>2 DEF Holds
  <2>4. CASE c = 33
    <3>1. Stored(r, <<33>>, "PKTSTOP1", q)
      BY <1>5, <1>6, <2>1, <2>2, <2>3, <2>4, StepIs
    <3>2. q.st = "PKTSTOP1" /\ q.buf = r.buf \o <<33>> /\ q.rest = <<>>
      BY <1>1, <3>1 DEF Stored
    <3>3. Holds(r.buf \o <<33>>, b, p - 2)
      <4> DEFINE one == <<33>>
      <4>1. one \in Seq(Nat) /\ Len(one) = 1 /\ one[1] = 33
        OBVIOUS
      <4> HIDE DEF one
      <4>2. \A j \in 1 .. Len(one) : one[j] = b[(p - 3) + j]
        BY <2>2, <2>3, <4>1
      <4>3. Holds(r.buf \o one, b, (p - 3) + Len(one))
        BY <1>1, <2>1, <2>2, <4>1, <4>2, HoldsMore
      <4> QED
        BY <2>2, <4>1, <4>3 DEF one
    <3>4. Holds(q.buf, b, p - 2)
      BY <3>2, <3>3
    <3> QED
      BY <1>9, <2>2, <2>4, <3>2, <3>4
  <2>5. CASE c # 33
    <3>1. p + 1 \in 3 .. size + 2 /\ p - 2 \in 1 .. size - 1 /\ (p + 1) - 2 = p - 1
      <4>1. p + 1 # size + 3
        BY <1>4, <2>5 DEF c
      <4> QED
        BY <1>11, <4>1
    <3>2. c = b[(p - 2) + 1]
      BY <1>3, <2>2, <3>1 DEF c
    <3>3. c # 35
      BY <1>2, <2>3, <3>1, <3>2
    <3>4. Len(r.buf) + 1 < size
      BY <2>2, <2>3, <3>1
    <3>5. Stored(r, <<33, c>>, "PKTRECV", q)
      BY <1>5, <1>6, <2>1, <2>5, <3>3, <3>4, StepIs
    <3>6. q.st = "PKTRECV" /\ q.buf = r.buf \o <<33, c>> /\ q.rest = <<>>
      BY <1>1, <3>5 DEF Stored
    <3>7. Holds(r.buf \o <<33, c>>, b, p - 1)
      <4> DEFINE two == <<33, c>>
      <4>1. two \in Seq(Nat) /\ Len(two) = 2 /\ two[1] = 33 /\ two[2] = c
        BY <1>5
      <4> HIDE DEF two
      <4>2. \A j \in 1 .. Len(two) : two[j] = b[(p - 3) + j]
        BY <2>2, <2>3, <3>2, <4>1
      <4>3. Holds(r.buf \o two, b, (p - 3) + Len(two))
        BY <1>1, <2>1, <2>2, <4>1, <4>2, HoldsMore
      <4> QED
        BY <2>2, <4>1, <4>3 DEF two
    <3>8. Holds(q.buf, b, p - 1)
      BY <3>6, <3>7
    <3> QED
      BY <1>9, <2>2, <2>5, <3>6, <3>8
  <2> QED
    BY <2>4, <2>5
<1>12. p = 0 \/ p = 1 \/ p >= 2
  OBVIOUS
<1> QED
  BY <1>7, <1>8, <1>10, <1>11, <1>12

(* The last byte of the frame ends it, and the structure is the body.      *)
LEMMA IsAtEnd ==
    ASSUME NEW size \in Nat, NEW b \in Bodies(size), NEW r \in Rx, IsAt(r, b, size + 3)
    PROVE  /\ At(b, size + 4) = 35
           /\ Step(r, 35, size).st = "done" /\ Step(r, 35, size).rest = <<>>
           /\ Structure(Step(r, 35, size), size) = b
<1> DEFINE q == Step(r, 35, size)
<1>1. b \in Seq(Nat) /\ Len(b) = size /\ r.buf \in Seq(Nat)
  BY DEF Bodies, Rx
<1>2. At(b, size + 3) = 33 /\ At(b, size + 4) = 35
  <2>1. /\ size + 3 # 1 /\ size + 3 # 2 /\ size + 3 \notin 3 .. size + 2
        /\ size + 4 # 1 /\ size + 4 # 2 /\ size + 4 \notin 3 .. size + 2 /\ size + 4 # size + 3
    OBVIOUS
  <2> QED
    BY <1>1, <2>1 DEF At
<1>3. r.st = "PKTSTOP1" /\ Holds(r.buf, b, size) /\ r.rest = <<>>
  <2>1. size + 3 >= 2 /\ size + 3 >= 3 /\ (size + 3) - 3 = size
    OBVIOUS
  <2> QED
    BY <1>2, <2>1 DEF IsAt
<1>4. Turned(r, "done", q)
  BY <1>3, StepIs
<1>5. q.st = "done" /\ q.rest = <<>> /\ q.buf = r.buf
  BY <1>3, <1>4 DEF Turned
<1> HIDE DEF q
<1>6. Structure(q, size) = b
  <2>1. \A j \in 1 .. size : j <= Len(q.buf) /\ q.buf[j] = b[j]
    BY <1>3, <1>5 DEF Holds
  <2>2. Structure(q, size) = [j \in 1 .. size |-> b[j]]
    BY <2>1 DEF Structure
  <2>3. b = [j \in 1 .. size |-> b[j]]
    BY <1>1
  <2> QED
    BY <2>2, <2>3
<1> QED
  BY <1>2, <1>5, <1>6 DEF q

(* Bytes that follow on both sides.                                        *)
LEMMA LeftConcat ==
    ASSUME NEW T \in Seq(Nat), NEW U \in Seq(Nat), NEW k \in Nat, Left(T, U, k), NEW V \in Seq(Nat)
    PROVE  Left(T \o V, U \o V, k)
<1> DEFINE TV == T \o V
           UV == U \o V
<1>1. Joins(T, V, TV) /\ Joins(U, V, UV)
  BY Concat
<1>2. Len(T) = k + Len(U) /\ (\A j \in 1 .. Len(U) : U[j] = T[k + j])
  BY DEF Left
<1>3. Len(T) \in Nat /\ Len(U) \in Nat /\ Len(V) \in Nat
  OBVIOUS
<1> SUFFICES Left(TV, UV, k)
  OBVIOUS
<1> HIDE DEF TV, UV
<1>4. Len(TV) = k + Len(UV) /\ Len(UV) = Len(U) + Len(V)
  BY <1>1, <1>2, <1>3 DEF Joins
<1>5. ASSUME NEW j \in 1 .. Len(UV)
      PROVE  UV[j] = TV[k + j]
  <2>1. CASE j \in 1 .. Len(U)
    <3>1. k + j \in 1 .. Len(T)
      BY <1>2, <1>3, <2>1
    <3>2. UV[j] = U[j] /\ TV[k + j] = T[k + j]
      BY <1>1, <2>1, <3>1 DEF Joins
    <3> QED
      BY <1>2, <2>1, <3>2
  <2>2. CASE j \notin 1 .. Len(U)
    <3>1. /\ j - Len(U) \in 1 .. Len(V) /\ Len(U) + (j - Len(U)) = j
          /\ Len(T) + (j - Len(U)) = k + j
      BY <1>2, <1>3, <1>4, <2>2
    <3>2. UV[j] = V[j - Len(U)] /\ TV[k + j] = V[j - Len(U)]
      BY <1>1, <3>1 DEF Joins
    <3> QED
      BY <3>2
  <2> QED
    BY <2>1, <2>2
<1> QED
  BY <1>4, <1>5 DEF Left

(* q is within the frame of b, p bytes of which had been read before bytes *)
(* were, or it has found b and left what follows.                          *)
Came(q, bytes, b, p, size) ==
    IF p + Len(bytes) < size + 4
    THEN q.st # "done" /\ IsAt(q, b, p + Len(bytes))
    ELSE q.st = "done" /\ Structure(q, size) = b /\ Left(bytes, q.rest, size + 4 - p)

(* A receiver that reads the rest of the frame of b, or less, or more.     *)
LEMMA FrameRead ==
    ASSUME NEW size \in Nat, NEW b \in Bodies(size), NEW r \in Rx, NEW p \in 0 .. size + 3,
           IsAt(r, b, p), NEW bytes \in Seq(Nat),
           \A i \in 1 .. Len(bytes) : i <= size + 4 - p => bytes[i] = At(b, p + i),
           NEW q \in Reads(r, bytes, size)
    PROVE  Came(q, bytes, b, p, size)
<1> DEFINE n == Len(bytes)
           L == size + 4
           Stage(s, i) == IF p + i < L THEN IsAt(s, b, p + i)
                          ELSE /\ s.st = "done" /\ Structure(s, size) = b
                               /\ Len(s.rest) = p + i - L
                               /\ \A j \in 1 .. Len(s.rest) : s.rest[j] = bytes[L - p + j]
           S == [i \in 0 .. n |-> {s \in Rx : Stage(s, i)}]
<1>1. n \in Nat /\ L \in Nat /\ p \in Nat /\ p < L
  OBVIOUS
<1>2. \A i \in 1 .. n : bytes[i] \in Nat /\ (i <= L - p => bytes[i] = At(b, p + i))
  OBVIOUS
<1>3. r \in S[0]
  <2>1. p + 0 = p /\ 0 \in 0 .. n
    BY <1>1
  <2> QED
    BY <1>1, <2>1
<1>4. ASSUME NEW i \in 1 .. n, NEW s \in S[i - 1]
      PROVE  Char(s, bytes[i], size) \in S[i]
  <2> DEFINE c == bytes[i]
             k == i - 1
  <2>1. i \in 0 .. n /\ k \in 0 .. n /\ k \in Nat /\ i = k + 1 /\ c \in Nat
    BY <1>1, <1>2
  <2>2. s \in Rx /\ Stage(s, k)
    BY <2>1
  <2> HIDE DEF c, L, k
  <2>3. Char(s, c, size) \in Rx
    BY <2>1, <2>2, CharType
  <2>4. Stage(Char(s, c, size), i)
    <3>1. CASE p + k < L
      <4>1. IsAt(s, b, p + k) /\ p + k \in 0 .. size + 3 /\ p + i = (p + k) + 1 /\ i <= L - p
        <5>1. IsAt(s, b, p + k)
          BY <2>2, <3>1
        <5>2. L = size + 4 /\ size \in Nat
          BY DEF L
        <5>3. p + k \in 0 .. size + 3 /\ p + i = (p + k) + 1 /\ i <= L - p
          <6> DEFINE ii == i  kk == k  LL == L
          <6>1. kk \in Nat /\ ii = kk + 1 /\ LL = size + 4 /\ p + kk < LL /\ p \in Nat /\ size \in Nat
            BY <1>1, <2>1, <3>1, <5>2
          <6> HIDE DEF ii, kk, LL
          <6>2. p + kk \in 0 .. size + 3
            BY <6>1
          <6>3. p + ii = (p + kk) + 1 /\ ii <= LL - p
            BY <6>1
          <6> QED
            BY <6>2, <6>3 DEF ii, kk, LL
        <5> QED
          BY <5>1, <5>3
      <4>2. s.st \notin {"done", "smashed"}
        <5> DEFINE u == p + k
        <5>1. IsAt(s, b, u) /\ u \in 0 .. size + 3
          BY <4>1
        <5> HIDE DEF u
        <5>2. u = 0 \/ u = 1 \/ u >= 2
          BY <5>1
        <5> QED
          BY <5>1, <5>2 DEF IsAt
      <4>3. Char(s, c, size) = Step(s, c, size) /\ c = At(b, (p + k) + 1)
        BY <1>2, <4>1, <4>2 DEF Char, c
      <4>4. CASE p + i < L
        <5> DEFINE u == p + k
                   LL == L
        <5>1. u \in 0 .. size + 2
          <6>1. u \in Nat /\ p + i = u + 1 /\ p + i < LL /\ LL = size + 4
            BY <1>1, <2>1, <4>1, <4>4 DEF L
          <6> HIDE DEF u, LL
          <6>2. u + 1 < size + 4
            BY <6>1
          <6> QED
            BY <6>1, <6>2
        <5>2. IsAt(s, b, u) /\ u \in 0 .. size + 2 /\ c = At(b, u + 1)
          BY <4>1, <4>3, <5>1
        <5> HIDE DEF u
        <5>3. IsAt(Step(s, c, size), b, u + 1)
          BY <2>2, <5>2, IsAtStep
        <5> QED
          BY <4>1, <4>3, <4>4, <5>3 DEF u
      <4>5. CASE ~(p + i < L)
        <5>1. p + k = size + 3 /\ p + i - L = 0 /\ (p + k) + 1 = size + 4
          <6> DEFINE u == p + k
                     v == p + i
                     LL == L
          <6>1. u \in Nat /\ v = u + 1 /\ u < LL /\ ~(v < LL) /\ LL = size + 4 /\ size \in Nat
            BY <1>1, <2>1, <3>1, <4>1, <4>5 DEF L
          <6> HIDE DEF u, v, LL
          <6>2. u = size + 3 /\ v - LL = 0 /\ u + 1 = size + 4
            BY <6>1
          <6>3. p + k = size + 3 /\ (p + k) + 1 = size + 4
            BY <6>2 DEF u
          <6>4. p + i - L = 0
            BY <1>1, <2>1, <6>2 DEF v, LL
          <6> QED
            BY <6>3, <6>4
        <5>2. IsAt(s, b, size + 3) /\ c = At(b, size + 4)
          BY <4>1, <4>3, <5>1
        <5>3. /\ At(b, size + 4) = 35
              /\ Step(s, 35, size).st = "done" /\ Step(s, 35, size).rest = <<>>
              /\ Structure(Step(s, 35, size), size) = b
          BY <2>2, <5>2, IsAtEnd
        <5> DEFINE e == Step(s, 35, size)
        <5>4. Char(s, c, size) = e
          BY <4>3, <5>2, <5>3
        <5>5. e.st = "done" /\ e.rest = <<>> /\ Structure(e, size) = b
          BY <5>3
        <5> HIDE DEF e
        <5>6. Stage(e, i)
          BY <4>5, <5>1, <5>5
        <5> QED
          BY <5>4, <5>6
      <4> QED
        BY <4>4, <4>5
    <3>2. CASE ~(p + k < L)
      <4>1. /\ s.st = "done" /\ Structure(s, size) = b /\ Len(s.rest) = p + k - L
            /\ \A j \in 1 .. Len(s.rest) : s.rest[j] = bytes[L - p + j]
        BY <2>2, <3>2
      <4> DEFINE e == [s EXCEPT !.rest = Append(@, c)]
                 left == s.rest
      <4>2. Char(s, c, size) = e
        BY <4>1 DEF Char
      <4>3. left \in Seq(Nat)
        BY <2>2 DEF Rx
      <4>4. e.st = "done" /\ e.rest = Append(left, c) /\ e.buf = s.buf
        BY <2>2, <4>1 DEF Rx
      <4>5. Structure(e, size) = b
        BY <4>1, <4>4 DEF Structure
      <4> HIDE DEF e, left
      <4>6. ~(p + i < L) /\ p + i - L = (p + k - L) + 1 /\ p + k - L \in Nat
            /\ L - p + ((p + k - L) + 1) = i
        BY <1>1, <2>1, <3>2
      <4> DEFINE ll == p + k - L
      <4>7. Len(left) = ll /\ (\A j \in 1 .. ll : left[j] = bytes[L - p + j]) /\ ll \in Nat
        BY <4>1, <4>6 DEF left
      <4>8. /\ Len(Append(left, c)) = ll + 1 /\ Append(left, c)[ll + 1] = c
            /\ \A j \in 1 .. ll : Append(left, c)[j] = left[j]
        <5>1. c \in Nat /\ left \in Seq(Nat) /\ Len(left) = ll
          BY <2>1, <4>3, <4>7
        <5> HIDE DEF ll
        <5> QED
          BY <5>1
      <4>9. bytes[L - p + (ll + 1)] = c
        BY <4>6 DEF c
      <4>10. /\ Len(e.rest) = ll + 1
             /\ \A j \in 1 .. ll + 1 : e.rest[j] = bytes[L - p + j]
        <5> HIDE DEF ll
        <5>1. \A j \in 1 .. ll + 1 : j \in 1 .. ll \/ j = ll + 1
          BY <4>7
        <5> QED
          BY <4>4, <4>7, <4>8, <4>9, <5>1
      <4>11. Stage(e, i)
        BY <4>4, <4>5, <4>6, <4>10
      <4> QED
        BY <4>2, <4>11
    <3> QED
      BY <3>1, <3>2
  <2> HIDE DEF Stage
  <2>5. S[i] = {u \in Rx : Stage(u, i)}
    BY <2>1
  <2> QED
    BY <2>3, <2>4, <2>5 DEF c
<1>5. q \in S[n]
  <2> HIDE DEF S
  <2> QED
    BY <1>3, <1>4, ReadsThrough
<1>6. Stage(q, n)
  <2> HIDE DEF Stage
  <2>1. n \in 0 .. n
    BY <1>1
  <2> QED
    BY <1>5, <2>1
<1>7. CASE p + n < L
  <2>1. IsAt(q, b, p + n) /\ p + n >= 0
    BY <1>6, <1>7
  <2>2. q.st # "done"
    BY <1>1, <2>1 DEF IsAt
  <2> QED
    BY <1>7, <2>1, <2>2 DEF Came
<1>8. CASE ~(p + n < L)
  <2>1. /\ q.st = "done" /\ Structure(q, size) = b /\ Len(q.rest) = p + n - L
        /\ \A j \in 1 .. Len(q.rest) : q.rest[j] = bytes[L - p + j]
    BY <1>6, <1>8
  <2> HIDE DEF L, n
  <2>2. n = L - p + Len(q.rest)
    BY <1>1, <2>1
  <2>3. Left(bytes, q.rest, L - p)
    BY <2>1, <2>2 DEF Left, n
  <2> QED
    BY <1>8, <2>1, <2>3 DEF L, n, Came
<1> QED
  BY <1>7, <1>8

(* A receiver within the first of the frames that are under way: it finds  *)
(* the first body, or it stays within the frame.                           *)
LEMMA FramesRead ==
    ASSUME NEW size \in Nat, NEW owes \in Seq(Bodies(size)), NEW r \in Rx, NEW p \in 0 .. size + 3,
           NEW bytes \in Seq(Nat), NEW rem \in Seq(Nat), bytes # <<>>,
           Wire(bytes \o rem, owes, p, size), owes # <<>> => IsAt(r, owes[1], p),
           NEW q \in Reads(r, bytes, size)
    PROVE  /\ owes # <<>>
           /\ q.st = "done" => /\ Structure(q, size) = Head(owes)
                               /\ Wire(q.rest \o rem, Tail(owes), 0, size)
           /\ q.st # "done" => \E p2 \in 0 .. size + 3 : /\ Wire(<<>> \o rem, owes, p2, size)
                                                       /\ IsAt(q, owes[1], p2)
<1> DEFINE T == bytes \o rem
           L == size + 4
           n == Len(bytes)
           b == owes[1]
<1>1. Joins(bytes, rem, T)
  BY Concat
<1>2. T \in Seq(Nat) /\ Len(T) = n + Len(rem) /\ (\A i \in 1 .. n : T[i] = bytes[i])
  <2> HIDE DEF T
  <2> QED
    BY <1>1 DEF Joins
<1>3. n \in Nat /\ n # 0 /\ Len(rem) \in Nat
  OBVIOUS
<1>4. owes # <<>>
  <2>1. ASSUME owes = <<>>
        PROVE  FALSE
    <3>1. Wire(T, <<>>, p, size)
      BY <2>1
    <3> HIDE DEF T
    <3>2. T = <<>>
      BY <1>2, <3>1, WireNone
    <3> QED
      BY <1>2, <1>3, <3>2
  <2> QED
    BY <2>1
<1>5. b \in Bodies(size) /\ Len(owes) \in Nat \ {0} /\ Head(owes) = b
  BY <1>4
<1>6. IsAt(r, b, p)
  BY <1>4
<1>7. Wire(T, owes, p, size)
  OBVIOUS
<1> HIDE DEF b, T
<1>8. ASSUME NEW i \in 1 .. n, i <= L - p
      PROVE  bytes[i] = At(b, p + i)
  <2>1. i \in 1 .. size + 4 - p
    BY <1>8
  <2>2. \A j \in 1 .. size + 4 - p : j \in 1 .. Len(T) /\ T[j] = At(owes[1], p + j)
    <3>1. size \in Nat /\ T \in Seq(Nat) /\ Len(owes) \in Nat \ {0} /\ p \in 0 .. size + 3
      BY <1>2, <1>5
    <3> QED
      BY <1>7, <3>1, WireFirst
  <2> QED
    BY <1>2, <2>1, <2>2 DEF b
<1>9. IF p + n < L
      THEN q.st # "done" /\ IsAt(q, b, p + n)
      ELSE q.st = "done" /\ Structure(q, size) = b /\ Left(bytes, q.rest, L - p)
  <2>1. \A i \in 1 .. Len(bytes) : i <= size + 4 - p => bytes[i] = At(b, p + i)
    BY <1>8
  <2>2. Came(q, bytes, b, p, size)
    BY <1>5, <1>6, <2>1, FrameRead
  <2> QED
    BY <2>2 DEF Came
<1>10. q.rest \in Seq(Nat)
  <2>1. q \in Rx
    BY ReadsType
  <2> QED
    BY <2>1 DEF Rx
<1> DEFINE k == IF p + n < L THEN n ELSE L - p
           left == IF p + n < L THEN <<>> ELSE q.rest
           U == left \o rem
<1>11. k \in Nat /\ left \in Seq(Nat)
  <2>1. <<>> \in Seq(Nat)
    OBVIOUS
  <2> QED
    BY <1>3, <1>10, <2>1
<1>12. Left(bytes, left, k)
  <2>1. CASE p + n < L
    <3>1. Left(bytes, <<>>, n)
      BY <1>3 DEF Left
    <3> QED
      BY <2>1, <3>1
  <2>2. CASE ~(p + n < L)
    BY <1>9, <2>2
  <2> QED
    BY <2>1, <2>2
<1>13. Wire(U, owes, p + k, size)
  <2> HIDE DEF k, left
  <2>1. Left(T, U, k)
    BY <1>11, <1>12, LeftConcat DEF T
  <2>2. U \in Seq(Nat)
    <3>1. Joins(left, rem, U)
      BY <1>11, Concat
    <3> HIDE DEF U
    <3> QED
      BY <3>1 DEF Joins
  <2> HIDE DEF U
  <2> QED
    BY <1>5, <1>7, <1>11, <2>1, <2>2, WireShift
<1>14. CASE p + n < L
  <2>1. q.st # "done" /\ IsAt(q, owes[1], p + n) /\ Wire(<<>> \o rem, owes, p + n, size)
        /\ p + n \in 0 .. size + 3
    BY <1>3, <1>9, <1>13, <1>14 DEF b
  <2> QED
    BY <1>4, <2>1
<1>15. CASE ~(p + n < L)
  <2>1. q.st = "done" /\ Structure(q, size) = Head(owes)
    BY <1>5, <1>9, <1>15
  <2>2. k = L - p /\ left = q.rest /\ p + k = L
    BY <1>15
  <2>3. Wire(q.rest \o rem, owes, size + 4, size)
    BY <1>13, <2>2
  <2>4. q.rest \o rem \in Seq(Nat)
    BY <1>10
  <2> DEFINE V == q.rest \o rem
  <2> HIDE DEF V
  <2>5. V \in Seq(Nat) /\ Wire(V, owes, size + 4, size)
    BY <2>3, <2>4 DEF V
  <2>6. Wire(V, Tail(owes), 0, size)
    BY <1>4, <2>5, WireNext
  <2> QED
    BY <1>4, <2>1, <2>6 DEF V
<1> QED
  BY <1>14, <1>15

(* Whatever a receiver has read: what it has stored has no closing         *)
(* delimiter in it and fits, and only within the two characters of one it  *)
(* may end with '!'.                                                       *)
Neat(r, size) ==
    r.st # "smashed" =>
      /\ Len(r.buf) <= size /\ Clean(r.buf)
      /\ r.st = "PKTRECV" => r.buf = <<>> \/ r.buf[Len(r.buf)] # 33
      /\ r.st \in {"PKTSTART1", "PKTSTART2"} => r.buf = <<>>

(* A new receiver has stored nothing.                                      *)
LEMMA NeatReceiver ==
    ASSUME NEW size \in Nat
    PROVE  Neat(Receiver, size)
  BY DEF Neat, Receiver, Clean

(* Bytes are stored behind others.                                         *)
LEMMA CleanMore ==
    ASSUME NEW buf \in Seq(Nat), Clean(buf), NEW bytes \in Seq(Nat), Clean(bytes), bytes # <<>>,
           buf = <<>> \/ buf[Len(buf)] # 33 \/ bytes[1] # 35
    PROVE  Clean(buf \o bytes)
<1> DEFINE new == buf \o bytes
           m == Len(buf)
           n == Len(bytes)
<1>1. Joins(buf, bytes, new)
  BY Concat
<1>2. m \in Nat /\ n \in Nat /\ n # 0 /\ (m # 0 => buf # <<>>)
  OBVIOUS
<1>3. /\ \A j \in 1 .. m - 1 : ~(buf[j] = 33 /\ buf[j + 1] = 35)
      /\ \A j \in 1 .. n - 1 : ~(bytes[j] = 33 /\ bytes[j + 1] = 35)
  BY DEF Clean
<1> SUFFICES Clean(new)
  OBVIOUS
<1> HIDE DEF new
<1>4. /\ Len(new) = m + n /\ (\A i \in 1 .. m : new[i] = buf[i])
      /\ \A i \in 1 .. n : new[m + i] = bytes[i]
  BY <1>1 DEF Joins
<1>5. m = 0 \/ buf[m] # 33 \/ bytes[1] # 35
  OBVIOUS
<1> HIDE DEF m, n
<1>6. ASSUME NEW j \in 1 .. m + n - 1
      PROVE  ~(new[j] = 33 /\ new[j + 1] = 35)
  <2>1. CASE j \in 1 .. m - 1
    <3>1. j \in 1 .. m /\ j + 1 \in 1 .. m
      BY <1>2, <2>1
    <3> QED
      BY <1>3, <1>4, <2>1, <3>1
  <2>2. CASE j = m
    <3>1. j \in 1 .. m /\ 1 \in 1 .. n /\ j + 1 = m + 1 /\ m # 0
      BY <1>2, <2>2
    <3> QED
      BY <1>4, <1>5, <2>2, <3>1
  <2>3. CASE j \notin 1 .. m
    <3>1. /\ j - m \in 1 .. n /\ (j - m) + 1 \in 1 .. n /\ m + (j - m) = j
          /\ m + ((j - m) + 1) = j + 1 /\ j - m \in 1 .. n - 1
      BY <1>2, <2>3
    <3>2. new[j] = bytes[j - m] /\ new[j + 1] = bytes[(j - m) + 1]
      BY <1>4, <3>1
    <3> QED
      BY <1>3, <3>1, <3>2
  <2>4. j \in 1 .. m - 1 \/ j = m \/ j \notin 1 .. m
    BY <1>2
  <2> QED
    BY <2>1, <2>2, <2>3, <2>4
<1> QED
  <2>1. Len(new) - 1 = m + n - 1
    BY <1>2, <1>4
  <2>2. \A j \in 1 .. Len(new) - 1 : ~(new[j] = 33 /\ new[j + 1] = 35)
    BY <1>6, <2>1
  <2> QED
    BY <2>2 DEF Clean

(* What is stored keeps a receiver neat, or smashes it.                    *)
LEMMA NeatStore ==
    ASSUME NEW size \in Nat, NEW r \in Rx, Neat(r, size), r.st # "smashed",
           NEW bytes \in Seq(Nat), Clean(bytes), bytes # <<>>,
           r.buf = <<>> \/ r.buf[Len(r.buf)] # 33 \/ bytes[1] # 35,
           NEW st \in {"PKTRECV", "PKTSTOP1"}, st = "PKTRECV" => bytes[Len(bytes)] # 33
    PROVE  Neat(Store(r, bytes, size, st), size)
<1> DEFINE q == Store(r, bytes, size, st)
           buf == r.buf
           new == buf \o bytes
           m == Len(buf)
           n == Len(bytes)
<1>1. buf \in Seq(Nat) /\ m \in Nat /\ n \in Nat /\ n # 0
  BY DEF Rx
<1>2. CASE m + n > size
  <2>1. q.st = "smashed"
    BY <1>2 DEF Store, Rx
  <2> QED
    BY <2>1 DEF Neat
<1>3. CASE ~(m + n > size)
  <2>1. Stored(r, bytes, st, q)
    <3>1. m + n <= size
      BY <1>1, <1>3
    <3> QED
      BY <3>1, StoreIs
  <2>2. q.st = st /\ q.buf = new
    BY <2>1 DEF Stored
  <2>3. Clean(buf)
    BY DEF Neat
  <2>4. Clean(new)
    BY <1>1, <2>3, CleanMore
  <2>5. Joins(buf, bytes, new)
    BY <1>1, Concat
  <2> HIDE DEF q, new
  <2>6. Len(new) = m + n /\ new[m + n] = bytes[n]
    BY <1>1, <2>5 DEF Joins
  <2>7. q.st = "PKTRECV" => q.buf[Len(q.buf)] # 33
    BY <2>2, <2>6
  <2>8. Len(q.buf) <= size
    BY <1>1, <1>3, <2>2, <2>6
  <2>9. Neat(q, size)
    BY <2>2, <2>4, <2>7, <2>8 DEF Neat
  <2> QED
    BY <2>9 DEF q
<1> QED
  BY <1>2, <1>3

(* A character keeps a receiver neat.                                      *)
LEMMA NeatChar ==
    ASSUME NEW size \in Nat, NEW r \in Rx, Neat(r, size), NEW c \in Nat
    PROVE  Neat(Char(r, c, size), size)
<1> DEFINE q == Char(r, c, size)
           s == Step(r, c, size)
<1>1. r.buf \in Seq(Nat) /\ r.st \in States \cup {"done"}
  BY DEF Rx
<1>2. ASSUME NEW st, NEW e, Turned(r, st, e), r.st # "smashed", st # "smashed",
             st = "PKTRECV" => r.st = "PKTSTART2",
             st \in {"PKTSTART1", "PKTSTART2"} => r.st \in {"PKTSTART1", "PKTSTART2"}
      PROVE  Neat(e, size)
  BY <1>2 DEF Neat, Turned
<1>3. \A st : Turned(r, st, [r EXCEPT !.st = st])
  BY DEF Rx, Turned
<1>4. CASE r.st \in {"done", "smashed"}
  <2>1. q = [r EXCEPT !.rest = Append(@, c)]
    BY <1>4 DEF Char
  <2>2. q.st = r.st /\ q.buf = r.buf
    BY <2>1 DEF Rx
  <2> HIDE DEF q
  <2>3. Neat(q, size)
    BY <2>2 DEF Neat
  <2> QED
    BY <2>3 DEF q
<1> SUFFICES ASSUME r.st \notin {"done", "smashed"}
             PROVE  Neat(s, size)
  BY <1>4 DEF Char
<1>5. CASE r.st = "PKTSTART1"
  <2> DEFINE st == IF c = 33 THEN "PKTSTART2" ELSE "PKTSTART1"
  <2>1. s = [r EXCEPT !.st = st]
    BY <1>5 DEF Step
  <2>2. Turned(r, st, s)
    BY <1>3, <2>1
  <2> HIDE DEF s
  <2>3. st \in {"PKTSTART1", "PKTSTART2"}
    OBVIOUS
  <2> HIDE DEF st
  <2> QED
    BY <1>2, <1>5, <2>2, <2>3
<1>6. CASE r.st = "PKTSTART2"
  <2> DEFINE st == IF c = 38 THEN "PKTRECV" ELSE "PKTSTART1"
  <2>1. s = [r EXCEPT !.st = st]
    BY <1>6 DEF Step
  <2>2. Turned(r, st, s)
    BY <1>3, <2>1
  <2> HIDE DEF s
  <2>3. st \in {"PKTSTART1", "PKTRECV"}
    OBVIOUS
  <2> HIDE DEF st
  <2> QED
    BY <1>2, <1>6, <2>2, <2>3
<1>7. CASE r.st = "PKTRECV" /\ c = 33
  <2>1. s = [r EXCEPT !.st = "PKTSTOP1"]
    BY <1>7 DEF Step
  <2>2. Turned(r, "PKTSTOP1", s)
    BY <1>3, <2>1
  <2> HIDE DEF s
  <2> QED
    BY <1>2, <1>7, <2>2
<1>8. CASE r.st = "PKTRECV" /\ c # 33
  <2>1. CASE Len(r.buf) < size
    <3> DEFINE bytes == <<c>>
    <3>1. s = Store(r, bytes, size, "PKTRECV")
      BY <1>8, <2>1 DEF Step
    <3>2. /\ bytes \in Seq(Nat) /\ bytes # <<>> /\ Clean(bytes) /\ bytes[Len(bytes)] # 33
      BY <1>8 DEF Clean
    <3>3. r.buf = <<>> \/ r.buf[Len(r.buf)] # 33 \/ bytes[1] # 35
      BY <1>8 DEF Neat
    <3> HIDE DEF bytes, s
    <3>4. Neat(Store(r, bytes, size, "PKTRECV"), size)
      BY <3>2, <3>3, NeatStore
    <3> QED
      BY <3>1, <3>4
  <2>2. CASE ~(Len(r.buf) < size)
    <3>1. s = r
      BY <1>8, <2>2 DEF Step
    <3> QED
      BY <3>1
  <2> QED
    BY <2>1, <2>2
<1>9. CASE r.st = "PKTSTOP1" /\ c = 35
  <2>1. s = [r EXCEPT !.st = "done"]
    BY <1>9 DEF Step
  <2>2. Turned(r, "done", s)
    BY <1>3, <2>1
  <2> HIDE DEF s
  <2> QED
    BY <1>2, <1>9, <2>2
<1>10. CASE r.st = "PKTSTOP1" /\ c = 33
  <2> DEFINE bytes == <<33>>
  <2>1. s = Store(r, bytes, size, "PKTSTOP1")
    BY <1>10 DEF Step
  <2>2. bytes \in Seq(Nat) /\ bytes # <<>> /\ Clean(bytes) /\ bytes[1] # 35
    BY DEF Clean
  <2> HIDE DEF bytes, s
  <2>3. Neat(Store(r, bytes, size, "PKTSTOP1"), size)
    BY <2>2, NeatStore
  <2> QED
    BY <2>1, <2>3
<1>11. CASE r.st = "PKTSTOP1" /\ c # 33 /\ c # 35
  <2> DEFINE bytes == <<33, c>>
  <2>1. s = Store(r, bytes, size, "PKTRECV") \/ s = r
    BY <1>11 DEF Step
  <2>2. /\ bytes \in Seq(Nat) /\ bytes # <<>> /\ bytes[1] # 35 /\ bytes[Len(bytes)] # 33
        /\ Len(bytes) = 2 /\ bytes[2] = c
    BY <1>11
  <2> HIDE DEF bytes, s
  <2>3. Clean(bytes)
    <3>1. \A j \in 1 .. 2 - 1 : j = 1 /\ j + 1 = 2
      OBVIOUS
    <3> QED
      BY <1>11, <2>2, <3>1 DEF Clean
  <2>4. Neat(Store(r, bytes, size, "PKTRECV"), size)
    BY <2>2, <2>3, NeatStore
  <2> QED
    BY <2>1, <2>4
<1>12. r.st \in {"PKTSTART1", "PKTSTART2", "PKTRECV", "PKTSTOP1"}
  BY <1>1 DEF States
<1> QED
  BY <1>5, <1>6, <1>7, <1>8, <1>9, <1>10, <1>11, <1>12

(* So does reading.                                                        *)
LEMMA NeatRead ==
    ASSUME NEW size \in Nat, NEW r \in Rx, Neat(r, size), NEW bytes \in Seq(Nat),
           NEW q \in Reads(r, bytes, size)
    PROVE  q \in Rx /\ Neat(q, size)
<1> DEFINE n == Len(bytes)
           S == [i \in 0 .. n |-> {s \in Rx : Neat(s, size)}]
<1>1. n \in Nat /\ \A i \in 1 .. n : bytes[i] \in Nat /\ i \in 0 .. n /\ i - 1 \in 0 .. n
  OBVIOUS
<1>2. 0 \in 0 .. n /\ n \in 0 .. n
  BY <1>1
<1>3. \A i \in 0 .. n : S[i] = {s \in Rx : Neat(s, size)}
  OBVIOUS
<1> HIDE DEF n, S
<1>4. r \in S[0]
  BY <1>2, <1>3
<1>5. ASSUME NEW i \in 1 .. n, NEW s \in S[i - 1]
      PROVE  Char(s, bytes[i], size) \in S[i]
  <2>1. s \in Rx /\ Neat(s, size) /\ bytes[i] \in Nat
    BY <1>1, <1>3
  <2> DEFINE c == bytes[i]
  <2> HIDE DEF c
  <2>2. Char(s, c, size) \in Rx /\ Neat(Char(s, c, size), size)
    BY <2>1, CharType, NeatChar DEF c
  <2> QED
    BY <1>1, <1>3, <2>2 DEF c
<1>6. Reads(r, bytes, size) \subseteq S[n]
  BY <1>4, <1>5, ReadsThrough DEF n
<1> QED
  BY <1>2, <1>3, <1>6

(* Zeros behind clean bytes are clean.                                     *)
LEMMA NeatStructure ==
    ASSUME NEW size \in Nat, NEW r \in Rx, Neat(r, size), r.st = "done"
    PROVE  Structure(r, size) \in Bodies(size)
<1> DEFINE g == Structure(r, size)
           m == Len(r.buf)
<1>1. r.buf \in Seq(Nat) /\ m \in Nat /\ \A j \in 1 .. m : r.buf[j] \in Nat
  BY DEF Rx
<1>2. g = [j \in 1 .. size |-> IF j <= m THEN r.buf[j] ELSE 0]
  BY DEF Structure
<1>3. \A j \in 1 .. m - 1 : ~(r.buf[j] = 33 /\ r.buf[j + 1] = 35)
  BY DEF Neat, Clean
<1> HIDE DEF g, m
<1>4. ASSUME NEW j \in 1 .. size
      PROVE  g[j] \in Nat /\ (j \in 1 .. m => g[j] = r.buf[j]) /\ (j \notin 1 .. m => g[j] = 0)
  <2>1. j <= m <=> j \in 1 .. m
    BY <1>1
  <2> QED
    BY <1>1, <1>2, <2>1
<1>5. g \in [1 .. size -> Nat]
  <2>1. g = [j \in 1 .. size |-> g[j]]
    BY <1>2
  <2> QED
    BY <1>4, <2>1
<1>6. g \in Seq(Nat) /\ Len(g) = size
  BY <1>5
<1>7. ASSUME NEW j \in 1 .. size - 1, g[j] = 33, g[j + 1] = 35
      PROVE  FALSE
  <2>1. j \in 1 .. size /\ j + 1 \in 1 .. size
    OBVIOUS
  <2>2. j \in 1 .. m /\ j + 1 \in 1 .. m
    BY <1>4, <1>7, <2>1
  <2>3. j \in 1 .. m - 1
    BY <1>1, <2>2
  <2> QED
    BY <1>3, <1>4, <1>7, <2>1, <2>2, <2>3
<1>8. Clean(g)
  BY <1>6, <1>7 DEF Clean
<1> QED
  BY <1>6, <1>8 DEF Bodies, g

(* Without the first byte, or with one in front that is no '!', a          *)
(* structure is one of another size.                                       *)
LEMMA BodyTail ==
    ASSUME NEW size \in Nat, NEW b \in Bodies(size + 1)
    PROVE  Tail(b) \in Bodies(size)
<1>1. b \in Seq(Nat) /\ Len(b) = size + 1 /\ b # <<>>
      /\ \A j \in 1 .. Len(b) - 1 : ~(b[j] = 33 /\ b[j + 1] = 35)
  BY DEF Bodies, Clean
<1> DEFINE new == Tail(b)
<1>2. new \in Seq(Nat) /\ Len(new) = size /\ \A j \in 1 .. size : new[j] = b[j + 1]
  BY <1>1
<1> HIDE DEF new
<1>3. ASSUME NEW j \in 1 .. size - 1
      PROVE  ~(new[j] = 33 /\ new[j + 1] = 35)
  <2>1. j \in 1 .. size /\ j + 1 \in 1 .. size /\ j + 1 \in 1 .. Len(b) - 1
    BY <1>1
  <2> QED
    BY <1>1, <1>2, <2>1
<1>4. Clean(new)
  BY <1>2, <1>3 DEF Clean
<1> QED
  BY <1>2, <1>4 DEF Bodies, new

(* With such a byte in front.                                              *)
LEMMA BodyFront ==
    ASSUME NEW size \in Nat, NEW b \in Bodies(size), NEW m \in Nat \ {33}
    PROVE  <<m>> \o b \in Bodies(size + 1)
<1> DEFINE one == <<m>>
           new == one \o b
<1>1. b \in Seq(Nat) /\ Len(b) = size /\ Clean(b)
  BY DEF Bodies
<1>2. one \in Seq(Nat) /\ Len(one) = 1 /\ one[1] = m /\ one[Len(one)] # 33 /\ Clean(one)
  BY DEF Clean
<1> HIDE DEF one
<1>3. new \in Seq(Nat) /\ Len(new) = size + 1
  <2>1. Joins(one, b, new)
    BY <1>1, <1>2, Concat
  <2> HIDE DEF new
  <2> QED
    BY <1>1, <1>2, <2>1 DEF Joins
<1>4. Clean(new)
  <2>1. CASE b = <<>>
    <3>1. Len(new) = 1
      BY <1>1, <1>3, <2>1
    <3> HIDE DEF new
    <3> QED
      BY <3>1 DEF Clean
  <2>2. CASE b # <<>>
    BY <1>1, <1>2, <2>2, CleanMore
  <2> QED
    BY <2>1, <2>2
<1> HIDE DEF new
<1>5. new \in Bodies(size + 1)
  BY <1>3, <1>4 DEF Bodies
<1> QED
  BY <1>5 DEF new, one

-----------------------------------------------------------------------------
(* One connection: s is on it, its receiver is q, owes are the bodies that *)
(* have been put on it and not received, and rem will be put on it next.   *)

First(owes) == IF owes = <<>> THEN <<>> ELSE owes[1]
Fits(s, q, owes, rem, size) ==
    \E p \in 0 .. size + 3 : Wire(s \o rem, owes, p, size) /\ IsAt(q, First(owes), p)

(* Nothing at all fits.                                                    *)
LEMMA FitsNew ==
    ASSUME NEW size \in Nat
    PROVE  Fits(<<>>, Receiver, <<>>, <<>>, size)
<1>1. <<>> \o <<>> = <<>>
  OBVIOUS
<1>2. Wire(<<>> \o <<>>, <<>>, 0, size)
  <2>1. <<>> \in Seq(Nat) /\ 0 \in Nat
    OBVIOUS
  <2>2. Wire(<<>>, <<>>, 0, size)
    BY <2>1, WireNone
  <2> QED
    BY <1>1, <2>2
<1>3. IsAt(Receiver, First(<<>>), 0)
  BY DEF IsAt, Receiver
<1>4. 0 \in 0 .. size + 3
  OBVIOUS
<1> QED
  BY <1>2, <1>3, <1>4 DEF Fits

(* What was to come has been put there.                                    *)
LEMMA FitsMove ==
    ASSUME NEW size, NEW s \in Seq(Nat), NEW x \in Seq(Nat), NEW y \in Seq(Nat), NEW q, NEW owes,
           Fits(s, q, owes, x \o y, size)
    PROVE  Fits(s \o x, q, owes, y, size)
<1>1. (s \o x) \o y = s \o (x \o y)
  BY Associates
<1> QED
  BY <1>1 DEF Fits

(* The first call for a structure.                                         *)
LEMMA FitsFrame ==
    ASSUME NEW size \in Nat, NEW s \in Seq(Nat), NEW q, NEW owes \in Seq(Bodies(size)),
           Fits(s, q, owes, <<>>, size), NEW b \in Bodies(size)
    PROVE  Fits(s, q, Append(owes, b), Framed(b), size)
<1>1. PICK p \in 0 .. size + 3 : Wire(s \o <<>>, owes, p, size) /\ IsAt(q, First(owes), p)
  BY DEF Fits
<1>2. s \o <<>> = s
  OBVIOUS
<1>3. Wire(s, owes, p, size) /\ p \in Nat
  BY <1>1, <1>2
<1>4. Wire(s \o Framed(b), Append(owes, b), p, size)
  BY <1>3, WireAppend
<1>5. IsAt(q, First(Append(owes, b)), p)
  <2> DEFINE new == Append(owes, b)
  <2>1. CASE owes = <<>>
    <3>1. Wire(s, <<>>, p, size)
      BY <1>3, <2>1
    <3>2. p = 0
      BY <1>3, <3>1, WireNone
    <3>3. IsAt(q, <<>>, 0)
      BY <1>1, <2>1, <3>2 DEF First
    <3>4. \A e : IsAt(q, e, 0)
      BY <3>3 DEF IsAt
    <3> QED
      BY <3>2, <3>4
  <2>2. CASE owes # <<>>
    <3>1. new # <<>> /\ new[1] = owes[1]
      BY <2>2
    <3> QED
      BY <1>1, <2>2, <3>1 DEF First
  <2> QED
    BY <2>1, <2>2
<1> QED
  BY <1>4, <1>5 DEF Fits

(* A receiving function reads what is there.                               *)
LEMMA FitsRead ==
    ASSUME NEW size \in Nat, NEW s \in Seq(Nat), NEW q \in Rx, NEW owes \in Seq(Bodies(size)),
           NEW rem \in Seq(Nat), Fits(s, q, owes, rem, size), s # <<>>, NEW r \in Reads(q, s, size)
    PROVE  /\ owes # <<>>
           /\ r.st = "done" => /\ Structure(r, size) = Head(owes)
                               /\ Fits(r.rest, Receiver, Tail(owes), rem, size)
           /\ r.st # "done" => Fits(r.rest, [r EXCEPT !.rest = <<>>], owes, rem, size)
<1>1. PICK p \in 0 .. size + 3 : Wire(s \o rem, owes, p, size) /\ IsAt(q, First(owes), p)
  BY DEF Fits
<1>2. owes # <<>> => IsAt(q, owes[1], p)
  BY <1>1 DEF First
<1>3. /\ owes # <<>>
      /\ r.st = "done" => /\ Structure(r, size) = Head(owes)
                          /\ Wire(r.rest \o rem, Tail(owes), 0, size)
      /\ r.st # "done" => \E p2 \in 0 .. size + 3 : /\ Wire(<<>> \o rem, owes, p2, size)
                                                  /\ IsAt(r, owes[1], p2)
  BY <1>1, <1>2, FramesRead
<1>4. CASE r.st = "done"
  <2>1. \A b : IsAt(Receiver, b, 0)
    BY DEF IsAt, Receiver
  <2>2. 0 \in 0 .. size + 3
    OBVIOUS
  <2> QED
    BY <1>3, <1>4, <2>1, <2>2 DEF Fits
<1>5. CASE r.st # "done"
  <2>1. PICK p2 \in 0 .. size + 3 : Wire(<<>> \o rem, owes, p2, size) /\ IsAt(r, owes[1], p2)
    BY <1>3, <1>5
  <2>2. r \in Rx
    BY ReadsType
  <2>3. r.rest = <<>>
    BY <2>1 DEF IsAt
  <2>4. [r EXCEPT !.rest = <<>>] = r
    BY <2>2, <2>3 DEF Rx
  <2>5. First(owes) = owes[1]
    BY <1>3 DEF First
  <2> QED
    BY <1>3, <1>5, <2>1, <2>3, <2>4, <2>5 DEF Fits
<1> QED
  BY <1>4, <1>5


-----------------------------------------------------------------------------
(* All connections.                                                        *)

(* What a thread has still to send for its structure.                      *)
Remains(s, size) ==
    s = <<>> \/ s = <<Closing>> \/ \E b \in Bodies(size) : s = <<b, Closing>> \/ s = FrameOf(b)

(* The threads that have made one or two of their calls, and what they     *)
(* have still to put on the connection.                                    *)
Midway(cs, c) == {t \in Threads : Dest(t) = c /\ Len(cs[t]) \in {1, 2}}
Rest(s) == IF Len(s) = 2 THEN s[1] \o s[2] ELSE s[1]
Pending(cs, c, rem) ==
    IF Midway(cs, c) = {} THEN rem = <<>> ELSE \E t : Midway(cs, c) = {t} /\ rem = Rest(cs[t])

(* Connections nothing will be put on any more.                            *)
Shut == {c \in Conns : IF c \in LinkConns THEN phase[c[2]] = "gone" ELSE sip[c[2]] = "gone"}

(* Unless a connection is mixed, what is on it and what its one thread     *)
(* that is midway has still to send fits its receiver; when it is shut     *)
(* the rest of the last frame may never come, or all has been cleared.     *)
Flow(s, q, owes, cs, c, shut, mix) ==
    c \notin mix =>
      \/ \E rem \in Seq(Nat) : /\ c \notin shut => Pending(cs, c, rem)
                               /\ Fits(s, q, owes, rem, Size(c))
      \/ c \in shut /\ s = <<>> /\ owes = <<>>

(* The inductive invariant for FramesWhole.                                *)
FInv ==
    /\ owe \in [Conns -> Seq(Seq(Nat))]
    /\ \A c \in Conns : owe[c] \in Seq(Bodies(Size(c))) /\ Neat(rx[c], Size(c))
    /\ \A n \in Nodes : out[n].to # {} => out[n].pkt \in Bodies(PktLen)
    /\ \A t \in Threads : Remains(calls[t], Size(Dest(t)))
    /\ wrong \subseteq mixed /\ mixed \cap LinkConns = {}
    /\ \A c \in Conns : Flow(stream[c], rx[c], owe[c], calls, c, Shut, mixed)

(* The kinds of connections.                                               *)
LEMMA Kinds ==
    /\ \A l \in LinkConns : Size(l) = PktLen /\ Dest(l) = Down(l[3])
    /\ \A n \in Nodes : /\ Up(n) \notin LinkConns /\ Down(n) \notin LinkConns /\ Up(n) # Down(n)
                        /\ Size(Up(n)) = PktLen + 1 /\ Size(Down(n)) = PktLen
                        /\ Up(n)[2] = n /\ Up(n)[3] = n /\ Down(n)[2] = n /\ Down(n)[3] = n
    /\ \A t \in SipThreads : t[2] \in Nodes /\ Dest(t) = Up(t[2])
    /\ \A t \in Threads : Dest(t) \in Conns \ LinkConns
    /\ \A c \in Conns : Size(c) \in Nat /\ PktLen \in Nat
<1>1. \A l \in LinkConns : l[1] = "link" /\ l[3] \in Nodes
  <2>1. ASSUME NEW l \in LinkConns
        PROVE  l[1] = "link" /\ l[3] \in Nodes
    <3>1. PICK e \in Nodes \X Nodes : l = <<"link", e[1], e[2]>>
      BY DEF LinkConns, Link
    <3> QED
      BY <3>1
  <2> QED
    BY <2>1
<1>2. \A l \in LinkConns : Size(l) = PktLen /\ Dest(l) = Down(l[3])
  BY <1>1 DEF Size, Dest
<1>3. ASSUME NEW n \in Nodes
      PROVE  /\ Up(n) \notin LinkConns /\ Down(n) \notin LinkConns /\ Up(n) # Down(n)
             /\ Size(Up(n)) = PktLen + 1 /\ Size(Down(n)) = PktLen
             /\ Up(n)[2] = n /\ Up(n)[3] = n /\ Down(n)[2] = n /\ Down(n)[3] = n
  <2>1. Up(n)[1] = "up" /\ Down(n)[1] = "down"
    BY DEF Up, Down
  <2>2. Up(n)[1] # "link" /\ Down(n)[1] # "link" /\ Up(n)[1] # Down(n)[1]
    BY <2>1
  <2>3. Up(n)[2] = n /\ Up(n)[3] = n /\ Down(n)[2] = n /\ Down(n)[3] = n
    BY DEF Up, Down
  <2>4. Size(Up(n)) = PktLen + 1 /\ Size(Down(n)) = PktLen
    BY <2>1 DEF Size
  <2> QED
    BY <1>1, <2>2, <2>3, <2>4
<1>4. ASSUME NEW t \in SipThreads
      PROVE  t[2] \in Nodes /\ Dest(t) = Up(t[2])
  <2>1. PICK n \in Nodes : t = <<"daemon", n, n>> \/ t = <<"other", n, n>>
    BY DEF SipThreads, Daemon, Sender
  <2>2. t[1] # "link" /\ t[2] = n
    BY <2>1
  <2>3. t \notin LinkConns
    BY <1>1, <2>2
  <2> QED
    BY <2>2, <2>3 DEF Dest
<1>5. \A t \in Threads : Dest(t) \in Conns \ LinkConns
  BY <1>1, <1>2, <1>3, <1>4, Connections DEF Threads
<1>6. \A c \in Conns : Size(c) \in Nat /\ PktLen \in Nat
  BY SonAssumption DEF Size
<1> QED
  BY <1>2, <1>3, <1>4, <1>5, <1>6

(* What has still to be sent, from the first call on.                      *)
LEMMA RemainsIs ==
    ASSUME NEW size \in Nat, NEW s, Remains(s, size), s # <<>>
    PROVE  \/ /\ Len(s) = 1 /\ Head(s) = Closing /\ Tail(s) = <<>> /\ Len(Tail(s)) = 0
              /\ Rest(s) = Closing
           \/ \E b \in Bodies(size) :
                \/ /\ Len(s) = 2 /\ Head(s) = b /\ Tail(s) = <<Closing>> /\ Len(Tail(s)) = 1
                   /\ Rest(s) = b \o Closing /\ Rest(Tail(s)) = Closing
                \/ /\ Len(s) = 3 /\ Head(s) = Opening /\ s[2] = b /\ Tail(s) = <<b, Closing>>
                   /\ Len(Tail(s)) = 2 /\ Rest(Tail(s)) = b \o Closing
<1>1. CASE s = <<Closing>>
  <2>1. Len(s) = 1 /\ Head(s) = Closing /\ Tail(s) = <<>> /\ Len(Tail(s)) = 0 /\ s[1] = Closing
    BY <1>1
  <2> QED
    BY <2>1 DEF Rest
<1>2. ASSUME NEW b \in Bodies(size), s = <<b, Closing>>
      PROVE  /\ Len(s) = 2 /\ Head(s) = b /\ Tail(s) = <<Closing>> /\ Len(Tail(s)) = 1
             /\ Rest(s) = b \o Closing /\ Rest(Tail(s)) = Closing
  <2>1. /\ Len(s) = 2 /\ Head(s) = b /\ Tail(s) = <<Closing>> /\ s[1] = b /\ s[2] = Closing
        /\ Len(<<Closing>>) = 1 /\ <<Closing>>[1] = Closing
    BY <1>2
  <2>2. Rest(s) = b \o Closing
    BY <2>1 DEF Rest
  <2>3. Rest(<<Closing>>) = Closing
    BY <2>1 DEF Rest
  <2> QED
    BY <2>1, <2>2, <2>3
<1>3. ASSUME NEW b \in Bodies(size), s = FrameOf(b)
      PROVE  /\ Len(s) = 3 /\ Head(s) = Opening /\ s[2] = b /\ Tail(s) = <<b, Closing>>
             /\ Len(Tail(s)) = 2 /\ Rest(Tail(s)) = b \o Closing
  <2>1. s = <<Opening, b, Closing>>
    BY <1>3 DEF FrameOf
  <2>2. /\ Len(s) = 3 /\ Head(s) = Opening /\ s[2] = b /\ Tail(s) = <<b, Closing>>
        /\ Len(<<b, Closing>>) = 2 /\ <<b, Closing>>[1] = b /\ <<b, Closing>>[2] = Closing
    BY <2>1
  <2> QED
    BY <2>2 DEF Rest
<1> QED
  BY <1>1, <1>2, <1>3 DEF Remains

(* Nothing changes for a connection.                                       *)
LEMMA FlowSame ==
    ASSUME NEW s, NEW q, NEW owes, NEW cs, NEW cs2, NEW c, NEW shut, NEW shut2, NEW mix, NEW mix2,
           Flow(s, q, owes, cs, c, shut, mix), c \in mix => c \in mix2, c \in shut => c \in shut2,
           c \in shut2 \/ \A t \in Threads : Dest(t) = c =>
             cs2[t] = cs[t] \/ (Len(cs2[t]) \notin {1, 2} /\ Len(cs[t]) \notin {1, 2})
    PROVE  Flow(s, q, owes, cs2, c, shut2, mix2)
<1>1. CASE c \in mix2
  BY <1>1 DEF Flow
<1>2. CASE c \in shut2 /\ c \notin mix2
  BY <1>2 DEF Flow
<1>3. CASE c \notin shut2 /\ c \notin mix2
  <2>1. Midway(cs2, c) = Midway(cs, c) /\ \A t \in Midway(cs, c) : cs2[t] = cs[t]
    BY <1>3 DEF Midway
  <2>2. \A rem : Pending(cs, c, rem) => Pending(cs2, c, rem)
    BY <2>1 DEF Pending
  <2> QED
    BY <1>3, <2>2 DEF Flow
<1> QED
  BY <1>1, <1>2, <1>3

(* The receiver when it has read, and the bodies that are owed then.       *)
RxAfter(r) == IF r.st = "done" THEN Receiver ELSE [r EXCEPT !.rest = <<>>]
OwesAfter(r, owes) == IF r.st = "done" /\ owes # <<>> THEN Tail(owes) ELSE owes

(* A receiving function reads.                                             *)
LEMMA FlowRead ==
    ASSUME NEW c \in Conns, NEW s \in Seq(Nat), NEW q \in Rx, NEW owes \in Seq(Bodies(Size(c))),
           NEW cs, NEW shut, NEW mix, Flow(s, q, owes, cs, c, shut, mix), s # <<>>,
           NEW r \in Reads(q, s, Size(c))
    PROVE  /\ Flow(r.rest, RxAfter(r), OwesAfter(r, owes), cs, c, shut, mix)
           /\ r.st = "done" /\ c \notin mix => owes # <<>> /\ Head(owes) = Structure(r, Size(c))
<1> DEFINE size == Size(c)
           q2 == RxAfter(r)
           owes2 == OwesAfter(r, owes)
<1>1. size \in Nat
  BY Kinds
<1>2. CASE c \in mix
  BY <1>2 DEF Flow
<1>3. CASE c \notin mix
  <2>1. PICK rem \in Seq(Nat) : /\ c \notin shut => Pending(cs, c, rem)
                                /\ Fits(s, q, owes, rem, size)
    BY <1>3 DEF Flow
  <2> HIDE DEF size
  <2>2. /\ owes # <<>>
        /\ r.st = "done" => /\ Structure(r, size) = Head(owes)
                            /\ Fits(r.rest, Receiver, Tail(owes), rem, size)
        /\ r.st # "done" => Fits(r.rest, [r EXCEPT !.rest = <<>>], owes, rem, size)
    BY <1>1, <2>1, FitsRead DEF size
  <2>3. Fits(r.rest, q2, owes2, rem, size)
    BY <2>2 DEF RxAfter, OwesAfter
  <2> HIDE DEF q2, owes2
  <2>4. Flow(r.rest, q2, owes2, cs, c, shut, mix)
    BY <2>1, <2>3 DEF Flow, size
  <2> QED
    BY <2>2, <2>4 DEF size, q2, owes2
<1> QED
  BY <1>2, <1>3

(* A thread makes one of its calls, and no other is midway.                *)
LEMMA FlowCall ==
    ASSUME NEW c \in Conns, NEW s \in Seq(Nat), NEW q, NEW owes \in Seq(Bodies(Size(c))),
           NEW cs, NEW shut, NEW mix, Flow(s, q, owes, cs, c, shut, mix), c \notin shut, c \notin mix,
           NEW t \in Threads, Dest(t) = c, cs[t] \in Seq(Seq(Nat)), cs[t] # <<>>, Remains(cs[t], Size(c)),
           \A u \in Threads \ {t} : ~(Dest(u) = c /\ Len(cs[u]) \in {1, 2}),
           NEW cs2, cs2[t] = Tail(cs[t]), \A u \in Threads \ {t} : cs2[u] = cs[u],
           NEW owes2, owes2 = IF Len(cs[t]) = 3 THEN Append(owes, cs[t][2]) ELSE owes
    PROVE  Flow(s \o Head(cs[t]), q, owes2, cs2, c, shut, mix)
<1> DEFINE size == Size(c)
           e == cs[t]
           e2 == cs2[t]
<1>1. size \in Nat /\ Opening \in Seq(Nat) /\ Closing \in Seq(Nat)
  BY Kinds DEF Opening, Closing
<1>2. PICK rem \in Seq(Nat) : Pending(cs, c, rem) /\ Fits(s, q, owes, rem, size)
  BY DEF Flow
<1>3. Remains(e, size) /\ e # <<>> /\ e2 = Tail(e) /\ owes \in Seq(Bodies(size))
  OBVIOUS
<1>4. Midway(cs, c) = IF Len(e) \in {1, 2} THEN {t} ELSE {}
  BY DEF Midway
<1>5. Midway(cs2, c) = IF Len(e2) \in {1, 2} THEN {t} ELSE {}
  BY DEF Midway
<1>6. rem = IF Len(e) \in {1, 2} THEN Rest(e) ELSE <<>>
  BY <1>2, <1>4 DEF Pending
<1>7. ASSUME NEW rem2 \in Seq(Nat), rem2 = (IF Len(e2) \in {1, 2} THEN Rest(e2) ELSE <<>>),
             Fits(s \o Head(e), q, owes2, rem2, size)
      PROVE  Flow(s \o Head(cs[t]), q, owes2, cs2, c, shut, mix)
  <2>1. Pending(cs2, c, rem2)
    BY <1>5, <1>7 DEF Pending
  <2> QED
    BY <1>7, <2>1 DEF Flow
<1>8. owes2 = IF Len(e) = 3 THEN Append(owes, e[2]) ELSE owes
  OBVIOUS
<1> HIDE DEF size, e, e2
<1>9. CASE /\ Len(e) = 1 /\ Head(e) = Closing /\ Tail(e) = <<>> /\ Len(Tail(e)) = 0
           /\ Rest(e) = Closing
  <2>1. Len(e) \in {1, 2} /\ Len(e) # 3 /\ Len(e2) = 0
    BY <1>3, <1>9
  <2>2. rem = Closing
    BY <1>6, <1>9, <2>1
  <2>3. owes2 = owes
    BY <1>8, <2>1
  <2>4. ~(Len(e2) \in {1, 2})
    BY <2>1
  <2>5. Closing \o <<>> = Closing /\ <<>> \in Seq(Nat)
    BY <1>1
  <2>6. Fits(s \o Closing, q, owes, <<>>, size)
    BY <1>1, <1>2, <2>2, <2>5, FitsMove
  <2> QED
    BY <1>7, <1>9, <2>3, <2>4, <2>5, <2>6
<1>10. ASSUME NEW b \in Bodies(size),
              /\ Len(e) = 2 /\ Head(e) = b /\ Tail(e) = <<Closing>> /\ Len(Tail(e)) = 1
              /\ Rest(e) = b \o Closing /\ Rest(Tail(e)) = Closing
       PROVE  Flow(s \o Head(cs[t]), q, owes2, cs2, c, shut, mix)
  <2>1. Len(e) \in {1, 2} /\ Len(e) # 3 /\ Len(e2) = 1
    BY <1>3, <1>10
  <2>2. rem = b \o Closing
    BY <1>6, <1>10, <2>1, Zenon
  <2>3. owes2 = owes
    BY <1>8, <2>1, Zenon
  <2>4. Len(e2) \in {1, 2}
    BY <2>1
  <2>5. Rest(e2) = Closing
    BY <1>3, <1>10, Zenon
  <2>6. b \in Seq(Nat)
    BY DEF Bodies
  <2> DEFINE cl == Closing
             h == Head(e)
  <2>7. rem = b \o cl /\ cl \in Seq(Nat) /\ h = b /\ Rest(e2) = cl
    BY <1>1, <1>10, <2>2, <2>5
  <2> HIDE DEF cl, h
  <2>8. Fits(s \o b, q, owes, cl, size)
    BY <1>2, <2>6, <2>7, FitsMove
  <2>9. Fits(s \o h, q, owes2, cl, size)
    BY <2>3, <2>7, <2>8
  <2> QED
    BY <1>7, <2>4, <2>7, <2>9 DEF h
<1>11. ASSUME NEW b \in Bodies(size),
              /\ Len(e) = 3 /\ Head(e) = Opening /\ e[2] = b /\ Tail(e) = <<b, Closing>>
              /\ Len(Tail(e)) = 2 /\ Rest(Tail(e)) = b \o Closing
       PROVE  Flow(s \o Head(cs[t]), q, owes2, cs2, c, shut, mix)
  <2>1. Len(e) = 3 /\ ~(Len(e) \in {1, 2}) /\ Len(e2) = 2
    BY <1>3, <1>11
  <2>2. rem = <<>>
    BY <1>6, <2>1, Zenon
  <2>3. owes2 = Append(owes, b)
    BY <1>8, <1>11, <2>1, Zenon
  <2>4. Len(e2) \in {1, 2}
    BY <2>1
  <2>5. Rest(e2) = b \o Closing
    BY <1>3, <1>11, Zenon
  <2>6. b \in Seq(Nat)
    BY DEF Bodies
  <2> DEFINE op == Opening
             cl == Closing
             h == Head(e)
             rem2 == b \o cl
             owes3 == Append(owes, b)
  <2>7. /\ op \in Seq(Nat) /\ cl \in Seq(Nat) /\ h = op /\ Rest(e2) = rem2
    BY <1>1, <1>11, <2>5
  <2>8. Fits(s, q, owes3, Framed(b), size)
    BY <1>1, <1>2, <1>3, <2>2, FitsFrame
  <2> HIDE DEF op, cl, h
  <2>9. rem2 \in Seq(Nat)
    BY <2>6, <2>7
  <2>10. Framed(b) = op \o rem2
    BY <2>6, FramedIs DEF op, cl
  <2> HIDE DEF rem2, owes3
  <2>11. Fits(s, q, owes3, op \o rem2, size)
    BY <2>8, <2>10, Zenon
  <2>12. Fits(s \o op, q, owes3, rem2, size)
    BY <2>7, <2>9, <2>11, FitsMove
  <2>13. Fits(s \o h, q, owes2, rem2, size)
    BY <2>3, <2>7, <2>12 DEF owes3
  <2> QED
    BY <1>7, <2>4, <2>7, <2>9, <2>13 DEF h
<1> QED
  BY <1>1, <1>3, <1>9, <1>10, <1>11, RemainsIs

(* A whole frame is put on a connection no thread writes in parts.         *)
LEMMA FlowPut ==
    ASSUME NEW c \in LinkConns, NEW s \in Seq(Nat), NEW q, NEW owes \in Seq(Bodies(Size(c))),
           NEW cs, NEW shut, NEW mix, Flow(s, q, owes, cs, c, shut, mix), c \notin shut,
           NEW b \in Bodies(Size(c))
    PROVE  Flow(s \o Framed(b), q, Append(owes, b), cs, c, shut, mix)
<1> DEFINE size == Size(c)
<1>1. size \in Nat /\ c \in Conns
  BY Kinds, Connections
<1>2. CASE c \in mix
  BY <1>2 DEF Flow
<1>3. CASE c \notin mix
  <2>1. PICK rem \in Seq(Nat) : Pending(cs, c, rem) /\ Fits(s, q, owes, rem, size)
    BY <1>3 DEF Flow
  <2>2. Midway(cs, c) = {}
    BY Kinds DEF Midway
  <2>3. rem = <<>>
    BY <2>1, <2>2 DEF Pending
  <2> HIDE DEF size
  <2>4. Fits(s, q, Append(owes, b), Framed(b), size)
    BY <1>1, <2>1, <2>3, FitsFrame DEF size
  <2>5. Framed(b) \in Seq(Nat) /\ <<>> \in Seq(Nat)
    <3>1. b \in Seq(Nat)
      BY DEF Bodies
    <3> QED
      BY <3>1, FrameType
  <2>6. Framed(b) \o <<>> = Framed(b)
    BY <2>5
  <2>7. Fits(s \o Framed(b), q, Append(owes, b), <<>>, size)
    BY <2>4, <2>5, <2>6, FitsMove
  <2>8. Pending(cs, c, <<>>)
    BY <2>2 DEF Pending
  <2> QED
    BY <2>5, <2>7, <2>8 DEF Flow, size
<1> QED
  BY <1>2, <1>3

-----------------------------------------------------------------------------
(* What several actions share.                                             *)

(* A thread has made all of its calls, or none.                            *)
Whole(s) == Len(s) \notin {1, 2}

(* What a step may do to what the threads have still to send.              *)
CallsOK ==
    \A t \in Threads :
      \/ calls'[t] = calls[t]
      \/ /\ Remains(calls'[t], Size(Dest(t)))
         /\ Dest(t) \in Shut \/ (Whole(calls[t]) /\ Whole(calls'[t]))

(* And to the packets of waitSIP.                                          *)
OutOK == \A n \in Nodes : out'[n].to # {} => out'[n].pkt \in Bodies(PktLen)

(* A structure that has not been begun, and none.                          *)
LEMMA WholeIs ==
    ASSUME NEW size, NEW b \in Bodies(size)
    PROVE  /\ Remains(<<>>, size) /\ Whole(<<>>)
           /\ Remains(FrameOf(b), size) /\ Whole(FrameOf(b))
<1>1. Len(<<>>) = 0 /\ Len(FrameOf(b)) = 3
  BY DEF FrameOf
<1>2. Whole(<<>>) /\ Whole(FrameOf(b))
  BY <1>1 DEF Whole
<1> QED
  BY <1>2 DEF Remains

(* Nothing has been called.                                                *)
LEMMA NoneWhole == Whole(<<>>) /\ \A size : Remains(<<>>, size)
<1>1. Len(<<>>) = 0
  OBVIOUS
<1> QED
  BY <1>1 DEF Whole, Remains

(* CallsOK keeps what is said of the calls.                                *)
LEMMA RemainsKept ==
    ASSUME FInv, CallsOK, NEW t \in Threads
    PROVE  Remains(calls'[t], Size(Dest(t)))
<1>1. Remains(calls[t], Size(Dest(t)))
  BY DEF FInv
<1>2. calls'[t] = calls[t] \/ Remains(calls'[t], Size(Dest(t)))
  BY DEF CallsOK
<1> QED
  BY <1>1, <1>2

(* A connection on which nothing moves.                                    *)
LEMMA FlowKept ==
    ASSUME FInv, CallsOK, NEW c \in Conns, mixed \subseteq mixed', Shut \subseteq Shut'
    PROVE  Flow(stream[c], rx[c], owe[c], calls', c, Shut', mixed')
<1>1. Flow(stream[c], rx[c], owe[c], calls, c, Shut, mixed)
  BY DEF FInv
<1>2. c \in Shut' \/ \A t \in Threads : Dest(t) = c =>
        calls'[t] = calls[t] \/ (Len(calls'[t]) \notin {1, 2} /\ Len(calls[t]) \notin {1, 2})
  BY DEF CallsOK, Whole
<1> DEFINE cs2 == calls'
           sh2 == Shut'
           mx2 == mixed'
<1>3. c \in mixed => c \in mx2
  OBVIOUS
<1>4. c \in Shut => c \in sh2
  OBVIOUS
<1>5. c \in sh2 \/ \A t \in Threads : Dest(t) = c =>
        cs2[t] = calls[t] \/ (Len(cs2[t]) \notin {1, 2} /\ Len(calls[t]) \notin {1, 2})
  BY <1>2
<1> HIDE DEF cs2, sh2, mx2
<1>6. Flow(stream[c], rx[c], owe[c], cs2, c, sh2, mx2)
  BY <1>1, <1>3, <1>4, <1>5, FlowSame
<1> QED
  BY <1>6 DEF cs2, sh2, mx2

(* Nothing moves on any connection.                                        *)
LEMMA NothingMoves ==
    ASSUME FInv, UNCHANGED <<stream, rx, history>>, Shut' = Shut, CallsOK, OutOK
    PROVE  FInv'
<1>1. UNCHANGED <<stream, rx, owe, wrong, mixed>>
  BY DEF history
<1>2. \A c \in Conns : Flow(stream'[c], rx'[c], owe'[c], calls', c, Shut', mixed')
  BY <1>1, FlowKept
<1>3. \A t \in Threads : Remains(calls'[t], Size(Dest(t)))
  BY RemainsKept
<1>4. \A n \in Nodes : out'[n].to # {} => out'[n].pkt \in Bodies(PktLen)
  BY DEF OutOK
<1>5. /\ owe' \in [Conns -> Seq(Seq(Nat))]
      /\ \A c \in Conns : owe'[c] \in Seq(Bodies(Size(c))) /\ Neat(rx'[c], Size(c))
      /\ wrong' \subseteq mixed' /\ mixed' \cap LinkConns = {}
  BY <1>1 DEF FInv
<1> QED
  BY <1>2, <1>3, <1>4, <1>5 DEF FInv

(* The structure that is received is one that may be sent.                 *)
LEMMA GotBody ==
    ASSUME IInv, FInv, NEW c \in Conns, NEW r \in Heard(c)
    PROVE  r \in Rx /\ Neat(r, Size(c)) /\ (Done(r) => Got(c, r) \in Bodies(Size(c)))
<1> DEFINE q == rx[c]
           bytes == stream[c]
           size == Size(c)
<1>1. q \in Rx /\ bytes \in Seq(Nat)
  BY DEF IInv, UnderWay
<1>2. Neat(q, size)
  BY DEF FInv
<1>3. size \in Nat
  BY Kinds
<1>4. r \in Reads(q, bytes, size)
  BY DEF Heard
<1> HIDE DEF q, bytes, size
<1>5. r \in Rx /\ Neat(r, size)
  BY <1>1, <1>2, <1>3, <1>4, NeatRead
<1>6. Done(r) => Structure(r, size) \in Bodies(size)
  BY <1>3, <1>5, NeatStructure DEF Done
<1> QED
  BY <1>5, <1>6 DEF Got, size

(* A receiving function reads.                                             *)
LEMMA HearsKeeps ==
    ASSUME IInv, FInv, NEW c \in Conns, NEW r \in Heard(c), Hears(c, r), UNCHANGED mixed,
           Shut' = Shut, CallsOK, OutOK
    PROVE  FInv'
<1> DEFINE size == Size(c)
           q == rx[c]
           s == stream[c]
           ow == owe[c]
           q2 == RxAfter(r)
           ow2 == OwesAfter(r, ow)
<1>1. /\ s # <<>>
      /\ stream' = [stream EXCEPT ![c] = r.rest]
      /\ rx' = [rx EXCEPT ![c] = q2]
      /\ owe' = IF r.st = "done" /\ ow # <<>> THEN [owe EXCEPT ![c] = Tail(@)] ELSE owe
      /\ wrong' = IF r.st = "done" /\ (ow = <<>> \/ Head(ow) # Structure(r, size))
                  THEN wrong \cup {c} ELSE wrong
  BY DEF Hears, Done, Got, RxAfter
<1>2. /\ q \in Rx /\ s \in Seq(Nat) /\ ow \in Seq(Bodies(size)) /\ ow \in Seq(Seq(Nat))
      /\ Flow(s, q, ow, calls, c, Shut, mixed) /\ r \in Reads(q, s, size)
  BY DEF IInv, UnderWay, FInv, Heard
<1>3. r \in Rx /\ Neat(r, size)
  BY GotBody
<1>4. /\ stream \in [Conns -> Seq(Nat)] /\ rx \in [Conns -> Rx] /\ owe \in [Conns -> Seq(Seq(Nat))]
  BY DEF IInv, UnderWay, FInv
<1>5. owe' = [owe EXCEPT ![c] = ow2]
  BY <1>1, <1>4 DEF OwesAfter
<1>6. /\ Flow(r.rest, q2, ow2, calls, c, Shut, mixed)
      /\ r.st = "done" /\ c \notin mixed => ow # <<>> /\ Head(ow) = Structure(r, size)
  <2>1. s # <<>> /\ q \in Rx /\ s \in Seq(Nat) /\ ow \in Seq(Bodies(Size(c)))
    BY <1>1, <1>2
  <2>2. Flow(s, q, ow, calls, c, Shut, mixed) /\ r \in Reads(q, s, Size(c))
    BY <1>2
  <2> HIDE DEF q, s, ow
  <2> QED
    BY <2>1, <2>2, FlowRead
<1>7. ow2 \in Seq(Bodies(size)) /\ ow2 \in Seq(Seq(Nat))
  <2> HIDE DEF ow
  <2>1. CASE ow # <<>>
    <3>1. Tail(ow) \in Seq(Bodies(size)) /\ Tail(ow) \in Seq(Seq(Nat))
      BY <1>2, <2>1
    <3> QED
      BY <1>2, <3>1 DEF OwesAfter
  <2>2. CASE ow = <<>>
    BY <1>2, <2>2 DEF OwesAfter
  <2> QED
    BY <2>1, <2>2
<1>8. Neat(q2, size)
  <2>1. size \in Nat
    BY Kinds
  <2>2. Neat(Receiver, size)
    BY <2>1, NeatReceiver
  <2>3. Neat([r EXCEPT !.rest = <<>>], size)
    <3> DEFINE e == [r EXCEPT !.rest = <<>>]
    <3>1. e.st = r.st /\ e.buf = r.buf
      BY <1>3 DEF Rx
    <3> HIDE DEF e
    <3> QED
      BY <1>3, <3>1 DEF Neat, e
  <2> QED
    BY <2>2, <2>3 DEF RxAfter
<1> HIDE DEF q2, ow2
<1>9. /\ stream'[c] = r.rest /\ rx'[c] = q2 /\ owe'[c] = ow2
      /\ \A d \in Conns \ {c} : stream'[d] = stream[d] /\ rx'[d] = rx[d] /\ owe'[d] = owe[d]
  BY <1>1, <1>4, <1>5
<1>10. owe' \in [Conns -> Seq(Seq(Nat))]
  BY <1>4, <1>5, <1>7
<1>11. \A d \in Conns : owe'[d] \in Seq(Bodies(Size(d))) /\ Neat(rx'[d], Size(d))
  BY <1>7, <1>8, <1>9 DEF FInv
<1>12. \A t \in Threads : Remains(calls'[t], Size(Dest(t)))
  BY RemainsKept
<1>13. wrong' \subseteq mixed' /\ mixed' \cap LinkConns = {}
  <2>1. wrong \subseteq mixed /\ mixed \cap LinkConns = {}
    BY DEF FInv
  <2>2. wrong' = wrong \/ (wrong' = wrong \cup {c} /\ c \in mixed)
    BY <1>1, <1>6
  <2> QED
    BY <2>1, <2>2
<1>14. Flow(stream'[c], rx'[c], owe'[c], calls', c, Shut', mixed')
  <2>1. c \in Shut \/ \A t \in Threads : Dest(t) = c =>
          calls'[t] = calls[t] \/ (Len(calls'[t]) \notin {1, 2} /\ Len(calls[t]) \notin {1, 2})
    BY DEF CallsOK, Whole
  <2> DEFINE cs2 == calls'
  <2>2. c \in Shut \/ \A t \in Threads : Dest(t) = c =>
          cs2[t] = calls[t] \/ (Len(cs2[t]) \notin {1, 2} /\ Len(calls[t]) \notin {1, 2})
    BY <2>1
  <2> HIDE DEF cs2
  <2>3. Flow(r.rest, q2, ow2, cs2, c, Shut, mixed)
    BY <1>6, <2>2, FlowSame
  <2> QED
    BY <1>9, <2>3 DEF cs2
<1>15. \A d \in Conns : Flow(stream'[d], rx'[d], owe'[d], calls', d, Shut', mixed')
  <2>1. ASSUME NEW d \in Conns \ {c}
        PROVE  Flow(stream'[d], rx'[d], owe'[d], calls', d, Shut', mixed')
    BY <1>9, FlowKept
  <2> QED
    BY <1>14, <2>1
<1>16. \A n \in Nodes : out'[n].to # {} => out'[n].pkt \in Bodies(PktLen)
  BY DEF OutOK
<1> QED
  BY <1>10, <1>11, <1>12, <1>13, <1>15, <1>16 DEF FInv

(* After a call the rest is still to be sent, and a structure that is      *)
(* begun is one that may be sent.                                          *)
LEMMA RemainsTail ==
    ASSUME NEW size \in Nat, NEW s, Remains(s, size), s # <<>>
    PROVE  Remains(Tail(s), size) /\ (Len(s) = 3 => s[2] \in Bodies(size))
<1>1. \/ s = <<Closing>>
      \/ \E b \in Bodies(size) : s = <<b, Closing>> \/ s = FrameOf(b)
  BY DEF Remains
<1>2. CASE s = <<Closing>>
  <2>1. Tail(s) = <<>> /\ Len(s) = 1
    BY <1>2
  <2> QED
    BY <2>1 DEF Remains
<1>3. ASSUME NEW b \in Bodies(size), s = <<b, Closing>>
      PROVE  Remains(Tail(s), size) /\ (Len(s) = 3 => s[2] \in Bodies(size))
  <2>1. Tail(s) = <<Closing>> /\ Len(s) = 2
    BY <1>3
  <2> QED
    BY <2>1 DEF Remains
<1>4. ASSUME NEW b \in Bodies(size), s = FrameOf(b)
      PROVE  Remains(Tail(s), size) /\ (Len(s) = 3 => s[2] \in Bodies(size))
  <2>1. s = <<Opening, b, Closing>>
    BY <1>4 DEF FrameOf
  <2>2. Tail(s) = <<b, Closing>> /\ s[2] = b
    BY <2>1
  <2> QED
    BY <2>2 DEF Remains
<1> QED
  BY <1>1, <1>2, <1>3, <1>4

(* A thread makes one of its calls on a connection that is not shut.       *)
LEMMA SendCallKeeps ==
    ASSUME IInv, FInv, NEW t \in Threads, calls[t] # <<>>, SendCall(t), Dest(t) \notin Shut,
           Shut' = Shut, UNCHANGED <<rx, out, wrong>>
    PROVE  FInv'
<1> DEFINE c == Dest(t)
           e == calls[t]
           owes2 == IF Len(e) = 3 THEN Append(owe[c], e[2]) ELSE owe[c]
           amid == {u \in Threads \ {t} : Dest(u) = c /\ Len(calls[u]) \in {1, 2}}
<1>1. /\ stream' = [stream EXCEPT ![c] = @ \o Head(e)]
      /\ calls' = [calls EXCEPT ![t] = Tail(e)]
      /\ owe' = IF Len(e) = 3 THEN [owe EXCEPT ![c] = Append(@, e[2])] ELSE owe
      /\ mixed' = IF amid # {} THEN mixed \cup {c} ELSE mixed
  BY DEF SendCall
<1>2. c \in Conns /\ c \notin LinkConns /\ Size(c) \in Nat /\ \A d \in Conns : Size(d) \in Nat
  BY Kinds
<1>3. /\ stream \in [Conns -> Seq(Nat)] /\ calls \in [Threads -> Seq(Seq(Nat))]
      /\ owe \in [Conns -> Seq(Seq(Nat))]
      /\ stream[c] \in Seq(Nat) /\ e \in Seq(Seq(Nat)) /\ e # <<>>
      /\ owe[c] \in Seq(Bodies(Size(c))) /\ owe[c] \in Seq(Seq(Nat))
  BY <1>2 DEF IInv, UnderWay, FInv
<1>4. Remains(e, Size(c))
  BY DEF FInv
<1>5. Remains(Tail(e), Size(c)) /\ (Len(e) = 3 => e[2] \in Bodies(Size(c)))
  <2> HIDE DEF e, c
  <2> QED
    BY <1>2, <1>3, <1>4, RemainsTail
<1>6. owes2 \in Seq(Bodies(Size(c))) /\ owes2 \in Seq(Seq(Nat))
  <2> HIDE DEF e, c
  <2>1. CASE Len(e) = 3
    <3> DEFINE b == e[2]
               ow == owe[c]
    <3>1. b \in Bodies(Size(c)) /\ b \in Seq(Nat)
      BY <1>5, <2>1 DEF Bodies
    <3>2. ow \in Seq(Bodies(Size(c))) /\ ow \in Seq(Seq(Nat))
      BY <1>3
    <3> HIDE DEF b, ow
    <3>3. Append(ow, b) \in Seq(Bodies(Size(c))) /\ Append(ow, b) \in Seq(Seq(Nat))
      BY <3>1, <3>2
    <3> QED
      BY <2>1, <3>3 DEF b, ow
  <2>2. CASE Len(e) # 3
    BY <1>3, <2>2
  <2> QED
    BY <2>1, <2>2
<1> HIDE DEF c, e
<1>7. owe' = [owe EXCEPT ![c] = owes2]
  BY <1>1, <1>3
<1> HIDE DEF owes2
<1>8. /\ stream'[c] = stream[c] \o Head(e) /\ owe'[c] = owes2
      /\ \A d \in Conns \ {c} : stream'[d] = stream[d] /\ owe'[d] = owe[d]
      /\ calls'[t] = Tail(e) /\ \A u \in Threads \ {t} : calls'[u] = calls[u]
  BY <1>1, <1>2, <1>3, <1>7
<1>9. owe' \in [Conns -> Seq(Seq(Nat))] /\ \A d \in Conns : owe'[d] \in Seq(Bodies(Size(d)))
  <2>1. \A d \in Conns : owe[d] \in Seq(Bodies(Size(d)))
    BY DEF FInv
  <2> QED
    BY <1>3, <1>6, <1>7, <2>1
<1>10. \A d \in Conns : Neat(rx'[d], Size(d))
  BY DEF FInv
<1>11. \A n \in Nodes : out'[n].to # {} => out'[n].pkt \in Bodies(PktLen)
  BY DEF FInv
<1>12. \A u \in Threads : Remains(calls'[u], Size(Dest(u)))
  <2>1. \A u \in Threads : Remains(calls[u], Size(Dest(u)))
    BY DEF FInv
  <2>2. Remains(calls'[t], Size(Dest(t)))
    BY <1>5, <1>8 DEF c
  <2> QED
    BY <1>8, <2>1, <2>2
<1>13. mixed \subseteq mixed' /\ wrong' \subseteq mixed' /\ mixed' \cap LinkConns = {}
  BY <1>1, <1>2 DEF FInv
<1>14. Flow(stream'[c], rx'[c], owe'[c], calls', c, Shut', mixed')
  <2>1. CASE c \in mixed'
    BY <2>1 DEF Flow
  <2>2. CASE c \notin mixed'
    <3>1. mixed' = mixed /\ c \notin mixed /\ amid = {}
      BY <1>1, <2>2
    <3>2. \A u \in Threads \ {t} : ~(Dest(u) = c /\ Len(calls[u]) \in {1, 2})
      BY <3>1
    <3> DEFINE cs2 == calls'
               s == stream[c]
               ow == owe[c]
    <3>3. cs2[t] = Tail(calls[t]) /\ \A u \in Threads \ {t} : cs2[u] = calls[u]
      BY <1>8 DEF e
    <3>4. /\ s \in Seq(Nat) /\ ow \in Seq(Bodies(Size(c))) /\ Flow(s, rx[c], ow, calls, c, Shut, mixed)
      BY <1>2, <1>3 DEF FInv
    <3>5. /\ c \notin Shut /\ Dest(t) = c /\ calls[t] \in Seq(Seq(Nat)) /\ calls[t] # <<>>
          /\ Remains(calls[t], Size(c))
      BY <1>3, <1>4 DEF c, e
    <3>6. owes2 = IF Len(calls[t]) = 3 THEN Append(ow, calls[t][2]) ELSE ow
      BY DEF owes2, e
    <3> HIDE DEF cs2, s, ow
    <3>7. Flow(s \o Head(calls[t]), rx[c], owes2, cs2, c, Shut, mixed)
      BY <1>2, <3>1, <3>2, <3>3, <3>4, <3>5, <3>6, FlowCall
    <3> QED
      BY <1>8, <3>1, <3>7 DEF cs2, s, e
  <2> QED
    BY <2>1, <2>2
<1>15. ASSUME NEW d \in Conns \ {c}
       PROVE  Flow(stream'[d], rx'[d], owe'[d], calls', d, Shut', mixed')
  <2>1. Flow(stream[d], rx[d], owe[d], calls, d, Shut, mixed)
    BY DEF FInv
  <2> DEFINE cs2 == calls'
             mx2 == mixed'
  <2>2. \A u \in Threads : Dest(u) = d => cs2[u] = calls[u]
    BY <1>8 DEF c
  <2>3. d \in mixed => d \in mx2
    BY <1>13
  <2> HIDE DEF cs2, mx2
  <2>4. Flow(stream[d], rx[d], owe[d], cs2, d, Shut, mx2)
    BY <2>1, <2>2, <2>3, FlowSame
  <2> QED
    BY <1>8, <2>4 DEF cs2, mx2
<1> QED
  BY <1>9, <1>10, <1>11, <1>12, <1>13, <1>14, <1>15 DEF FInv

-----------------------------------------------------------------------------
(* Every step keeps FInv.                                                  *)

(* Whose connections they are.                                             *)
LEMMA ConnNodes == \A c \in Conns : c[2] \in Nodes /\ c[3] \in Nodes
  BY Connections, Kinds DEF Conns

(* Who has ended.                                                          *)
LEMMA ShutSame == ASSUME UNCHANGED <<phase, sip>> PROVE Shut' = Shut
  BY DEF Shut

(* No call.                                                                *)
LEMMA NoCall == UNCHANGED calls => CallsOK
  BY DEF CallsOK

(* No packet.                                                              *)
LEMMA NoPacket == FInv /\ UNCHANGED out => OutOK
  BY DEF FInv, OutOK

(* Set-up, and what does not touch the connections.                        *)
LEMMA SetUpKeepsF ==
    ASSUME IInv, FInv, NEW n \in Nodes,
           Start(n) \/ Join(n) \/ SipConnects(n) \/ \E m \in Nbrs(n) : Dial(n, m) \/ AcceptNbr(n, m)
    PROVE  FInv'
<1>1. UNCHANGED <<stream, rx, history>> /\ UNCHANGED calls /\ UNCHANGED out
  BY DEF Start, Join, SipConnects, Dial, AcceptNbr
<1>2. /\ \A k \in Nodes : phase'[k] = "gone" <=> phase[k] = "gone"
      /\ \A k \in Nodes : sip'[k] = "gone" <=> sip[k] = "gone"
  <2>1. CASE UNCHANGED <<phase, sip>>
    BY <2>1
  <2>2. CASE (Start(n) \/ Join(n)) /\ UNCHANGED sip
    <3>1. PICK p \in {"setup", "up"} : phase' = [phase EXCEPT ![n] = p] /\ phase[n] # "gone"
      BY <2>2 DEF Start, Join
    <3>2. p # "gone" /\ phase \in [Nodes -> Phases]
      BY <3>1 DEF IInv, Processes
    <3> QED
      BY <2>2, <3>1, <3>2
  <2>3. CASE SipConnects(n)
    <3>1. sip' = [sip EXCEPT ![n] = "up"] /\ sip[n] # "gone" /\ phase' = phase
      BY <2>3 DEF SipConnects, setup
    <3>2. sip \in [Nodes -> {"none", "up", "gone"}]
      BY DEF IInv, Processes
    <3> QED
      BY <3>1, <3>2
  <2> QED
    BY <2>1, <2>2, <2>3 DEF Start, Join, Dial, AcceptNbr, setup
<1>3. Shut' = Shut
  <2>1. \A c \in Conns : c[2] \in Nodes
    BY ConnNodes
  <2> QED
    BY <1>2, <2>1 DEF Shut
<1> QED
  BY <1>1, <1>3, NoCall, NoPacket, NothingMoves

(* A listener reads.                                                       *)
LEMMA ListenerReadsKeepsF == ASSUME IInv, FInv, NEW l \in LinkConns, ListenerReads(l) PROVE FInv'
<1>1. PICK r \in Heard(l) :
        /\ Hears(l, r)
        /\ calls' = IF Done(r) /\ sip_conn[l[3]] THEN [calls EXCEPT ![l] = FrameOf(Got(l, r))]
                    ELSE calls
  BY DEF ListenerReads
<1>2. l \in Conns /\ Size(l) = PktLen /\ Dest(l) = Down(l[3]) /\ Size(Dest(l)) = PktLen /\ l \in Threads
  BY Connections, Kinds
<1>3. UNCHANGED mixed /\ UNCHANGED out /\ UNCHANGED <<phase, sip>> /\ calls[l] = <<>>
  BY DEF ListenerReads, setup
<1>4. CallsOK
  <2>1. CASE UNCHANGED calls
    BY <2>1, NoCall
  <2>2. CASE Done(r) /\ calls' = [calls EXCEPT ![l] = FrameOf(Got(l, r))]
    <3> DEFINE b == Got(l, r)
    <3>1. b \in Bodies(PktLen)
      BY <1>2, <2>2, GotBody
    <3> HIDE DEF b
    <3>2. Remains(FrameOf(b), Size(Dest(l))) /\ Whole(FrameOf(b)) /\ Whole(calls[l])
      BY <1>2, <1>3, <3>1, WholeIs, NoneWhole
    <3>3. calls'[l] = FrameOf(b) /\ \A t \in Threads \ {l} : calls'[t] = calls[t]
      BY <1>2, <2>2 DEF IInv, UnderWay, b
    <3> QED
      BY <3>2, <3>3 DEF CallsOK
  <2> QED
    BY <1>1, <2>1, <2>2
<1> QED
  BY <1>1, <1>2, <1>3, <1>4, ShutSame, NoPacket, HearsKeeps

(* A listener forwards: to a SIP process that is up one call goes out, to  *)
(* one that is gone nothing matters any more.                              *)
LEMMA ListenerForwardsKeepsF == ASSUME IInv, FInv, NEW l \in LinkConns, ListenerForwards(l) PROVE FInv'
<1>1. l \in Threads /\ l[3] \in Nodes /\ Dest(l) = Down(l[3]) /\ Down(l[3]) \in Conns
      /\ Down(l[3]) \notin LinkConns /\ Down(l[3])[2] = l[3] /\ Size(Dest(l)) \in Nat
  BY Connections, Kinds
<1>2. calls[l] # <<>> /\ UNCHANGED <<phase, sip, rx, out, wrong>>
  BY DEF ListenerForwards, setup
<1>3. Shut' = Shut /\ OutOK
  BY <1>2, ShutSame, NoPacket
<1>4. CASE sip[l[3]] = "up" /\ SendCall(l)
  <2>1. Dest(l) \notin Shut
    BY <1>1, <1>4 DEF Shut
  <2> QED
    BY <1>1, <1>2, <1>3, <1>4, <2>1, SendCallKeeps
<1>5. CASE sip[l[3]] = "gone" /\ UNCHANGED <<stream, owe, mixed>>
           /\ \E s \in {Tail(calls[l]), <<>>} : calls' = [calls EXCEPT ![l] = s]
  <2>1. Dest(l) \in Shut
    BY <1>1, <1>5 DEF Shut
  <2>2. Remains(calls[l], Size(Dest(l)))
    BY <1>1 DEF FInv
  <2>3. Remains(Tail(calls[l]), Size(Dest(l))) /\ Remains(<<>>, Size(Dest(l)))
    BY <1>1, <1>2, <2>2, RemainsTail, NoneWhole
  <2>4. Remains(calls'[l], Size(Dest(l))) /\ \A t \in Threads \ {l} : calls'[t] = calls[t]
    BY <1>1, <1>5, <2>3 DEF IInv, UnderWay
  <2>5. CallsOK
    BY <2>1, <2>4 DEF CallsOK
  <2> QED
    BY <1>2, <1>3, <1>5, <2>5, NothingMoves DEF history
<1> QED
  BY <1>4, <1>5 DEF ListenerForwards

(* A listener finds its neighbour gone.                                    *)
LEMMA ListenerEndsKeepsF == ASSUME IInv, FInv, NEW l \in LinkConns, ListenerEnds(l) PROVE FInv'
<1>1. UNCHANGED <<stream, rx, history>> /\ UNCHANGED calls /\ UNCHANGED out /\ UNCHANGED <<phase, sip>>
  BY DEF ListenerEnds, setup
<1> QED
  BY <1>1, NoCall, NoPacket, ShutSame, NothingMoves

(* waitSIP reads: without the next node a packet is left.                  *)
LEMMA WaitSIPReadsKeepsF == ASSUME IInv, FInv, NEW n \in Nodes, WaitSIPReads(n) PROVE FInv'
<1> DEFINE c == Up(n)
<1>1. PICK r \in Heard(c) :
        Hears(c, r) /\ \E to : /\ out' = IF Done(r) THEN [out EXCEPT ![n] = to] ELSE out
                              /\ to.pkt = Tail(Got(c, r))
  <2>1. PICK r \in Heard(c) :
          /\ Hears(c, r)
          /\ LET next == Head(Got(c, r))
                 all == next = BROADCAST_NODEID
             IN  out' = IF Done(r)
                        THEN [out EXCEPT ![n] = [pkt |-> Tail(Got(c, r)), all |-> all,
                                                 to |-> IF all THEN Nbrs(n) ELSE Nbrs(n) \cap {next}]]
                        ELSE out
    BY DEF WaitSIPReads
  <2> DEFINE next == Head(Got(c, r))
             all == next = BROADCAST_NODEID
             p == [pkt |-> Tail(Got(c, r)), all |-> all,
                   to |-> IF all THEN Nbrs(n) ELSE Nbrs(n) \cap {next}]
  <2>2. p.pkt = Tail(Got(c, r))
    OBVIOUS
  <2>3. out' = IF Done(r) THEN [out EXCEPT ![n] = p] ELSE out
    BY <2>1
  <2> HIDE DEF p, c
  <2> QED
    BY <2>1, <2>2, <2>3
<1>2. c \in Conns /\ Size(c) = PktLen + 1 /\ PktLen \in Nat
  BY Connections, Kinds
<1>3. UNCHANGED mixed /\ UNCHANGED calls /\ UNCHANGED <<phase, sip>>
  BY DEF WaitSIPReads, setup
<1> HIDE DEF c
<1>4. PICK to : /\ out' = IF Done(r) THEN [out EXCEPT ![n] = to] ELSE out
                /\ to.pkt = Tail(Got(c, r))
  BY <1>1
<1>5. OutOK
  <2>1. \A k \in Nodes : out[k].to # {} => out[k].pkt \in Bodies(PktLen)
    BY DEF FInv
  <2>2. CASE ~Done(r)
    <3>1. out' = out
      BY <1>4, <2>2
    <3> QED
      BY <3>1, NoPacket
  <2>3. CASE Done(r)
    <3>1. Got(c, r) \in Bodies(PktLen + 1)
      BY <1>2, <2>3, GotBody
    <3>2. to.pkt \in Bodies(PktLen)
      <4> DEFINE got == Got(c, r)
      <4>1. got \in Bodies(PktLen + 1) /\ to.pkt = Tail(got)
        BY <1>4, <3>1
      <4> HIDE DEF got
      <4> QED
        BY <1>2, <4>1, BodyTail
    <3>3. \A k \in Nodes : out'[k] = IF k = n THEN to ELSE out[k]
      BY <1>4, <2>3 DEF IInv, UnderWay
    <3> QED
      BY <2>1, <3>2, <3>3 DEF OutOK
  <2> QED
    BY <2>2, <2>3
<1> QED
  BY <1>1, <1>2, <1>3, <1>5, ShutSame, NoCall, HearsKeeps

(* SIP reads.                                                              *)
LEMMA SipReadsKeepsF == ASSUME IInv, FInv, NEW n \in Nodes, SipReads(n) PROVE FInv'
<1>1. PICK r \in Heard(Down(n)) : Hears(Down(n), r)
  BY DEF SipReads
<1>2. Down(n) \in Conns
  BY Connections
<1>3. UNCHANGED mixed /\ UNCHANGED calls /\ UNCHANGED out /\ UNCHANGED <<phase, sip>>
  BY DEF SipReads, setup
<1> QED
  BY <1>1, <1>2, <1>3, ShutSame, NoCall, NoPacket, HearsKeeps

(* SIP calls, unless it is gone.                                           *)
LEMMA SipCallsKeepsF == ASSUME IInv, FInv, NEW t \in SipThreads, SipCalls(t) PROVE FInv'
<1>1. t \in Threads /\ t[2] \in Nodes /\ Dest(t) = Up(t[2])
      /\ Up(t[2]) \notin LinkConns /\ Up(t[2])[2] = t[2]
  BY Connections, Kinds
<1>2. calls[t] # <<>> /\ SendCall(t) /\ sip[t[2]] = "up" /\ UNCHANGED <<phase, sip, rx, out, wrong>>
  BY DEF SipCalls, setup
<1>3. Dest(t) \notin Shut
  BY <1>1, <1>2 DEF Shut
<1> QED
  BY <1>1, <1>2, <1>3, ShutSame, SendCallKeeps

(* A thread of SIP begins a structure: the ID in front is no '!'.          *)
LEMMA SipSendsKeepsF ==
    ASSUME CleanPayloads, IInv, FInv, NEW n \in Nodes, SipSends(n)
    PROVE  FInv'
<1> DEFINE k == sent + 1
<1>1. k \in Nat /\ sent' = k /\ Payloads[k] \in Bodies(PktLen)
  <2>1. sent \in Nat /\ sent < Len(Payloads) /\ sent' = k
    BY DEF IInv, UnderWay, SipSends
  <2>2. k \in DOMAIN Payloads /\ k \in Nat
    BY <2>1, SonAssumption
  <2>3. Payloads[k] \in Seq(Nat) /\ Len(Payloads[k]) = PktLen
    BY <2>2, SonAssumption
  <2> QED
    BY <2>1, <2>2, <2>3 DEF CleanPayloads, Bodies
<1> HIDE DEF k
<1>2. Daemon(n) \in Threads /\ Sender(n) \in Threads /\ Daemon(n) \in SipThreads /\ Sender(n) \in SipThreads
      /\ Nbrs(n) \subseteq Nodes
  BY Connections, Neighbours DEF SipThreads
<1>3. PICK t \in SipThreads, m \in Nodes \cup {BROADCAST_NODEID} :
        calls[t] = <<>> /\ calls' = [calls EXCEPT ![t] = FrameOf(<<m>> \o Payloads[k])]
  BY <1>1, <1>2 DEF SipSends
<1>4. t \in Threads /\ Size(Dest(t)) = PktLen + 1 /\ PktLen \in Nat
  BY Connections, Kinds
<1> DEFINE b == <<m>> \o Payloads[k]
<1>5. b \in Bodies(PktLen + 1)
  <2>1. m \in Nat \ {33}
    BY SonAssumption
  <2> QED
    BY <1>1, <1>4, <2>1, BodyFront
<1>6. calls' = [calls EXCEPT ![t] = FrameOf(b)]
  BY <1>3
<1> HIDE DEF b
<1>7. Remains(FrameOf(b), Size(Dest(t))) /\ Whole(FrameOf(b)) /\ Whole(calls[t])
  BY <1>3, <1>4, <1>5, WholeIs, NoneWhole
<1>8. calls'[t] = FrameOf(b) /\ \A u \in Threads \ {t} : calls'[u] = calls[u]
  BY <1>4, <1>6 DEF IInv, UnderWay
<1>9. CallsOK
  BY <1>7, <1>8 DEF CallsOK
<1>10. UNCHANGED <<stream, rx, history>> /\ UNCHANGED out /\ UNCHANGED <<phase, sip>>
  BY DEF SipSends, setup
<1> QED
  BY <1>9, <1>10, ShutSame, NoPacket, NothingMoves

(* The packet goes to one neighbour, as a whole frame, unless that         *)
(* neighbour has ended.                                                    *)
LEMMA SendToKeepsF == ASSUME IInv, FInv, NEW n \in Nodes, NEW m \in Nbrs(n), SendTo(n, m) PROVE FInv'
<1> DEFINE l == Link(n, m)
           b == out[n].pkt
           p == [out[n] EXCEPT !.to = @ \ {m}]
<1>1. l \in LinkConns /\ l \in Conns /\ l[2] = n /\ Size(l) = PktLen /\ m \in Nodes
  <2>1. l \in LinkConns /\ m \in Nodes
    BY Connections, Neighbours
  <2>2. l[2] = n
    BY DEF Link
  <2> HIDE DEF l
  <2> QED
    BY <2>1, <2>2, Connections, Kinds
<1>2. /\ UNCHANGED <<rx, wrong, mixed>> /\ UNCHANGED calls /\ UNCHANGED <<phase, sip>>
      /\ phase[n] = "up" /\ out[n].to # {}
  BY DEF SendTo, setup
<1>3. b \in Bodies(PktLen) /\ b \in Seq(Nat)
  BY <1>2 DEF FInv, Bodies
<1>4. OutOK
  <2>1. \A k \in Nodes : out[k].to # {} => out[k].pkt \in Bodies(PktLen)
    BY DEF FInv
  <2>2. out' = [out EXCEPT ![n] = IF out[n].to = {m} THEN Nothing ELSE p]
    BY DEF SendTo
  <2>3. p.pkt = b
    BY DEF IInv, UnderWay, Packet
  <2>4. Nothing.to = {}
    BY DEF Nothing
  <2> HIDE DEF p, b
  <2>5. \A k \in Nodes : out'[k] = IF k # n THEN out[k] ELSE IF out[n].to = {m} THEN Nothing ELSE p
    BY <2>2 DEF IInv, UnderWay
  <2> QED
    BY <1>3, <2>1, <2>3, <2>4, <2>5 DEF OutOK
<1>5. Shut' = Shut /\ CallsOK
  BY <1>2, ShutSame, NoCall
<1>6. CASE UNCHANGED <<stream, owe>>
  BY <1>2, <1>4, <1>5, <1>6, NothingMoves DEF history
<1>7. CASE /\ stream' = [stream EXCEPT ![l] = @ \o Framed(b)]
           /\ owe' = [owe EXCEPT ![l] = Append(@, b)]
  <2> DEFINE s == stream[l]
             ow == owe[l]
  <2>1. /\ stream \in [Conns -> Seq(Nat)] /\ owe \in [Conns -> Seq(Seq(Nat))]
        /\ s \in Seq(Nat) /\ ow \in Seq(Bodies(Size(l))) /\ ow \in Seq(Seq(Nat))
        /\ Flow(s, rx[l], ow, calls, l, Shut, mixed)
    BY <1>1 DEF IInv, UnderWay, FInv
  <2>2. b \in Bodies(Size(l))
    BY <1>1, <1>3
  <2>3. l \notin Shut
    BY <1>1, <1>2 DEF Shut
  <2> HIDE DEF s, ow, b, l
  <2>4. Flow(s \o Framed(b), rx[l], Append(ow, b), calls, l, Shut, mixed)
    BY <1>1, <2>1, <2>2, <2>3, FlowPut
  <2>5. Append(ow, b) \in Seq(Bodies(Size(l))) /\ Append(ow, b) \in Seq(Seq(Nat))
    BY <1>3, <2>1, <2>2
  <2>6. /\ stream'[l] = s \o Framed(b) /\ owe'[l] = Append(ow, b)
        /\ \A d \in Conns \ {l} : stream'[d] = stream[d] /\ owe'[d] = owe[d]
    BY <1>1, <1>7, <2>1 DEF s, ow
  <2>7. owe' = [owe EXCEPT ![l] = Append(ow, b)]
    BY <1>7 DEF ow
  <2>8. owe' \in [Conns -> Seq(Seq(Nat))] /\ \A d \in Conns : owe'[d] \in Seq(Bodies(Size(d)))
    <3>1. \A d \in Conns : owe[d] \in Seq(Bodies(Size(d)))
      BY DEF FInv
    <3> QED
      BY <2>1, <2>5, <2>6, <2>7, <3>1
  <2>9. ASSUME NEW d \in Conns
        PROVE  Flow(stream'[d], rx'[d], owe'[d], calls', d, Shut', mixed')
    <3>1. CASE d = l
      BY <1>2, <1>5, <2>4, <2>6, <3>1
    <3>2. CASE d # l
      <4>1. Flow(stream[d], rx[d], owe[d], calls', d, Shut', mixed')
        BY <1>2, <1>5, FlowKept
      <4> QED
        BY <1>2, <2>6, <3>2, <4>1
    <3> QED
      BY <3>1, <3>2
  <2>10. \A t \in Threads : Remains(calls'[t], Size(Dest(t)))
    BY <1>5, RemainsKept
  <2>11. \A k \in Nodes : out'[k].to # {} => out'[k].pkt \in Bodies(PktLen)
    BY <1>4 DEF OutOK
  <2>12. \A d \in Conns : Neat(rx'[d], Size(d))
    BY <1>2 DEF FInv
  <2>13. wrong' \subseteq mixed' /\ mixed' \cap LinkConns = {}
    BY <1>2 DEF FInv
  <2> QED
    BY <2>8, <2>9, <2>10, <2>11, <2>12, <2>13 DEF FInv
<1> QED
  BY <1>6, <1>7 DEF SendTo

(* A connection all of whose bytes are gone.                               *)
LEMMA FlowShut ==
    ASSUME NEW q, NEW cs, NEW c, NEW shut, NEW mix, c \in shut
    PROVE  Flow(<<>>, q, <<>>, cs, c, shut, mix)
  BY DEF Flow

(* And one with a new receiver, and no thread at its calls.                *)
LEMMA FlowNew ==
    ASSUME NEW cs, NEW c \in Conns, NEW shut, NEW mix,
           \A t \in Threads : Dest(t) = c => cs[t] = <<>>
    PROVE  Flow(<<>>, Receiver, <<>>, cs, c, shut, mix)
<1>1. Midway(cs, c) = {}
  <2>1. Len(<<>>) \notin {1, 2}
    OBVIOUS
  <2> QED
    BY <2>1 DEF Midway
<1>2. Pending(cs, c, <<>>) /\ <<>> \in Seq(Nat)
  BY <1>1 DEF Pending
<1>3. Fits(<<>>, Receiver, <<>>, <<>>, Size(c))
  BY Kinds, FitsNew
<1> QED
  BY <1>2, <1>3 DEF Flow

(* A SON process ends: what comes to it is gone, with those that were      *)
(* sending it; of what it has sent all or nothing may be gone.             *)
LEMMA GoneKeepsF == ASSUME IInv, FInv, NEW n \in Nodes, Gone(n) PROVE FInv'
<1> DEFINE into == {c \in Conns : c[3] = n}
<1>1. PICK lost \in SUBSET {c \in LinkConns : c[2] = n} :
        /\ stream' = [c \in Conns |-> IF c \in into \cup lost THEN <<>> ELSE stream[c]]
        /\ owe' = [c \in Conns |-> IF c \in into \cup lost THEN <<>> ELSE owe[c]]
  BY DEF Gone
<1>2. /\ phase' = [phase EXCEPT ![n] = "gone"]
      /\ calls' = [t \in Threads |-> IF Dest(t)[3] = n THEN <<>> ELSE calls[t]]
      /\ out' = [out EXCEPT ![n] = Nothing]
      /\ rx' = [c \in Conns |-> IF c \in into THEN Receiver ELSE rx[c]]
      /\ UNCHANGED <<sip, wrong, mixed>>
  BY DEF Gone
<1>3. phase \in [Nodes -> Phases]
  BY DEF IInv, Processes
<1>4. Shut \subseteq Shut' /\ lost \subseteq Shut'
  <2>1. \A k \in Nodes : phase'[k] = IF k = n THEN "gone" ELSE phase[k]
    BY <1>2, <1>3
  <2>2. lost \subseteq LinkConns /\ \A c \in lost : c \in Conns /\ c[2] = n
    BY <1>1, Connections
  <2> QED
    BY <1>2, <2>1, <2>2, ConnNodes DEF Shut
<1>5. <<>> \in Seq(Seq(Nat)) /\ \A size : <<>> \in Seq(Bodies(size))
  OBVIOUS
<1>6. owe' \in [Conns -> Seq(Seq(Nat))] /\ \A c \in Conns : owe'[c] \in Seq(Bodies(Size(c)))
  <2>1. owe \in [Conns -> Seq(Seq(Nat))] /\ \A c \in Conns : owe[c] \in Seq(Bodies(Size(c)))
    BY DEF FInv
  <2> QED
    BY <1>1, <1>5, <2>1
<1>7. \A c \in Conns : Neat(rx'[c], Size(c))
  <2>1. \A c \in Conns : Neat(rx[c], Size(c)) /\ Neat(Receiver, Size(c))
    BY Kinds, NeatReceiver DEF FInv
  <2>2. \A c \in Conns : rx'[c] = rx[c] \/ rx'[c] = Receiver
    BY <1>2
  <2> QED
    BY <2>1, <2>2
<1>8. \A k \in Nodes : out'[k].to # {} => out'[k].pkt \in Bodies(PktLen)
  <2>1. \A k \in Nodes : out'[k] = IF k = n THEN Nothing ELSE out[k]
    BY <1>2 DEF IInv, UnderWay
  <2>2. Nothing.to = {}
    BY DEF Nothing
  <2> QED
    BY <2>1, <2>2 DEF FInv
<1>9. \A t \in Threads : calls'[t] = IF Dest(t)[3] = n THEN <<>> ELSE calls[t]
  BY <1>2
<1>10. \A t \in Threads : Remains(calls'[t], Size(Dest(t)))
  BY <1>9, NoneWhole DEF FInv
<1>11. wrong' \subseteq mixed' /\ mixed' \cap LinkConns = {}
  BY <1>2 DEF FInv
<1>12. ASSUME NEW c \in Conns
       PROVE  Flow(stream'[c], rx'[c], owe'[c], calls', c, Shut', mixed')
  <2> DEFINE cs2 == calls'
             sh2 == Shut'
             mx2 == mixed'
  <2>1. CASE c \in into
    <3>1. stream'[c] = <<>> /\ rx'[c] = Receiver /\ owe'[c] = <<>>
      BY <1>1, <1>2, <2>1
    <3>2. \A t \in Threads : Dest(t) = c => cs2[t] = <<>>
      BY <1>9, <2>1
    <3> HIDE DEF cs2, sh2, mx2
    <3>3. Flow(<<>>, Receiver, <<>>, cs2, c, sh2, mx2)
      BY <3>2, FlowNew
    <3> QED
      BY <3>1, <3>3 DEF cs2, sh2, mx2
  <2>2. CASE c \notin into /\ c \in lost
    <3>1. stream'[c] = <<>> /\ owe'[c] = <<>> /\ c \in sh2
      BY <1>1, <1>4, <2>2
    <3> DEFINE q == rx'[c]
    <3> HIDE DEF cs2, sh2, mx2, q
    <3>2. Flow(<<>>, q, <<>>, cs2, c, sh2, mx2)
      BY <3>1, FlowShut
    <3> QED
      BY <3>1, <3>2 DEF cs2, sh2, mx2, q
  <2>3. CASE c \notin into /\ c \notin lost
    <3>1. stream'[c] = stream[c] /\ rx'[c] = rx[c] /\ owe'[c] = owe[c] /\ mx2 = mixed
      BY <1>1, <1>2, <2>3
    <3>2. \A t \in Threads : Dest(t) = c => cs2[t] = calls[t]
      BY <1>9, <2>3
    <3>3. c \in Shut => c \in sh2
      BY <1>4
    <3>4. Flow(stream[c], rx[c], owe[c], calls, c, Shut, mixed)
      BY DEF FInv
    <3> HIDE DEF cs2, sh2, mx2
    <3>5. Flow(stream[c], rx[c], owe[c], cs2, c, sh2, mx2)
      BY <3>1, <3>2, <3>3, <3>4, FlowSame
    <3> QED
      BY <3>1, <3>5 DEF cs2, sh2, mx2
  <2> QED
    BY <2>1, <2>2, <2>3
<1> QED
  BY <1>6, <1>7, <1>8, <1>10, <1>11, <1>12 DEF FInv

(* A SIP process ends: what comes to it is gone, and its threads.          *)
LEMMA SipEndsKeepsF == ASSUME IInv, FInv, NEW n \in Nodes, SipEnds(n) PROVE FInv'
<1> DEFINE d == Down(n)
<1>1. /\ sip' = [sip EXCEPT ![n] = "gone"]
      /\ calls' = [t \in Threads |-> IF t \in SipThreads /\ t[2] = n THEN <<>> ELSE calls[t]]
      /\ stream' = [stream EXCEPT ![d] = <<>>]
      /\ owe' = [owe EXCEPT ![d] = <<>>]
      /\ UNCHANGED <<phase, rx, wrong, mixed>> /\ UNCHANGED out
  BY DEF SipEnds, setup
<1>2. sip \in [Nodes -> {"none", "up", "gone"}]
  BY DEF IInv, Processes
<1>3. d \in Conns /\ d \notin LinkConns /\ d[2] = n
      /\ Up(n) \in Conns /\ Up(n) \notin LinkConns /\ Up(n)[2] = n
  BY Connections, Kinds
<1>4. Shut \subseteq Shut' /\ d \in Shut' /\ Up(n) \in Shut'
  <2>1. \A k \in Nodes : sip'[k] = IF k = n THEN "gone" ELSE sip[k]
    BY <1>1, <1>2
  <2> QED
    BY <1>1, <1>3, <2>1, ConnNodes DEF Shut
<1>5. <<>> \in Seq(Seq(Nat)) /\ \A size : <<>> \in Seq(Bodies(size))
  OBVIOUS
<1> HIDE DEF d
<1>6. /\ stream'[d] = <<>> /\ owe'[d] = <<>>
      /\ \A c \in Conns \ {d} : stream'[c] = stream[c] /\ owe'[c] = owe[c]
  BY <1>1, <1>3 DEF IInv, UnderWay, FInv
<1>7. owe' \in [Conns -> Seq(Seq(Nat))] /\ \A c \in Conns : owe'[c] \in Seq(Bodies(Size(c)))
  <2>1. owe \in [Conns -> Seq(Seq(Nat))] /\ \A c \in Conns : owe[c] \in Seq(Bodies(Size(c)))
    BY DEF FInv
  <2> QED
    BY <1>1, <1>5, <1>6, <2>1
<1>8. \A t \in Threads : calls'[t] = IF t \in SipThreads /\ t[2] = n THEN <<>> ELSE calls[t]
  BY <1>1
<1>9. \A t \in Threads : Remains(calls'[t], Size(Dest(t)))
  BY <1>8, NoneWhole DEF FInv
<1>10. ASSUME NEW c \in Conns
       PROVE  Flow(stream'[c], rx'[c], owe'[c], calls', c, Shut', mixed')
  <2> DEFINE cs2 == calls'
             sh2 == Shut'
             mx2 == mixed'
             q == rx'[c]
  <2>1. CASE c = d
    <3>1. c \in sh2
      BY <1>4, <2>1
    <3> HIDE DEF cs2, sh2, mx2, q
    <3>2. Flow(<<>>, q, <<>>, cs2, c, sh2, mx2)
      BY <3>1, FlowShut
    <3> QED
      BY <1>6, <2>1, <3>2 DEF cs2, sh2, mx2, q
  <2>2. CASE c # d
    <3>1. stream'[c] = stream[c] /\ rx'[c] = rx[c] /\ owe'[c] = owe[c] /\ mx2 = mixed
      BY <1>1, <1>6, <2>2
    <3>2. c \in sh2 \/ \A t \in Threads : Dest(t) = c => cs2[t] = calls[t]
      BY <1>4, <1>8, Kinds
    <3>3. c \in Shut => c \in sh2
      BY <1>4
    <3>4. Flow(stream[c], rx[c], owe[c], calls, c, Shut, mixed)
      BY DEF FInv
    <3> HIDE DEF cs2, sh2, mx2
    <3>5. Flow(stream[c], rx[c], owe[c], cs2, c, sh2, mx2)
      BY <3>1, <3>2, <3>3, <3>4, FlowSame
    <3> QED
      BY <3>1, <3>5 DEF cs2, sh2, mx2
  <2> QED
    BY <2>1, <2>2
<1>11. /\ \A c \in Conns : Neat(rx'[c], Size(c))
       /\ \A k \in Nodes : out'[k].to # {} => out'[k].pkt \in Bodies(PktLen)
       /\ wrong' \subseteq mixed' /\ mixed' \cap LinkConns = {}
  BY <1>1 DEF FInv
<1> QED
  BY <1>7, <1>9, <1>10, <1>11 DEF FInv

(* Initially nothing is on any connection.                                 *)
LEMMA InitFInv == Init => FInv
<1> SUFFICES ASSUME Init
             PROVE  FInv
  OBVIOUS
<1>1. /\ stream = [c \in Conns |-> <<>>] /\ rx = [c \in Conns |-> Receiver]
      /\ calls = [t \in Threads |-> <<>>] /\ out = [n \in Nodes |-> Nothing]
      /\ owe = [c \in Conns |-> <<>>] /\ wrong = {} /\ mixed = {}
  BY DEF Init
<1>2. <<>> \in Seq(Seq(Nat)) /\ \A size : <<>> \in Seq(Bodies(size))
  OBVIOUS
<1>3. /\ owe \in [Conns -> Seq(Seq(Nat))] /\ \A c \in Conns : owe[c] \in Seq(Bodies(Size(c)))
      /\ \A n \in Nodes : out[n].to = {}
  BY <1>1, <1>2 DEF Nothing
<1>4. \A t \in Threads : calls[t] = <<>> /\ Remains(calls[t], Size(Dest(t)))
  BY <1>1, NoneWhole
<1>5. ASSUME NEW c \in Conns
      PROVE  Neat(rx[c], Size(c)) /\ Flow(stream[c], rx[c], owe[c], calls, c, Shut, mixed)
  <2>1. stream[c] = <<>> /\ rx[c] = Receiver /\ owe[c] = <<>>
    BY <1>1
  <2>2. Neat(Receiver, Size(c))
    BY Kinds, NeatReceiver
  <2>3. Flow(<<>>, Receiver, <<>>, calls, c, Shut, mixed)
    BY <1>4, FlowNew
  <2> QED
    BY <2>1, <2>2, <2>3
<1> QED
  BY <1>1, <1>3, <1>4, <1>5 DEF FInv

(* Every step keeps it.                                                    *)
LEMMA NextFInv == ASSUME CleanPayloads PROVE IInv /\ FInv /\ [Next]_vars => FInv'
<1> SUFFICES ASSUME IInv, FInv, [Next]_vars
             PROVE  FInv'
  OBVIOUS
<1>1. ASSUME NEW n \in Nodes, \/ Start(n) \/ Join(n) \/ SipConnects(n)
                              \/ \E m \in Nbrs(n) : Dial(n, m) \/ AcceptNbr(n, m)
      PROVE  FInv'
  BY <1>1, SetUpKeepsF
<1>2. ASSUME NEW n \in Nodes, WaitSIP(n)
      PROVE  FInv'
  BY <1>2, WaitSIPReadsKeepsF, SendToKeepsF, GoneKeepsF DEF WaitSIP, WaitSIPReturns
<1>3. ASSUME NEW n \in Nodes, Killed(n)
      PROVE  FInv'
  BY <1>3, GoneKeepsF DEF Killed
<1>4. ASSUME NEW n \in Nodes, SipSends(n) \/ SipReads(n) \/ SipEnds(n)
      PROVE  FInv'
  BY <1>4, SipSendsKeepsF, SipReadsKeepsF, SipEndsKeepsF
<1>5. ASSUME NEW l \in LinkConns, Listener(l)
      PROVE  FInv'
  BY <1>5, ListenerReadsKeepsF, ListenerForwardsKeepsF, ListenerEndsKeepsF DEF Listener
<1>6. ASSUME NEW t \in SipThreads, SipCalls(t)
      PROVE  FInv'
  BY <1>6, SipCallsKeepsF
<1>7. CASE UNCHANGED vars
  <2>1. UNCHANGED <<stream, rx, history>> /\ UNCHANGED calls /\ UNCHANGED out /\ UNCHANGED <<phase, sip>>
    BY <1>7 DEF vars, setup
  <2> QED
    BY <2>1, ShutSame, NoCall, NoPacket, NothingMoves
<1> QED
  BY <1>1, <1>2, <1>3, <1>4, <1>5, <1>6, <1>7 DEF Next

-----------------------------------------------------------------------------
(* The theorems.                                                           *)

(* The invariant holds always.                                             *)
THEOREM Invariant == Spec => []IInv
  BY InitInv, NextInv, PTL DEF Spec

(* What belongs to a SON process lives and ends with it: only neighbours   *)
(* are in nt, SIP is connected and listeners run only in waitSIP, and a    *)
(* receiver never stops at the end of a structure (son.c, pkt.c).          *)
THEOREM TypeCorrect == Spec => []TypeOK
<1>1. IInv => TypeOK
  <2> SUFFICES ASSUME IInv
               PROVE  TypeOK
    OBVIOUS
  <2>1. ASSUME NEW n \in Nodes
        PROVE  /\ phase[n] \in {"off", "setup", "up", "gone"} /\ sip[n] \in {"none", "up", "gone"}
               /\ sip_conn[n] => phase[n] = "up" /\ sip[n] # "none"
    BY DEF IInv, Processes, Phases
  <2>2. ASSUME NEW n \in Nodes
        PROVE  /\ conn[n] \subseteq Nbrs(n) /\ dial[n] \subseteq Small(n)
               /\ backlog[n] \cup accepted[n] \subseteq Big(n)
    BY DEF IInv, SetUp, Connected
  <2>3. \A n \in Nodes : out[n].to \subseteq Nbrs(n)
    BY DEF IInv, UnderWay
  <2>4. ASSUME NEW c \in Conns
        PROVE  rx[c].st \in {"PKTSTART1", "PKTSTART2", "PKTRECV", "PKTSTOP1", "smashed"}
    <3>1. rx[c] \in Rx /\ rx[c].st # "done"
      BY DEF IInv, UnderWay
    <3> QED
      BY <3>1 DEF Rx, States
  <2>5. \A l \in LinkConns : listen[l] = "on" => phase[l[3]] = "up"
    BY DEF IInv, Processes
  <2> QED
    BY <2>1, <2>2, <2>3, <2>4, <2>5 DEF TypeOK
<1> QED
  BY <1>1, Invariant, PTL

(* A node in waitSIP of which no neighbour has ended has a connection to   *)
(* each of them: those it dialled and those it accepted together (son.c).  *)
THEOREM ConnTruthCorrect == Spec => []ConnTruth
<1>1. IInv => ConnTruth
  BY DEF IInv, SetUp, Connected, ConnTruth, Quiet
<1> QED
  BY <1>1, Invariant, PTL

(* The automaton of pkt.c finds the frame of a content that may be sent,   *)
(* whatever follows it, and leaves just what follows.                      *)
THEOREM FrameFound ==
    ASSUME NEW size \in Nat, NEW b \in Bodies(size), NEW more \in Seq(Nat),
           NEW q \in Reads(Receiver, Framed(b) \o more, size)
    PROVE  q.st = "done" /\ Structure(q, size) = b /\ q.rest = more
<1> DEFINE f == Framed(b)
           bytes == f \o more
<1>1. b \in Seq(Nat) /\ Len(b) = size
  BY DEF Bodies
<1>2. f \in Seq(Nat) /\ Len(f) = size + 4 /\ \A j \in 1 .. size + 4 : f[j] = At(b, j)
  BY <1>1, FrameType, FrameAt
<1> HIDE DEF f
<1>3. Joins(f, more, bytes)
  BY <1>2, Concat
<1>4. q \in Reads(Receiver, bytes, size)
  BY DEF f
<1> HIDE DEF bytes
<1>5. /\ bytes \in Seq(Nat) /\ Len(bytes) = (size + 4) + Len(more) /\ Len(more) \in Nat
      /\ \A i \in 1 .. size + 4 : bytes[i] = At(b, i)
      /\ \A j \in 1 .. Len(more) : bytes[(size + 4) + j] = more[j]
  BY <1>2, <1>3 DEF Joins
<1>6. Receiver \in Rx /\ IsAt(Receiver, b, 0) /\ 0 \in 0 .. size + 3
  BY ReceiverIs DEF IsAt, Receiver
<1>7. \A i \in 1 .. Len(bytes) : i <= size + 4 - 0 => bytes[i] = At(b, 0 + i)
  <2>1. ASSUME NEW i \in 1 .. Len(bytes), i <= size + 4 - 0
        PROVE  bytes[i] = At(b, 0 + i)
    <3>1. i \in 1 .. size + 4 /\ 0 + i = i
      BY <1>5, <2>1
    <3> QED
      BY <1>5, <3>1
  <2> QED
    BY <2>1
<1>8. Came(q, bytes, b, 0, size)
  BY <1>4, <1>5, <1>6, <1>7, FrameRead
<1>9. ~(0 + Len(bytes) < size + 4)
  BY <1>5
<1>10. q.st = "done" /\ Structure(q, size) = b /\ Left(bytes, q.rest, size + 4 - 0)
  BY <1>8, <1>9 DEF Came
<1>11. q \in Rx
  BY <1>4, <1>5, <1>6, ReadsType
<1>12. q.rest = more
  <2> DEFINE r == q.rest
             k == size + 4
  <2>1. r \in Seq(Nat) /\ Left(bytes, r, k) /\ k \in Nat
    BY <1>10, <1>11 DEF Rx
  <2>2. Len(bytes) = k + Len(more) /\ \A j \in 1 .. Len(more) : bytes[k + j] = more[j]
    BY <1>5
  <2> HIDE DEF r, k
  <2>3. Len(r) = Len(more) /\ \A j \in 1 .. Len(r) : r[j] = more[j]
    BY <1>5, <2>1, <2>2 DEF Left
  <2>4. r = more
    BY <2>1, <2>3, SeqEqual
  <2> QED
    BY <2>4 DEF r
<1> QED
  BY <1>10, <1>12

(* Whatever bytes arrive, what the automaton finds holds no closing        *)
(* delimiter: no mix of two frames makes a listener pass one on.           *)
THEOREM FoundIsClean ==
    ASSUME NEW size \in Nat, NEW bytes \in Seq(Nat), NEW q \in Reads(Receiver, bytes, size),
           q.st = "done"
    PROVE  Structure(q, size) \in Bodies(size)
<1>1. Receiver \in Rx /\ Neat(Receiver, size)
  BY ReceiverIs, NeatReceiver
<1>2. q \in Rx /\ Neat(q, size)
  BY <1>1, NeatRead
<1> QED
  BY <1>2, NeatStructure

(* What comes out of a connection is what was put on it, whole and in      *)
(* order (pkt.c), unless two threads were at their calls at once; on the   *)
(* connections between nodes without exception.  The payloads hold no      *)
(* closing delimiter, which pkt.c does not escape.                         *)
THEOREM FramesWholeCorrect == ASSUME CleanPayloads PROVE Spec => []FramesWhole
<1>1. Init => IInv /\ FInv
  BY InitInv, InitFInv
<1>2. IInv /\ FInv /\ [Next]_vars => (IInv /\ FInv)'
  BY NextInv, NextFInv
<1>3. IInv /\ FInv => FramesWhole
  BY DEF FInv, FramesWhole
<1> QED
  BY <1>1, <1>2, <1>3, PTL DEF Spec
=============================================================================
