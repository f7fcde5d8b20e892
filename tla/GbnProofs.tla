----------------------------- MODULE GbnProofs -----------------------------
(***************************************************************************)
(* Theorems about Gbn, for every window, every modulus the assumptions     *)
(* allow, every number of segments and every capacity of the network,      *)
(* whether segments overtake each other or not.                            *)
(***************************************************************************)
EXTENDS Gbn, Integers, TLAPS, FiniteSetTheorems, SequenceTheorems

-----------------------------------------------------------------------------
(* Sequence numbers.                                                       *)

(* The k-th number stcp_send gives out.                                    *)
Num(k) == k % MAX_SEQNUM

(* The segment with the d-th payload of the stream.                        *)
Seg(d) == [seq |-> Num(d - 1), data |-> d]

(* The fields of a segment of the stream.                                  *)
LEMMA SegFields ==
    ASSUME NEW d
    PROVE  Seg(d).seq = Num(d - 1) /\ Seg(d).data = d
  BY DEF Seg

(* Multiples of M are at least M apart.                                    *)
LEMMA MultiplesApart ==
    ASSUME NEW M \in Nat, NEW a \in Nat, NEW b \in Nat, a < b
    PROVE  M * a + M =< M * b
<1> DEFINE k == b - a - 1
<1>1. k \in Nat /\ b = a + 1 + k
  OBVIOUS
<1>2. M * k \in Nat
  BY <1>1
<1>3. M * (a + 1 + k) = M * a + M + M * k
  BY <1>1
<1> QED
  BY <1>1, <1>2, <1>3

(* Division with remainder.                                                *)
LEMMA Division ==
    ASSUME NEW M \in Nat \ {0}, NEW x \in Nat
    PROVE  /\ x % M \in 0 .. M - 1
           /\ x \div M \in Nat
           /\ x = M * (x \div M) + (x % M)
  OBVIOUS

(* Quotient and remainder are determined.                                  *)
LEMMA DivisionUnique ==
    ASSUME NEW M \in Nat \ {0}, NEW q \in Nat, NEW p \in Nat,
           NEW r \in 0 .. M - 1, NEW s \in 0 .. M - 1,
           M * q + r = M * p + s
    PROVE  q = p /\ r = s
<1>1. M * p \in Nat /\ M * q \in Nat
  OBVIOUS
<1>2. ~(q < p)
  BY <1>1, MultiplesApart
<1>3. ~(p < q)
  BY <1>1, MultiplesApart
<1> QED
  BY <1>1, <1>2, <1>3

(* The numbers given out are sequence numbers, and stcp_send and the DATA  *)
(* branch go from each to the next.                                        *)
LEMMA NumFollowing ==
    ASSUME NEW k \in Nat
    PROVE  /\ Num(k) \in SeqNum
           /\ Following(Num(k)) = Num(k + 1)
<1> DEFINE M == MAX_SEQNUM
           q == k \div M
           r == k % M
           p == (k + 1) \div M
           s == (k + 1) % M
<1>1. M \in Nat \ {0} /\ M > 1
  BY GbnAssumption
<1>2. q \in Nat /\ r \in 0 .. M - 1 /\ k = M * q + r
  BY <1>1, Division
<1>3. k + 1 \in Nat
  OBVIOUS
<1>4. p \in Nat /\ s \in 0 .. M - 1 /\ k + 1 = M * p + s
  BY <1>1, <1>3, Division
<1>5. M * (q + 1) = M * q + M /\ M * q \in Nat /\ M * p \in Nat
  BY <1>1, <1>2, <1>4
<1>6. (r + 1) % M = s
  <2>1. CASE r + 1 < M
    <3>1. s = r + 1
      <4> HIDE DEF q, p, r, s
      <4> QED BY <1>1, <1>2, <1>4, <1>5, <2>1, DivisionUnique
    <3>2. (r + 1) % M = r + 1
      BY <1>1, <1>2, <2>1
    <3> QED BY <3>1, <3>2
  <2>2. CASE r + 1 = M
    <3>1. s = 0
      <4> HIDE DEF q, p, r, s
      <4> QED BY <1>1, <1>2, <1>4, <1>5, <2>2, DivisionUnique
    <3>2. (r + 1) % M = 0
      BY <1>1, <2>2
    <3> QED BY <3>1, <3>2
  <2> QED
    BY <1>1, <1>2, <2>1, <2>2
<1> QED
  BY <1>2, <1>6 DEF Num, Following, SeqNum

(* Numbers given out less than MAX_SEQNUM sends apart differ.              *)
LEMMA NumInjective ==
    ASSUME NEW j \in Nat, NEW k \in Nat, Num(j) = Num(k),
           j - k < MAX_SEQNUM, k - j < MAX_SEQNUM
    PROVE  j = k
<1> DEFINE M == MAX_SEQNUM
           q == j \div M
           p == k \div M
           r == j % M
<1>1. M \in Nat \ {0}
  BY GbnAssumption
<1>2. /\ q \in Nat /\ p \in Nat /\ r \in 0 .. M - 1
      /\ j = M * q + r /\ k = M * p + r
  BY <1>1, Division DEF Num
<1>3. M * q \in Nat /\ M * p \in Nat
  BY <1>1, <1>2
<1> HIDE DEF q, p, r
<1>4. ~(q < p) /\ ~(p < q)
  BY <1>1, <1>2, <1>3, MultiplesApart
<1> QED
  BY <1>2, <1>3, <1>4

-----------------------------------------------------------------------------
(* Channels and buffers.                                                   *)

(* What comes out of a channel into which segments have been put was in    *)
(* it or is one of them, and they are behind what was in it.               *)
LEMMA CarryElements ==
    ASSUME NEW T, NEW chan \in Seq(T), NEW segs \in Seq(T)
    PROVE  /\ Carry(chan, segs) \in Seq(T)
           /\ \A i \in DOMAIN Carry(chan, segs) :
                 \/ i \in DOMAIN chan /\ Carry(chan, segs)[i] = chan[i]
                 \/ /\ i > Len(chan)
                    /\ i - Len(chan) \in DOMAIN segs
                    /\ Carry(chan, segs)[i] = segs[i - Len(chan)]
<1> DEFINE both == chan \o segs
           n == IF Len(both) < MaxInFlight THEN Len(both) ELSE MaxInFlight
<1>1. both \in Seq(T) /\ Len(both) = Len(chan) + Len(segs)
  OBVIOUS
<1>2. n \in 0 .. Len(both)
  BY <1>1, GbnAssumption
<1>3. \A i \in DOMAIN both :
         both[i] = IF i =< Len(chan) THEN chan[i] ELSE segs[i - Len(chan)]
  OBVIOUS
<1>4. Carry(chan, segs) = SubSeq(both, 1, n)
  BY DEF Carry
<1> HIDE DEF both, n
<1>5. /\ SubSeq(both, 1, n) \in Seq(T)
      /\ Len(SubSeq(both, 1, n)) = n
      /\ \A i \in 1 .. n : SubSeq(both, 1, n)[i] = both[i]
  BY <1>1, <1>2
<1> QED
  BY <1>1, <1>2, <1>3, <1>4, <1>5

(* The same for a single segment.                                          *)
LEMMA CarryOne ==
    ASSUME NEW T, NEW chan \in Seq(T), NEW seg \in T
    PROVE  /\ Carry(chan, <<seg>>) \in Seq(T)
           /\ \A i \in DOMAIN Carry(chan, <<seg>>) :
                 \/ i \in DOMAIN chan /\ Carry(chan, <<seg>>)[i] = chan[i]
                 \/ i > Len(chan) /\ Carry(chan, <<seg>>)[i] = seg
<1> DEFINE segs == <<seg>>
<1>1. segs \in Seq(T) /\ DOMAIN segs = {1} /\ segs[1] = seg
  OBVIOUS
<1> HIDE DEF segs
<1>2. /\ Carry(chan, segs) \in Seq(T)
      /\ \A i \in DOMAIN Carry(chan, segs) :
            \/ i \in DOMAIN chan /\ Carry(chan, segs)[i] = chan[i]
            \/ /\ i > Len(chan)
               /\ i - Len(chan) \in DOMAIN segs
               /\ Carry(chan, segs)[i] = segs[i - Len(chan)]
  BY <1>1, CarryElements
<1>3. /\ Carry(chan, segs) \in Seq(T)
      /\ \A i \in DOMAIN Carry(chan, segs) :
            \/ i \in DOMAIN chan /\ Carry(chan, segs)[i] = chan[i]
            \/ i > Len(chan) /\ Carry(chan, segs)[i] = seg
  BY <1>1, <1>2
<1> QED
  BY <1>3 DEF segs

(* What is left after a segment has been taken out of a channel.           *)
LEMMA RemoveAtElements ==
    ASSUME NEW T, NEW s \in Seq(T), NEW n \in DOMAIN s
    PROVE  /\ RemoveAt(s, n) \in Seq(T)
           /\ Len(RemoveAt(s, n)) = Len(s) - 1
           /\ \A i \in DOMAIN RemoveAt(s, n) :
                 /\ i \in DOMAIN s /\ i + 1 \in DOMAIN s
                 /\ RemoveAt(s, n)[i] = IF i < n THEN s[i] ELSE s[i + 1]
<1> DEFINE a == SubSeq(s, 1, n - 1)
           b == SubSeq(s, n + 1, Len(s))
<1>1. n \in 1 .. Len(s)
  OBVIOUS
<1>2. /\ a \in Seq(T) /\ Len(a) = n - 1
      /\ \A i \in 1 .. n - 1 : a[i] = s[i]
  BY <1>1
<1>3. /\ b \in Seq(T) /\ Len(b) = Len(s) - n
      /\ \A i \in 1 .. Len(s) - n : b[i] = s[n + i]
  BY <1>1
<1>4. RemoveAt(s, n) = a \o b
  BY DEF RemoveAt
<1> HIDE DEF a, b
<1>5. /\ a \o b \in Seq(T) /\ Len(a \o b) = Len(s) - 1
      /\ \A i \in 1 .. Len(s) - 1 : (a \o b)[i] = IF i < n THEN a[i] ELSE b[i - (n - 1)]
  <2>1. /\ a \o b \in Seq(T) /\ Len(a \o b) = Len(a) + Len(b)
        /\ \A i \in 1 .. Len(a) + Len(b) :
              (a \o b)[i] = IF i =< Len(a) THEN a[i] ELSE b[i - Len(a)]
    BY <1>2, <1>3, ConcatProperties
  <2>2. Len(a) + Len(b) = Len(s) - 1 /\ n \in Nat
    BY <1>1, <1>2, <1>3
  <2>3. \A i \in 1 .. Len(s) - 1 : (i =< n - 1) <=> (i < n)
    BY <1>1
  <2> QED
    BY <1>2, <2>1, <2>2, <2>3
<1>6. ASSUME NEW i \in 1 .. Len(s) - 1
      PROVE  /\ i \in DOMAIN s /\ i + 1 \in DOMAIN s
             /\ (a \o b)[i] = IF i < n THEN s[i] ELSE s[i + 1]
  <2>1. CASE i < n
    BY <1>1, <1>2, <1>5, <2>1
  <2>2. CASE ~(i < n)
    <3>1. i - (n - 1) \in 1 .. Len(s) - n /\ n + (i - (n - 1)) = i + 1
      BY <1>1, <2>2
    <3>2. b[i - (n - 1)] = s[n + (i - (n - 1))]
      BY <1>3, <3>1
    <3>3. (a \o b)[i] = b[i - (n - 1)]
      BY <1>5, <2>2
    <3>4. i \in 1 .. Len(s) /\ i + 1 \in 1 .. Len(s)
      BY <1>1
    <3> QED
      BY <2>2, <3>1, <3>2, <3>3, <3>4
  <2> QED
    BY <2>1, <2>2
<1>7. DOMAIN (a \o b) = 1 .. Len(s) - 1
  BY <1>5
<1> QED
  BY <1>4, <1>5, <1>6, <1>7
-----------------------------------------------------------------------------
(* The first n elements of a sequence, and the others.                     *)
LEMMA PrefixElements ==
    ASSUME NEW T, NEW s \in Seq(T), NEW n \in 0 .. Len(s)
    PROVE  /\ SubSeq(s, 1, n) \in Seq(T)
           /\ Len(SubSeq(s, 1, n)) = n
           /\ DOMAIN SubSeq(s, 1, n) = 1 .. n
           /\ \A i \in 1 .. n : SubSeq(s, 1, n)[i] = s[i]
  OBVIOUS

(* What a suffix of a list holds: what freeSendBuf leaves of the buffer.    *)
LEMMA SuffixElements ==
    ASSUME NEW T, NEW s \in Seq(T), NEW n \in 0 .. Len(s)
    PROVE  /\ SubSeq(s, n + 1, Len(s)) \in Seq(T)
           /\ Len(SubSeq(s, n + 1, Len(s))) = Len(s) - n
           /\ DOMAIN SubSeq(s, n + 1, Len(s)) = 1 .. Len(s) - n
           /\ \A i \in 1 .. Len(s) - n : SubSeq(s, n + 1, Len(s))[i] = s[n + i]
  OBVIOUS

(* The part of the list that has been sent.                                *)
LEMMA SentElements ==
    ASSUME sendBuf \in Seq(Segment), unSent \in 0 .. Len(sendBuf)
    PROVE  /\ Sent \in Seq(Segment)
           /\ Len(Sent) = Len(sendBuf) - unSent
           /\ DOMAIN Sent = 1 .. Len(sendBuf) - unSent
           /\ \A n \in 1 .. Len(sendBuf) - unSent : Sent[n] = sendBuf[n]
<1>1. Len(sendBuf) - unSent \in 0 .. Len(sendBuf)
  OBVIOUS
<1> QED
  BY <1>1, PrefixElements DEF Sent

(* Filling up the window sends what is next in the list until the window   *)
(* is full or the list at its end.                                         *)
LEMMA FillWindowEffect ==
    ASSUME NEW buf \in Seq(Segment), NEW waiting \in 0 .. Len(buf),
           NEW unAck, unAck = Len(buf) - waiting, unAck =< GBN_WINDOW,
           toReceiver \in Seq(Segment),
           FillWindow(buf, waiting, unAck)
    PROVE  /\ sendBuf' = buf
           /\ unSent' \in 0 .. waiting
           /\ unAck_segNum' = Len(buf) - unSent'
           /\ unAck_segNum' =< GBN_WINDOW
           /\ unSent' > 0 => unAck_segNum' = GBN_WINDOW
           /\ toReceiver' \in Seq(Segment)
           /\ \A i \in DOMAIN toReceiver' :
                 \/ i \in DOMAIN toReceiver /\ toReceiver'[i] = toReceiver[i]
                 \/ /\ i > Len(toReceiver)
                    /\ \E m \in unAck + 1 .. unAck_segNum' : toReceiver'[i] = buf[m]
<1> DEFINE n == IF waiting < Room(unAck) THEN waiting ELSE Room(unAck)
           first == Len(buf) - waiting + 1
           segs == SubSeq(buf, first, first + n - 1)
<1>1. GBN_WINDOW \in Nat /\ unAck \in Nat
  BY GbnAssumption
<1>2. Room(unAck) = GBN_WINDOW - unAck
  BY <1>1 DEF Room
<1>3. n \in 0 .. waiting /\ n =< GBN_WINDOW - unAck
      /\ (n = waiting \/ n = GBN_WINDOW - unAck)
  BY <1>1, <1>2
<1>4. first \in 1 .. Len(buf) + 1 /\ first + n - 1 \in 0 .. Len(buf) /\ first = unAck + 1
  BY <1>3
<1>5. /\ sendBuf' = buf
      /\ unSent' = waiting - n
      /\ unAck_segNum' = unAck + n
      /\ toReceiver' = Carry(toReceiver, segs)
  BY DEF FillWindow
<1> HIDE DEF n, first
<1>6. /\ segs \in Seq(Segment)
      /\ Len(segs) = n
      /\ \A m \in 1 .. n : segs[m] = buf[first + m - 1]
  BY <1>1, <1>3, <1>4
<1>7. DOMAIN segs = 1 .. n
  BY <1>6
<1> HIDE DEF segs
<1>8. ASSUME NEW i \in DOMAIN toReceiver'
      PROVE  \/ i \in DOMAIN toReceiver /\ toReceiver'[i] = toReceiver[i]
             \/ /\ i > Len(toReceiver)
                /\ \E m \in unAck + 1 .. unAck_segNum' : toReceiver'[i] = buf[m]
  <2>1. \/ i \in DOMAIN toReceiver /\ toReceiver'[i] = toReceiver[i]
        \/ /\ i > Len(toReceiver)
           /\ i - Len(toReceiver) \in DOMAIN segs
           /\ toReceiver'[i] = segs[i - Len(toReceiver)]
    BY <1>5, <1>6, <1>8, CarryElements
  <2>2. ASSUME NEW k \in 1 .. n
        PROVE  first + k - 1 \in unAck + 1 .. unAck_segNum' /\ segs[k] = buf[first + k - 1]
    <3>1. segs[k] = buf[first + k - 1]
      BY <1>6
    <3>2. first + k - 1 = unAck + k
      BY <1>1, <1>4
    <3>3. unAck + k \in unAck + 1 .. unAck + n
      BY <1>1, <1>3
    <3> QED
      BY <1>5, <3>1, <3>2, <3>3
  <2> QED
    BY <1>7, <2>1, <2>2
<1>9. toReceiver' \in Seq(Segment)
  BY <1>5, <1>6, CarryElements
<1> QED
  BY <1>1, <1>3, <1>5, <1>8, <1>9

(* How many numbers there are from 1 to n.                                 *)
LEMMA IntervalCardinality ==
    ASSUME NEW n \in Nat
    PROVE  IsFiniteSet(1 .. n) /\ Cardinality(1 .. n) = n
<1>1. 1 \in Int /\ n \in Int
  OBVIOUS
<1>2. IsFiniteSet(1 .. n) /\ Cardinality(1 .. n) = IF 1 > n THEN 0 ELSE n - 1 + 1
  BY <1>1, FS_Interval
<1> QED
  BY <1>2

(* An acknowledgement frees sent segments only.                            *)
LEMMA FreedBound ==
    ASSUME NEW ack, sendBuf \in Seq(Segment), unSent \in 0 .. Len(sendBuf)
    PROVE  Freed(ack) \in 0 .. Len(Sent)
<1>1. Len(Sent) \in Nat /\ DOMAIN Sent = 1 .. Len(Sent)
  BY SentElements
<1>2. IsFiniteSet(1 .. Len(Sent)) /\ Cardinality(1 .. Len(Sent)) = Len(Sent)
  BY <1>1, IntervalCardinality
<1>3. Before(ack) \subseteq 1 .. Len(Sent)
  BY <1>1 DEF Before
<1>4. Cardinality(Before(ack)) \in 0 .. Len(Sent)
  BY <1>1, <1>2, <1>3, FS_Subset, FS_CardinalityType
<1> QED
  BY <1>1, <1>4 DEF Freed
-----------------------------------------------------------------------------
(* The sender's pointers and its count.                                    *)

(* What the proofs of the steps use of TypeOK and WindowConsistent.        *)
Window ==
    /\ sendBuf \in Seq(Segment)
    /\ unSent \in 0 .. Len(sendBuf)
    /\ unAck_segNum = Len(sendBuf) - unSent
    /\ unAck_segNum =< GBN_WINDOW
    /\ unSent > 0 => unAck_segNum = GBN_WINDOW

(* It says the same as WindowConsistent.                                   *)
LEMMA WindowMeans ==
    TypeOK => (Window <=> WindowConsistent)
  BY SentElements DEF TypeOK, Window, WindowConsistent

(* stcp_send appends the segment; what goes out is at the end of the part  *)
(* of the list that has then been sent.                                    *)
LEMMA FinishSendEffect ==
    ASSUME TypeOK, Window, FinishSend
    PROVE  /\ Window'
           /\ building \in Segment
           /\ sendBuf' = Append(sendBuf, building)
           /\ timers' \in Nat
           /\ unAck_segNum' >= unAck_segNum
           /\ toReceiver' \in Seq(Segment)
           /\ \A i \in DOMAIN toReceiver' :
                 \/ i \in DOMAIN toReceiver /\ toReceiver'[i] = toReceiver[i]
                 \/ /\ i > Len(toReceiver)
                    /\ \E m \in unAck_segNum + 1 .. unAck_segNum' :
                          toReceiver'[i] = sendBuf'[m]
<1>1. building \in Segment
  BY DEF TypeOK, FinishSend
<1>2. Len(sendBuf) \in Nat /\ toReceiver \in Seq(Segment) /\ timers \in Nat
  BY DEF TypeOK
<1>3. CASE sendBuf = <<>>
  <2>1. /\ sendBuf' = <<building>>
        /\ unAck_segNum' = unAck_segNum + 1
        /\ timers' = timers + 1
        /\ toReceiver' = Carry(toReceiver, <<building>>)
        /\ unSent' = unSent
    BY <1>3 DEF FinishSend
  <2>2. unSent = 0 /\ unAck_segNum = 0
    BY <1>3 DEF Window
  <2>3. sendBuf' = Append(sendBuf, building)
    BY <1>1, <1>3, <2>1
  <2>4. Window'
    BY <1>1, <2>1, <2>2, GbnAssumption DEF Window
  <2>5. /\ toReceiver' \in Seq(Segment)
        /\ \A i \in DOMAIN toReceiver' :
              \/ i \in DOMAIN toReceiver /\ toReceiver'[i] = toReceiver[i]
              \/ i > Len(toReceiver) /\ toReceiver'[i] = building
    BY <1>1, <1>2, <2>1, CarryOne
  <2>6. sendBuf'[1] = building /\ 1 \in unAck_segNum + 1 .. unAck_segNum'
    BY <2>1, <2>2
  <2>7. unAck_segNum' >= unAck_segNum
    BY <2>1, <2>2
  <2>8. ASSUME NEW i \in DOMAIN toReceiver',
               ~(i \in DOMAIN toReceiver /\ toReceiver'[i] = toReceiver[i])
        PROVE  /\ i > Len(toReceiver)
               /\ \E m \in unAck_segNum + 1 .. unAck_segNum' : toReceiver'[i] = sendBuf'[m]
    <3>1. i > Len(toReceiver) /\ toReceiver'[i] = sendBuf'[1]
      BY <2>5, <2>6, <2>8
    <3> QED
      BY <2>6, <3>1
  <2>9. timers' \in Nat
    BY <1>2, <2>1
  <2> QED
    BY <1>1, <2>3, <2>4, <2>5, <2>7, <2>8, <2>9
<1>4. CASE sendBuf # <<>>
  <2> DEFINE buf == Append(sendBuf, building)
  <2>1. FillWindow(buf, unSent + 1, unAck_segNum) /\ timers' = timers
    BY <1>4 DEF FinishSend
  <2>2. /\ buf \in Seq(Segment) /\ unSent + 1 \in 0 .. Len(buf)
        /\ unAck_segNum = Len(buf) - (unSent + 1)
        /\ unAck_segNum =< GBN_WINDOW
    BY <1>1, <1>2 DEF Window
  <2> HIDE DEF buf
  <2>3. /\ sendBuf' = buf
        /\ unSent' \in 0 .. unSent + 1
        /\ unAck_segNum' = Len(buf) - unSent'
        /\ unAck_segNum' =< GBN_WINDOW
        /\ unSent' > 0 => unAck_segNum' = GBN_WINDOW
        /\ toReceiver' \in Seq(Segment)
        /\ \A i \in DOMAIN toReceiver' :
              \/ i \in DOMAIN toReceiver /\ toReceiver'[i] = toReceiver[i]
              \/ /\ i > Len(toReceiver)
                 /\ \E m \in unAck_segNum + 1 .. unAck_segNum' : toReceiver'[i] = buf[m]
    BY <1>2, <2>1, <2>2, FillWindowEffect
  <2>4. Window' /\ unAck_segNum' >= unAck_segNum
    BY <2>2, <2>3, GbnAssumption DEF Window
  <2> QED
    BY <1>1, <1>2, <2>1, <2>3, <2>4 DEF buf
<1> QED
  BY <1>3, <1>4

(* The DATAACK branch frees the segments at the head of the list and sends *)
(* what the window then has room for.                                      *)
LEMMA HandleDataAckEffect ==
    ASSUME TypeOK, Window, NEW ack, HandleDataAck(ack), sendBuf # <<>>
    PROVE  /\ Window'
           /\ Freed(ack) \in 0 .. Len(Sent)
           /\ sendBuf' = SubSeq(sendBuf, Freed(ack) + 1, Len(sendBuf))
           /\ unAck_segNum' + Freed(ack) >= unAck_segNum
           /\ toReceiver' \in Seq(Segment)
           /\ \A i \in DOMAIN toReceiver' :
                 \/ i \in DOMAIN toReceiver /\ toReceiver'[i] = toReceiver[i]
                 \/ /\ i > Len(toReceiver)
                    /\ \E m \in unAck_segNum - Freed(ack) + 1 .. unAck_segNum' :
                          toReceiver'[i] = sendBuf'[m]
<1> DEFINE n == Freed(ack)
           buf == SubSeq(sendBuf, n + 1, Len(sendBuf))
<1>1. Len(sendBuf) \in Nat /\ toReceiver \in Seq(Segment)
  BY DEF TypeOK
<1>2. Len(Sent) = Len(sendBuf) - unSent
  BY SentElements DEF Window
<1>3. n \in 0 .. Len(Sent)
  BY FreedBound DEF Window
<1>4. FillWindow(buf, unSent, unAck_segNum - n)
  BY DEF HandleDataAck
<1> HIDE DEF n
<1>5. n \in 0 .. Len(sendBuf)
  BY <1>1, <1>2, <1>3 DEF Window
<1>6. buf \in Seq(Segment) /\ Len(buf) = Len(sendBuf) - n
  BY <1>5, SuffixElements DEF Window
<1> HIDE DEF buf
<1>7. /\ unSent \in 0 .. Len(buf)
      /\ unAck_segNum - n = Len(buf) - unSent
      /\ unAck_segNum - n =< GBN_WINDOW
  BY <1>1, <1>2, <1>3, <1>6, GbnAssumption DEF Window
<1>8. /\ sendBuf' = buf
      /\ unSent' \in 0 .. unSent
      /\ unAck_segNum' = Len(buf) - unSent'
      /\ unAck_segNum' =< GBN_WINDOW
      /\ unSent' > 0 => unAck_segNum' = GBN_WINDOW
      /\ toReceiver' \in Seq(Segment)
      /\ \A i \in DOMAIN toReceiver' :
            \/ i \in DOMAIN toReceiver /\ toReceiver'[i] = toReceiver[i]
            \/ /\ i > Len(toReceiver)
               /\ \E m \in unAck_segNum - n + 1 .. unAck_segNum' : toReceiver'[i] = buf[m]
  <2> DEFINE left == unAck_segNum - n
  <2>1. left = Len(buf) - unSent /\ left =< GBN_WINDOW
    BY <1>7
  <2>2. FillWindow(buf, unSent, left)
    BY <1>4
  <2> HIDE DEF left
  <2>3. /\ buf \in Seq(Segment) /\ unSent \in 0 .. Len(buf) /\ toReceiver \in Seq(Segment)
    BY <1>1, <1>6, <1>7
  <2>4. /\ sendBuf' = buf
        /\ unSent' \in 0 .. unSent
        /\ unAck_segNum' = Len(buf) - unSent'
        /\ unAck_segNum' =< GBN_WINDOW
        /\ unSent' > 0 => unAck_segNum' = GBN_WINDOW
        /\ toReceiver' \in Seq(Segment)
        /\ \A i \in DOMAIN toReceiver' :
              \/ i \in DOMAIN toReceiver /\ toReceiver'[i] = toReceiver[i]
              \/ /\ i > Len(toReceiver)
                 /\ \E m \in left + 1 .. unAck_segNum' : toReceiver'[i] = buf[m]
    BY <2>1, <2>2, <2>3, FillWindowEffect
  <2> QED
    BY <2>4 DEF left
<1>9. Window'
  <2>1. unSent' \in 0 .. Len(buf)
    BY <1>6, <1>7, <1>8
  <2> QED
    BY <1>6, <1>8, <2>1 DEF Window
<1>10. unAck_segNum' + n >= unAck_segNum
  <2> DEFINE e == unSent'
  <2>1. e \in 0 .. unSent /\ unAck_segNum' = Len(buf) - e
    BY <1>8
  <2> HIDE DEF e
  <2>2. (Len(buf) - e) + n >= (Len(buf) - unSent) + n
    BY <1>5, <1>6, <1>7, <2>1
  <2>3. (unAck_segNum - n) + n = unAck_segNum
    BY <1>1, <1>5 DEF Window
  <2> QED
    BY <1>7, <2>1, <2>2, <2>3
<1> QED
  BY <1>3, <1>8, <1>9, <1>10 DEF n, buf
-----------------------------------------------------------------------------
(* Type correctness.                                                       *)

(* The number that follows a sequence number is one.                       *)
LEMMA FollowingType ==
    ASSUME NEW n \in SeqNum
    PROVE  Following(n) \in SeqNum
<1>1. MAX_SEQNUM \in Nat \ {0} /\ n + 1 \in Nat
  BY GbnAssumption DEF SeqNum
<1> QED
  BY <1>1, Division DEF SeqNum, Following

(* The initial state is well typed, and its window is empty.               *)
LEMMA TypeInit ==
    ASSUME Init
    PROVE  TypeOK /\ Window
<1>1. 0 \in SeqNum
  BY GbnAssumption DEF SeqNum
<1>2. TypeOK
  BY <1>1, GbnAssumption DEF Init, TypeOK
<1>3. Window
  BY <1>2, GbnAssumption DEF Init, Window, TypeOK
<1> QED
  BY <1>2, <1>3

(* Every step keeps the types and the sender's count.                      *)
LEMMA TypeStep ==
    ASSUME TypeOK, Window, [Next]_vars
    PROVE  TypeOK' /\ Window'
<1> USE DEF tcb, sender, receiver
<1>1. CASE BeginSend
  <2>1. accepted + 1 \in 1 .. MaxData
    BY <1>1, GbnAssumption DEF TypeOK, BeginSend
  <2>2. building' \in Segment
    BY <1>1, <2>1 DEF TypeOK, BeginSend, Segment
  <2>3. next_seqNum' \in SeqNum
    BY <1>1, FollowingType DEF TypeOK, BeginSend
  <2>4. TypeOK'
    BY <1>1, <2>1, <2>2, <2>3 DEF TypeOK, BeginSend
  <2>5. Window'
    BY <1>1 DEF Window, BeginSend
  <2> QED
    BY <2>4, <2>5
<1>2. CASE FinishSend
  <2>1. /\ Window' /\ timers' \in Nat /\ toReceiver' \in Seq(Segment)
    BY <1>2, FinishSendEffect
  <2>2. UNCHANGED <<next_seqNum, accepted, resending, receiver, toSender>> /\ building' = NoSeg
    BY <1>2 DEF FinishSend
  <2>3. /\ sendBuf' \in Seq(Segment) /\ unSent' \in 0 .. Len(sendBuf')
        /\ unAck_segNum' \in Nat
    BY <2>1 DEF Window
  <2>4. TypeOK'
    BY <2>1, <2>2, <2>3 DEF TypeOK
  <2> QED
    BY <2>1, <2>4
<1>3. CASE TimerWakes
  <2>1. Head(Sent) \in Segment
    BY <1>3, SentElements DEF Window, TimerWakes
  <2>2. TypeOK'
    BY <1>3, <2>1 DEF TypeOK, TimerWakes
  <2>3. Window'
    BY <1>3 DEF Window, TimerWakes
  <2> QED
    BY <2>2, <2>3
<1>4. CASE TimerResends
  <2>1. PICK n \in DOMAIN sendBuf :
           /\ resending = sendBuf[n]
           /\ resending' = IF n < Len(Sent) THEN sendBuf[n + 1] ELSE NoSeg
    BY <1>4 DEF TimerResends
  <2>2. resending \in Segment /\ resending' \in Segment \cup {NoSeg}
    BY <2>1, SentElements DEF Window
  <2>3. toReceiver' \in Seq(Segment)
    BY <1>4, <2>2, CarryOne DEF TypeOK, TimerResends
  <2>4. TypeOK'
    BY <1>4, <2>2, <2>3 DEF TypeOK, TimerResends
  <2>5. Window'
    BY <1>4 DEF Window, TimerResends
  <2> QED
    BY <2>4, <2>5
<1>5. CASE TimerExits
  <2>1. TypeOK'
    BY <1>5 DEF TypeOK, TimerExits
  <2>2. Window'
    BY <1>5 DEF Window, TimerExits
  <2> QED
    BY <2>1, <2>2
<1>6. ASSUME NEW ack \in SeqNum, HandleDataAck(ack)
      PROVE  TypeOK' /\ Window'
  <2>1. PICK n \in Arriving(toSender) : toSender' = RemoveAt(toSender, n)
    BY <1>6 DEF HandleDataAck
  <2>2. toSender' \in Seq(SeqNum)
    BY <2>1, RemoveAtElements DEF TypeOK, Arriving
  <2>3. Window' /\ toReceiver' \in Seq(Segment)
    <3>1. CASE sendBuf = <<>>
      BY <1>6, <3>1 DEF HandleDataAck, TypeOK, Window
    <3>2. CASE sendBuf # <<>>
      BY <1>6, <3>2, HandleDataAckEffect
    <3> QED
      BY <3>1, <3>2
  <2>4. TypeOK'
    BY <1>6, <2>2, <2>3 DEF HandleDataAck, TypeOK, Window
  <2> QED
    BY <2>3, <2>4
<1>7. ASSUME NEW seg \in Segment, HandleData(seg)
      PROVE  TypeOK' /\ Window'
  <2>1. PICK n \in Arriving(toReceiver) : toReceiver' = RemoveAt(toReceiver, n)
    BY <1>7 DEF HandleData
  <2>2. toReceiver' \in Seq(Segment)
    BY <2>1, RemoveAtElements DEF TypeOK, Arriving
  <2>3. recvBuf' \in Seq(1 .. MaxData) /\ expect_seqNum' \in SeqNum
    <3>1. seg.data \in 1 .. MaxData
      BY DEF Segment
    <3>2. Append(recvBuf, seg.data) \in Seq(1 .. MaxData)
      BY <3>1 DEF TypeOK
    <3>3. expect_seqNum \in SeqNum /\ Following(expect_seqNum) \in SeqNum
      BY FollowingType DEF TypeOK
    <3> QED
      BY <1>7, <3>2, <3>3 DEF HandleData, TypeOK
  <2>4. toSender' \in Seq(SeqNum)
    BY <1>7, <2>3, CarryOne DEF HandleData, TypeOK
  <2>5. TypeOK'
    BY <1>7, <2>2, <2>3, <2>4 DEF HandleData, TypeOK
  <2>6. Window'
    BY <1>7 DEF HandleData, Window
  <2> QED
    BY <2>5, <2>6
<1>8. ASSUME NEW length \in 1 .. MaxData, Receive(length)
      PROVE  TypeOK' /\ Window'
  <2>1. length \in 0 .. Len(recvBuf)
    BY <1>8 DEF Receive, TypeOK
  <2>2. taken' \in Seq(1 .. MaxData) /\ recvBuf' \in Seq(1 .. MaxData)
    <3>1. recvBuf \in Seq(1 .. MaxData) /\ taken \in Seq(1 .. MaxData)
      BY DEF TypeOK
    <3>2. /\ SubSeq(recvBuf, 1, length) \in Seq(1 .. MaxData)
          /\ SubSeq(recvBuf, length + 1, Len(recvBuf)) \in Seq(1 .. MaxData)
      BY <2>1, <3>1, PrefixElements, SuffixElements
    <3>3. taken \o SubSeq(recvBuf, 1, length) \in Seq(1 .. MaxData)
      BY <3>1, <3>2
    <3> QED
      BY <1>8, <3>2, <3>3 DEF Receive
  <2>3. TypeOK'
    BY <1>8, <2>2 DEF Receive, TypeOK
  <2>4. Window'
    BY <1>8 DEF Receive, Window
  <2> QED
    BY <2>3, <2>4
<1>9. CASE Lose
  <2>1. /\ UNCHANGED <<sender, receiver>>
        /\ \/ UNCHANGED toReceiver
           \/ \E n \in Arriving(toReceiver) : toReceiver' = RemoveAt(toReceiver, n)
        /\ \/ UNCHANGED toSender
           \/ \E n \in Arriving(toSender) : toSender' = RemoveAt(toSender, n)
    BY <1>9 DEF Lose
  <2>2. toReceiver' \in Seq(Segment)
    BY <2>1, RemoveAtElements DEF TypeOK, Arriving
  <2>3. toSender' \in Seq(SeqNum)
    BY <2>1, RemoveAtElements DEF TypeOK, Arriving
  <2>4. TypeOK'
    BY <2>1, <2>2, <2>3 DEF TypeOK
  <2>5. Window'
    BY <2>1 DEF Window
  <2> QED
    BY <2>4, <2>5
<1>10. CASE UNCHANGED vars
  <2>1. TypeOK'
    BY <1>10 DEF vars, TypeOK
  <2>2. Window'
    BY <1>10 DEF vars, Window
  <2> QED
    BY <2>1, <2>2
<1> QED
  BY <1>1, <1>2, <1>3, <1>4, <1>5, <1>6, <1>7, <1>8, <1>9, <1>10 DEF Next

(* Every variable keeps its type: no sequence number leaves its range, and *)
(* no segment that was not built for the connection is stored or sent.     *)
THEOREM TypeCorrect == Spec => []TypeOK
<1>1. Init => TypeOK /\ Window
  BY TypeInit
<1>2. TypeOK /\ Window /\ [Next]_vars => TypeOK' /\ Window'
  BY TypeStep
<1> QED
  BY <1>1, <1>2, PTL DEF Spec

(* unAck_segNum, which the code counts apart from its three pointers, is   *)
(* the number of sent segments in the list, it stays within GBN_WINDOW,    *)
(* and no segment waits unsent while the window has room.                  *)
THEOREM WindowCorrect == Spec => []WindowConsistent
<1>1. Init => TypeOK /\ Window
  BY TypeInit
<1>2. TypeOK /\ Window /\ [Next]_vars => TypeOK' /\ Window'
  BY TypeStep
<1>3. TypeOK /\ Window => WindowConsistent
  BY WindowMeans
<1> QED
  BY <1>1, <1>2, <1>3, PTL DEF Spec
-----------------------------------------------------------------------------
(* The places in the stream that the numbers stand for.  The inductive     *)
(* invariant says of every sequence number in the system which place it is *)
(* the number of, and that the places in use at one time are so close      *)
(* together that two of them never have the same number.                   *)

(* How many segments have been freed, and how many sent at least once.     *)
Base == accepted - (IF building = NoSeg THEN 0 ELSE 1) - Len(sendBuf)

LastSent == Base + unAck_segNum

(* The DATA segments in chan, when last segments have been sent and r have *)
(* arrived: one that has been overtaken by more than a window's worth of   *)
(* the stream cannot be under way unless the network reorders.             *)
DataFits(chan, last, r) ==
    /\ \A i \in DOMAIN chan : chan[i] = Seg(chan[i].data) /\ chan[i].data \in 1 .. last
    /\ ~Reordering => \A i \in DOMAIN chan :
          /\ r < chan[i].data + GBN_WINDOW
          /\ \A j \in 1 .. i - 1 : chan[j].data < chan[i].data + GBN_WINDOW

(* The acknowledgements in chan, when base segments have been freed and r  *)
(* have arrived: without reordering none is older than what was freed, and *)
(* they come in order.                                                     *)
AcksFit(chan, base, r) ==
    /\ \A i \in DOMAIN chan : \E g \in 0 .. r :
          chan[i] = Num(g) /\ (~Reordering => base =< g)
    /\ ~Reordering =>
          \A i \in DOMAIN chan : \A j \in 1 .. i : \A g, h \in base .. r :
             chan[i] = Num(g) /\ chan[j] = Num(h) => h =< g

SenderNumbers ==
    /\ Base >= 0
    /\ next_seqNum = Num(accepted)
    /\ building # NoSeg => building = Seg(accepted)
    /\ \A n \in DOMAIN sendBuf : sendBuf[n] = Seg(Base + n)
    /\ resending # NoSeg =>
          \E d \in 1 .. LastSent : resending = Seg(d) /\ (TimerLocksSendBuf => d > Base)

ReceiverNumbers ==
    /\ expect_seqNum = Num(Len(Received))
    /\ \A i \in DOMAIN Received : Received[i] = i
    /\ Base =< Len(Received) /\ Len(Received) =< LastSent

Numbers ==
    /\ SenderNumbers
    /\ ReceiverNumbers
    /\ DataFits(toReceiver, LastSent, Len(Received))
    /\ AcksFit(toSender, Base, Len(Received))

IInv == TypeOK /\ Window /\ Numbers

(* The m-th place after b.                                                 *)
LEMMA ShiftedPlace ==
    ASSUME NEW b \in Int, NEW lo \in Nat, NEW hi \in Nat, NEW m \in lo + 1 .. hi
    PROVE  b + m \in b + 1 .. b + hi
  OBVIOUS

(* The bounds the places keep within.                                      *)
LEMMA Places ==
    ASSUME TypeOK, Window, Base >= 0
    PROVE  /\ Base \in Nat /\ LastSent \in Nat
           /\ Base + Len(sendBuf) + (IF building = NoSeg THEN 0 ELSE 1) = accepted
           /\ Base =< LastSent /\ LastSent =< Base + GBN_WINDOW
           /\ LastSent =< Base + Len(sendBuf)
           /\ accepted \in Nat /\ LastSent =< accepted /\ accepted =< MaxData
           /\ LastSent =< MaxData
  BY GbnAssumption DEF TypeOK, Window, Base, LastSent

(* Sending segments between base and last again, or for the first time,    *)
(* keeps what DataFits says.                                               *)
LEMMA DataSent ==
    ASSUME NEW chan \in Seq(Segment), NEW new \in Seq(Segment),
           NEW base \in Nat, NEW last \in Nat, NEW newLast \in Nat, NEW r \in Nat,
           DataFits(chan, last, r),
           last =< newLast, newLast =< base + GBN_WINDOW, r =< newLast,
           \A i \in DOMAIN new :
              \/ i \in DOMAIN chan /\ new[i] = chan[i]
              \/ i > Len(chan) /\ \E d \in base + 1 .. newLast : new[i] = Seg(d)
    PROVE  DataFits(new, newLast, r)
<1>1. GBN_WINDOW \in Nat
  BY GbnAssumption
<1>2. ASSUME NEW i \in DOMAIN new
      PROVE  /\ new[i] = Seg(new[i].data) /\ new[i].data \in 1 .. newLast
             /\ ~(i \in DOMAIN chan /\ new[i] = chan[i]) =>
                   i > Len(chan) /\ new[i].data > base
  <2>1. CASE i \in DOMAIN chan /\ new[i] = chan[i]
    BY <2>1 DEF DataFits
  <2>2. CASE i > Len(chan) /\ \E d \in base + 1 .. newLast : new[i] = Seg(d)
    BY <2>2 DEF Seg
  <2> QED
    BY <2>1, <2>2
<1>3. ASSUME ~Reordering, NEW i \in DOMAIN new
      PROVE  /\ r < new[i].data + GBN_WINDOW
             /\ \A j \in 1 .. i - 1 : new[j].data < new[i].data + GBN_WINDOW
  <2>1. CASE i \in DOMAIN chan /\ new[i] = chan[i]
    <3>1. ASSUME NEW j \in 1 .. i - 1
          PROVE  j \in DOMAIN new /\ new[j] = chan[j]
      BY <2>1, <1>2
    <3> QED
      BY <1>3, <2>1, <3>1 DEF DataFits
  <2>2. CASE ~(i \in DOMAIN chan /\ new[i] = chan[i])
    <3>1. new[i].data > base /\ new[i].data \in 1 .. newLast
      BY <1>2, <2>2
    <3>2. ASSUME NEW j \in 1 .. i - 1
          PROVE  new[j].data \in 1 .. newLast
      <4>1. j \in DOMAIN new
        OBVIOUS
      <4> QED
        BY <1>2, <4>1
    <3> QED
      BY <1>1, <3>1, <3>2
  <2> QED
    BY <2>1, <2>2
<1> QED
  BY <1>2, <1>3 DEF DataFits

(* The place in a channel of what is at place i after the n-th has been    *)
(* taken out.                                                              *)
OldPlace(i, n) == IF i < n THEN i ELSE i + 1

(* Taking an element out keeps the order of the others.                    *)
LEMMA RemovedPlaces ==
    ASSUME NEW T, NEW s \in Seq(T), NEW n \in DOMAIN s,
           NEW i \in DOMAIN RemoveAt(s, n)
    PROVE  /\ OldPlace(i, n) \in DOMAIN s \ {n}
           /\ RemoveAt(s, n)[i] = s[OldPlace(i, n)]
           /\ \A j \in 1 .. i - 1 : /\ j \in DOMAIN RemoveAt(s, n)
                                    /\ OldPlace(j, n) \in 1 .. OldPlace(i, n) - 1
<1>1. /\ n \in Nat /\ Len(RemoveAt(s, n)) \in Nat
      /\ DOMAIN RemoveAt(s, n) = 1 .. Len(RemoveAt(s, n))
  <2>1. RemoveAt(s, n) \in Seq(T)
    BY RemoveAtElements
  <2> QED
    BY <2>1
<1>2. /\ i \in DOMAIN s /\ i + 1 \in DOMAIN s
      /\ RemoveAt(s, n)[i] = IF i < n THEN s[i] ELSE s[i + 1]
  BY RemoveAtElements
<1>3. i \in Nat
  BY <1>1
<1>4. OldPlace(i, n) \in DOMAIN s \ {n} /\ RemoveAt(s, n)[i] = s[OldPlace(i, n)]
  BY <1>1, <1>2, <1>3 DEF OldPlace
<1>5. ASSUME NEW j \in 1 .. i - 1
      PROVE  j \in DOMAIN RemoveAt(s, n) /\ OldPlace(j, n) \in 1 .. OldPlace(i, n) - 1
  <2>1. j \in DOMAIN RemoveAt(s, n)
    BY <1>1, <1>3
  <2>2. OldPlace(j, n) \in 1 .. OldPlace(i, n) - 1
    BY <1>1, <1>3 DEF OldPlace
  <2> QED
    BY <2>1, <2>2
<1> QED
  BY <1>4, <1>5

(* Taking a segment out keeps what DataFits says, if none of the others    *)
(* comes too late for what has arrived then.                               *)
LEMMA DataTaken ==
    ASSUME NEW chan \in Seq(Segment), NEW n \in DOMAIN chan,
           NEW last \in Nat, NEW r \in Nat, NEW q \in Nat,
           DataFits(chan, last, r),
           ~Reordering => \A i \in DOMAIN chan \ {n} : q < chan[i].data + GBN_WINDOW
    PROVE  DataFits(RemoveAt(chan, n), last, q)
<1> DEFINE new == RemoveAt(chan, n)
           old(i) == OldPlace(i, n)
<1>1. ASSUME NEW i \in DOMAIN new
      PROVE  /\ old(i) \in DOMAIN chan \ {n}
             /\ new[i] = chan[old(i)]
             /\ \A j \in 1 .. i - 1 : j \in DOMAIN new /\ old(j) \in 1 .. old(i) - 1
  BY RemovedPlaces DEF OldPlace
<1> HIDE DEF new
<1>2. \A i \in DOMAIN new : new[i] = Seg(new[i].data) /\ new[i].data \in 1 .. last
  BY <1>1 DEF DataFits
<1>3. ASSUME ~Reordering, NEW i \in DOMAIN new
      PROVE  /\ q < new[i].data + GBN_WINDOW
             /\ \A j \in 1 .. i - 1 : new[j].data < new[i].data + GBN_WINDOW
  <2>1. q < new[i].data + GBN_WINDOW
    BY <1>1, <1>3
  <2>2. \A j \in 1 .. old(i) - 1 : chan[j].data < chan[old(i)].data + GBN_WINDOW
    BY <1>1, <1>3 DEF DataFits
  <2>3. ASSUME NEW j \in 1 .. i - 1
        PROVE  new[j].data < new[i].data + GBN_WINDOW
    BY <1>1, <2>2
  <2> QED
    BY <2>1, <2>3
<1>4. DataFits(new, last, q)
  BY <1>2, <1>3 DEF DataFits
<1> QED
  BY <1>4 DEF new

(* Taking an acknowledgement out keeps what AcksFit says, if none of the   *)
(* others is older than what has been freed then.                          *)
LEMMA AckTaken ==
    ASSUME NEW chan \in Seq(SeqNum), NEW n \in DOMAIN chan,
           NEW base \in Nat, NEW newBase \in Nat, base =< newBase, NEW r \in Nat,
           AcksFit(chan, base, r),
           ~Reordering => \A i \in DOMAIN chan \ {n} :
                             \E g \in newBase .. r : chan[i] = Num(g)
    PROVE  AcksFit(RemoveAt(chan, n), newBase, r)
<1> DEFINE new == RemoveAt(chan, n)
           old(i) == OldPlace(i, n)
<1>1. ASSUME NEW i \in DOMAIN new
      PROVE  /\ old(i) \in DOMAIN chan \ {n}
             /\ new[i] = chan[old(i)]
             /\ \A j \in 1 .. i - 1 : j \in DOMAIN new /\ old(j) \in 1 .. old(i) - 1
  BY RemovedPlaces
<1>2. new \in Seq(SeqNum)
  BY RemoveAtElements
<1> HIDE DEF new, old
<1>3. ASSUME NEW i \in DOMAIN new
      PROVE  \E g \in 0 .. r : new[i] = Num(g) /\ (~Reordering => newBase =< g)
  <2>1. CASE Reordering
    BY <1>1, <2>1 DEF AcksFit
  <2>2. CASE ~Reordering
    BY <1>1, <2>2
  <2> QED
    BY <2>1, <2>2
<1>4. ASSUME ~Reordering, NEW i \in DOMAIN new, NEW j \in 1 .. i,
             NEW g \in newBase .. r, NEW h \in newBase .. r,
             new[i] = Num(g), new[j] = Num(h)
      PROVE  h =< g
  <2>1. old(j) \in 1 .. old(i) /\ old(i) \in DOMAIN chan /\ new[j] = chan[old(j)]
    <3>1. CASE j = i
      BY <1>1, <3>1
    <3>2. CASE j \in 1 .. i - 1
      BY <1>1, <3>2
    <3> QED
      BY <1>2, <3>1, <3>2
  <2>2. g \in base .. r /\ h \in base .. r
    OBVIOUS
  <2>3. \A a, b \in base .. r :
           chan[old(i)] = Num(a) /\ chan[old(j)] = Num(b) => b =< a
    BY <1>4, <2>1 DEF AcksFit
  <2> QED
    BY <1>1, <1>4, <2>1, <2>2, <2>3
<1>5. AcksFit(new, newBase, r)
  BY <1>3, <1>4 DEF AcksFit
<1> QED
  BY <1>5 DEF new

(* Answering with the number of the last place arrived keeps it, too.      *)
LEMMA AckGiven ==
    ASSUME NEW chan \in Seq(SeqNum), NEW new \in Seq(SeqNum),
           NEW base \in Nat, NEW r \in Nat, NEW q \in Nat,
           base =< r, r =< q, q =< base + GBN_WINDOW,
           AcksFit(chan, base, r),
           \A i \in DOMAIN new :
              \/ i \in DOMAIN chan /\ new[i] = chan[i]
              \/ i > Len(chan) /\ new[i] = Num(q)
    PROVE  AcksFit(new, base, q)
<1>1. GBN_WINDOW \in Nat /\ MAX_SEQNUM \in Nat /\ MAX_SEQNUM > GBN_WINDOW + 1
  BY GbnAssumption
<1>2. ASSUME NEW i \in DOMAIN new
      PROVE  \E g \in 0 .. q : new[i] = Num(g) /\ (~Reordering => base =< g)
  <2>1. CASE i \in DOMAIN chan /\ new[i] = chan[i]
    BY <2>1 DEF AcksFit
  <2>2. CASE i > Len(chan) /\ new[i] = Num(q)
    BY <2>2
  <2> QED
    BY <2>1, <2>2
<1>3. ASSUME NEW g \in base .. q, NEW h \in base .. q, Num(g) = Num(h)
      PROVE  g = h
  BY <1>1, <1>3, NumInjective
<1>4. ASSUME ~Reordering, NEW i \in DOMAIN new, NEW j \in 1 .. i,
             NEW g \in base .. q, NEW h \in base .. q,
             new[i] = Num(g), new[j] = Num(h)
      PROVE  h =< g
  <2>1. CASE i \in DOMAIN chan /\ new[i] = chan[i]
    <3>1. j \in DOMAIN new /\ j \in DOMAIN chan /\ new[j] = chan[j]
      BY <2>1
    <3>2. PICK a \in 0 .. r : chan[i] = Num(a) /\ base =< a
      BY <1>4, <2>1 DEF AcksFit
    <3>3. PICK b \in 0 .. r : chan[j] = Num(b) /\ base =< b
      BY <1>4, <3>1 DEF AcksFit
    <3>4. a \in base .. q /\ b \in base .. q /\ a \in base .. r /\ b \in base .. r
      BY <3>2, <3>3
    <3>5. a = g /\ b = h
      BY <1>3, <1>4, <2>1, <3>1, <3>2, <3>3, <3>4
    <3> QED
      BY <1>4, <2>1, <3>1, <3>2, <3>3, <3>4, <3>5 DEF AcksFit
  <2>2. CASE new[i] = Num(q)
    <3>1. q \in base .. q
      OBVIOUS
    <3>2. g = q
      BY <1>3, <1>4, <2>2, <3>1
    <3> QED
      BY <3>2
  <2> QED
    BY <2>1, <2>2
<1> QED
  BY <1>2, <1>4 DEF AcksFit

(* What arrives is numbered as expected only if it is the next in the      *)
(* stream.                                                                 *)
LEMMA ExpectedIsNext ==
    ASSUME TypeOK, Window, Numbers, NEW n \in Arriving(toReceiver),
           Expected(toReceiver[n])
    PROVE  toReceiver[n].data = Len(Received) + 1
<1> DEFINE d == toReceiver[n].data
           r == Len(Received)
<1>1. n \in DOMAIN toReceiver /\ (~Reordering => n = 1)
  BY DEF Arriving
<1>2. /\ Base \in Nat /\ LastSent \in Nat /\ LastSent =< Base + GBN_WINDOW
      /\ LastSent =< MaxData
  BY Places DEF Numbers, SenderNumbers
<1>3. r \in Nat /\ Base =< r /\ r =< LastSent
  BY DEF TypeOK, Received, Numbers, ReceiverNumbers
<1>4. d \in 1 .. LastSent /\ toReceiver[n].seq = Num(d - 1)
  BY <1>1 DEF Numbers, DataFits, Seg
<1>5. ~Reordering => r < d + GBN_WINDOW
  BY <1>1 DEF Numbers, DataFits
<1>6. Num(d - 1) = Num(r)
  BY <1>4 DEF Numbers, ReceiverNumbers, Expected
<1> HIDE DEF d, r
<1>7. d - 1 - r < MAX_SEQNUM /\ r - (d - 1) < MAX_SEQNUM
  BY <1>2, <1>3, <1>4, <1>5, GbnAssumption
<1>8. d - 1 = r
  BY <1>2, <1>3, <1>4, <1>6, <1>7, NumInjective
<1> QED
  BY <1>3, <1>4, <1>8 DEF d, r

(* An acknowledgement frees no segment that had not arrived when it was    *)
(* sent, old as it may be, and although AcksAll compares with a            *)
(* next_seqNum that may be one ahead of the list.                          *)
LEMMA FreedArrived ==
    ASSUME TypeOK, Window, Numbers,
           NEW g \in 0 .. Len(Received), ~Reordering => Base =< g
    PROVE  Freed(Num(g)) = 0 \/ Base + Freed(Num(g)) =< g
<1>1. /\ Base \in Nat /\ LastSent \in Nat /\ LastSent =< Base + GBN_WINDOW
      /\ Base =< LastSent
      /\ accepted \in Nat /\ LastSent =< accepted /\ accepted =< MaxData
      /\ Base + Len(sendBuf) + (IF building = NoSeg THEN 0 ELSE 1) = accepted
  BY Places DEF Numbers, SenderNumbers, TypeOK
<1>2. g \in Nat /\ g =< LastSent
  BY <1>1 DEF TypeOK, Received, Numbers, ReceiverNumbers
<1>3. ASSUME NEW x \in Nat, Base =< x, x =< LastSent + 1, x =< accepted, Num(x) = Num(g)
      PROVE  x = g
  <2>1. x - g < MAX_SEQNUM /\ g - x < MAX_SEQNUM
    BY <1>1, <1>2, <1>3, GbnAssumption
  <2> QED
    BY <1>2, <1>3, <2>1, NumInjective
<1>4. /\ Len(sendBuf) \in Nat /\ unSent \in 0 .. Len(sendBuf)
      /\ unAck_segNum = Len(sendBuf) - unSent
      /\ LastSent = Base + unAck_segNum
  BY DEF Window, LastSent
<1>5. ASSUME NEW m \in DOMAIN sendBuf
      PROVE  sendBuf[m].seq = Num((Base + m) - 1)
  <2>1. sendBuf[m] = Seg(Base + m)
    BY DEF Numbers, SenderNumbers
  <2> QED
    BY <2>1, SegFields
<1>6. DOMAIN sendBuf = 1 .. Len(sendBuf)
  BY DEF Window
<1>7. /\ Len(Sent) = unAck_segNum
      /\ \A m \in DOMAIN Sent : /\ m \in 1 .. unAck_segNum
                               /\ Sent[m].seq = Num((Base + m) - 1)
  <2>1. /\ Len(Sent) = unAck_segNum /\ DOMAIN Sent = 1 .. unAck_segNum
        /\ \A m \in 1 .. unAck_segNum : Sent[m] = sendBuf[m]
    BY <1>4, SentElements DEF Window
  <2>2. \A m \in 1 .. unAck_segNum : m \in DOMAIN sendBuf
    BY <1>4, <1>6
  <2> QED
    BY <1>5, <2>1, <2>2
<1>8. CASE AcksAll(Num(g))
  <2>1. g = LastSent
    <3>1. CASE unSent # 0
      <4>1. unAck_segNum + 1 \in DOMAIN sendBuf
        BY <1>4, <1>6, <3>1
      <4>2. Num(g) = sendBuf[unAck_segNum + 1].seq
        BY <1>4, <1>8, <3>1 DEF AcksAll
      <4>3. sendBuf[unAck_segNum + 1].seq = Num((Base + (unAck_segNum + 1)) - 1)
        BY <1>5, <4>1
      <4>4. (Base + (unAck_segNum + 1)) - 1 = LastSent
        BY <1>1, <1>4
      <4>5. Num(LastSent) = Num(g)
        BY <4>2, <4>3, <4>4
      <4> QED
        BY <1>1, <1>3, <4>5
    <3>2. CASE unSent = 0
      <4>1. Num(g) = Num(accepted)
        BY <1>8, <3>2 DEF AcksAll, Numbers, SenderNumbers
      <4>2. LastSent = Base + Len(sendBuf) /\ accepted \in {LastSent, LastSent + 1}
        BY <1>1, <1>4, <3>2
      <4>3. accepted = g
        BY <1>1, <1>3, <4>1, <4>2
      <4> QED
        BY <1>1, <1>2, <4>2, <4>3
    <3> QED
      BY <3>1, <3>2
  <2>2. Freed(Num(g)) = unAck_segNum
    BY <1>7, <1>8 DEF Freed
  <2> QED
    BY <1>4, <2>1, <2>2
<1>9. CASE ~AcksAll(Num(g))
  <2>1. Freed(Num(g)) = Cardinality(Before(Num(g)))
    BY <1>9 DEF Freed
  <2>2. CASE \E m \in DOMAIN Sent : Sent[m].seq = Num(g)
    <3>1. PICK m \in DOMAIN Sent : Sent[m].seq = Num(g)
      BY <2>2
    <3>2. m \in 1 .. unAck_segNum /\ Num((Base + m) - 1) = Num(g)
      BY <1>7, <3>1
    <3>3. (Base + m) - 1 = g
      <4>1. /\ (Base + m) - 1 \in Nat /\ Base =< (Base + m) - 1
            /\ (Base + m) - 1 =< LastSent + 1 /\ (Base + m) - 1 =< accepted
        <5>1. /\ m \in Nat /\ m >= 1 /\ Base + m =< LastSent
              /\ Base \in Nat /\ LastSent \in Nat /\ accepted \in Nat /\ LastSent =< accepted
          BY <1>1, <1>4, <3>2
        <5> QED
          BY <5>1
      <4> QED
        BY <1>3, <3>2, <4>1
    <3>4. Before(Num(g)) \subseteq 1 .. m - 1
      BY <1>7, <3>1, <3>2 DEF Before
    <3>5. m - 1 \in Nat
      BY <3>2
    <3>6. /\ IsFiniteSet(1 .. m - 1) /\ Cardinality(1 .. m - 1) = m - 1
      BY <3>5, IntervalCardinality
    <3>7. Cardinality(Before(Num(g))) \in Nat /\ Cardinality(Before(Num(g))) =< m - 1
      BY <3>4, <3>6, FS_Subset, FS_CardinalityType
    <3> QED
      BY <1>1, <1>2, <2>1, <3>2, <3>3, <3>7
  <2>3. CASE ~(\E m \in DOMAIN Sent : Sent[m].seq = Num(g))
    <3>1. Before(Num(g)) = {}
      BY <2>3 DEF Before
    <3> QED
      BY <2>1, <3>1, FS_EmptySet
  <2> QED
    BY <2>2, <2>3
<1> QED
  BY <1>8, <1>9
-----------------------------------------------------------------------------
(* Each step keeps the inductive invariant.                                *)

(* Reading from the receive buffer does not change what has arrived.       *)
LEMMA ReadingMoves ==
    ASSUME NEW T, NEW s \in Seq(T), NEW t \in Seq(T), NEW n \in 0 .. Len(t)
    PROVE  (s \o SubSeq(t, 1, n)) \o SubSeq(t, n + 1, Len(t)) = s \o t
<1> DEFINE a == SubSeq(t, 1, n)
           b == SubSeq(t, n + 1, Len(t))
<1>1. /\ a \in Seq(T) /\ Len(a) = n
      /\ \A i \in 1 .. n : a[i] = t[i]
  BY PrefixElements
<1>2. /\ b \in Seq(T) /\ Len(b) = Len(t) - n
      /\ \A i \in 1 .. Len(t) - n : b[i] = t[n + i]
  BY SuffixElements
<1> HIDE DEF a, b
<1>3. a \o b \in Seq(T) /\ Len(a \o b) = Len(t)
  <2>1. a \o b \in Seq(T) /\ Len(a \o b) = Len(a) + Len(b)
    BY <1>1, <1>2, ConcatProperties
  <2>2. Len(t) \in Nat /\ n \in Nat
    OBVIOUS
  <2> QED
    BY <1>1, <1>2, <2>1, <2>2
<1>4. ASSUME NEW i \in 1 .. Len(t)
      PROVE  (a \o b)[i] = t[i]
  <2>1. CASE i =< n
    BY <1>1, <1>2, <2>1
  <2>2. CASE i > n
    <3>1. i - n \in 1 .. Len(t) - n /\ n + (i - n) = i
      BY <2>2
    <3>2. b[i - n] = t[i]
      BY <1>2, <3>1
    <3>3. (a \o b)[i] = b[i - n]
      BY <1>1, <1>2, <2>2
    <3> QED
      BY <3>2, <3>3
  <2>3. n \in Nat /\ i \in Nat
    BY <1>2
  <2>4. i =< n \/ i > n
    BY <2>3
  <2> QED
    BY <2>1, <2>2, <2>4
<1>5. a \o b = t
  BY <1>3, <1>4, SeqEqual
<1>6. (s \o a) \o b = s \o (a \o b)
  <2>1. a \in Seq(T) /\ b \in Seq(T)
    BY <1>1, <1>2
  <2> QED
    BY <2>1, ConcatAssociative
<1> QED
  BY <1>5, <1>6 DEF a, b

(* Storing a payload adds it at the end of what has arrived.               *)
LEMMA StoringAppends ==
    ASSUME NEW T, NEW s \in Seq(T), NEW t \in Seq(T), NEW e \in T
    PROVE  s \o Append(t, e) = Append(s \o t, e)
<1>1. s \o Append(t, e) \in Seq(T) /\ Append(s \o t, e) \in Seq(T)
  OBVIOUS
<1>2. Len(s \o Append(t, e)) = Len(Append(s \o t, e))
  OBVIOUS
<1>3. ASSUME NEW i \in 1 .. Len(s \o Append(t, e))
      PROVE  (s \o Append(t, e))[i] = Append(s \o t, e)[i]
  OBVIOUS
<1> QED
  BY <1>1, <1>2, <1>3, SeqEqual

(* What happens to Received.                                               *)
LEMMA ReceiveKeepsReceived ==
    ASSUME TypeOK, NEW length \in 1 .. MaxData, Receive(length)
    PROVE  Received' = Received
<1>1. length \in 0 .. Len(recvBuf)
  BY DEF Receive, TypeOK
<1>2. Received' = (taken \o SubSeq(recvBuf, 1, length))
                     \o SubSeq(recvBuf, length + 1, Len(recvBuf))
  BY DEF Receive, Received
<1> QED
  BY <1>1, <1>2, ReadingMoves DEF TypeOK, Received

(* A DATA segment handled adds the next payload of the stream to what the
   receiver has, or nothing.                                               *)
LEMMA HandleDataReceived ==
    ASSUME TypeOK, Window, Numbers, NEW seg \in Segment, HandleData(seg)
    PROVE  \/ Received' = Received /\ expect_seqNum' = expect_seqNum
           \/ /\ Received' = Append(Received, Len(Received) + 1)
              /\ expect_seqNum' = Following(expect_seqNum)
              /\ seg.data = Len(Received) + 1
<1>1. PICK n \in Arriving(toReceiver) : toReceiver[n] = seg
  BY DEF HandleData
<1>2. CASE Expected(seg)
  <2>1. seg.data = Len(Received) + 1
    BY <1>1, <1>2, ExpectedIsNext
  <2>2. /\ recvBuf' = Append(recvBuf, seg.data) /\ taken' = taken
        /\ expect_seqNum' = Following(expect_seqNum)
    BY <1>2 DEF HandleData
  <2>3. seg.data \in 1 .. MaxData
    BY DEF Segment
  <2>4. taken \o Append(recvBuf, seg.data) = Append(taken \o recvBuf, seg.data)
    <3>1. taken \in Seq(1 .. MaxData) /\ recvBuf \in Seq(1 .. MaxData)
      BY DEF TypeOK
    <3> QED
      BY <2>3, <3>1, StoringAppends, SMTT(20)
  <2> QED
    BY <2>1, <2>2, <2>4 DEF Received
<1>3. CASE ~Expected(seg)
  BY <1>3 DEF HandleData, Received
<1> QED
  BY <1>2, <1>3

(* stcp_send numbers a segment.                                            *)
LEMMA BeginSendNumbers ==
    ASSUME TypeOK, Window, Numbers, TypeOK', BeginSend
    PROVE  Numbers'
<1> USE DEF tcb, sender, receiver
<1>1. accepted \in Nat /\ next_seqNum = Num(accepted) /\ building = NoSeg
  BY DEF TypeOK, BeginSend, Numbers, SenderNumbers
<1>2. building' = [seq |-> Num(accepted), data |-> accepted + 1]
  BY <1>1 DEF BeginSend
<1>3. (accepted + 1) - 1 = accepted
  BY <1>1
<1>4. building' = Seg(accepted')
  BY <1>2, <1>3 DEF BeginSend, Seg
<1>5. building' # NoSeg
  <2>1. accepted + 1 \in 1 .. MaxData /\ Num(accepted) \in SeqNum
    BY <1>1, NumFollowing, GbnAssumption DEF BeginSend
  <2> QED
    BY <1>2, <2>1, NoSegAssumption DEF Segment
<1>6. Base' = Base /\ LastSent' = LastSent
  <2>1. Base' = accepted + 1 - 1 - Len(sendBuf) /\ Base = accepted - 0 - Len(sendBuf)
    BY <1>1, <1>5 DEF BeginSend, Base
  <2>2. Base' = Base
    BY <1>1, <2>1 DEF TypeOK
  <2> QED
    BY <2>2 DEF BeginSend, LastSent
<1>7. next_seqNum' = Num(accepted')
  BY <1>1, NumFollowing DEF BeginSend
<1>8. SenderNumbers'
  BY <1>4, <1>6, <1>7 DEF Numbers, SenderNumbers, BeginSend
<1>9. Received' = Received
  BY DEF BeginSend, Received
<1>10. ReceiverNumbers'
  BY <1>6, <1>9 DEF Numbers, ReceiverNumbers, BeginSend
<1> QED
  BY <1>6, <1>8, <1>9, <1>10 DEF Numbers, BeginSend

(* stcp_send appends the segment it has numbered.                          *)
LEMMA FinishSendNumbers ==
    ASSUME TypeOK, Window, Numbers, TypeOK', Window', FinishSend
    PROVE  Numbers'
<1> USE DEF tcb, sender, receiver
<1>1. /\ Base \in Nat /\ LastSent \in Nat
      /\ Base + Len(sendBuf) + (IF building = NoSeg THEN 0 ELSE 1) = accepted
      /\ Base =< LastSent /\ LastSent =< Base + GBN_WINDOW
  BY Places DEF Numbers, SenderNumbers
<1>2. /\ sendBuf' = Append(sendBuf, building)
      /\ unAck_segNum' >= unAck_segNum
      /\ \A i \in DOMAIN toReceiver' :
            \/ i \in DOMAIN toReceiver /\ toReceiver'[i] = toReceiver[i]
            \/ /\ i > Len(toReceiver)
               /\ \E m \in unAck_segNum + 1 .. unAck_segNum' : toReceiver'[i] = sendBuf'[m]
  BY FinishSendEffect
<1>3. building # NoSeg /\ building' = NoSeg /\ accepted' = accepted /\ building \in Segment
  BY DEF FinishSend, TypeOK
<1>4. /\ Len(sendBuf') = Len(sendBuf) + 1
      /\ Len(sendBuf) \in Nat /\ DOMAIN sendBuf = 1 .. Len(sendBuf)
  BY <1>2, <1>3 DEF Window
<1>5. Base' = Base
  BY <1>1, <1>3, <1>4 DEF Base, TypeOK
<1>6. accepted = Base + (Len(sendBuf) + 1)
  BY <1>1, <1>3, <1>4
<1>7. ASSUME NEW n \in DOMAIN sendBuf'
      PROVE  sendBuf'[n] = Seg(Base' + n)
  <2>1. CASE n = Len(sendBuf) + 1
    <3>1. sendBuf'[n] = building
      BY <1>2, <1>3, <2>1 DEF Window
    <3> QED
      BY <1>3, <1>5, <1>6, <2>1, <3>1 DEF Numbers, SenderNumbers
  <2>2. CASE n # Len(sendBuf) + 1
    <3>1. n \in DOMAIN sendBuf /\ sendBuf'[n] = sendBuf[n]
      BY <1>2, <1>3, <1>4, <2>2 DEF Window
    <3> QED
      BY <1>5, <3>1 DEF Numbers, SenderNumbers
  <2> QED
    BY <2>1, <2>2
<1>8. /\ unAck_segNum \in Nat /\ unAck_segNum' \in Nat
      /\ unAck_segNum' =< GBN_WINDOW /\ unAck_segNum' =< Len(sendBuf')
  BY DEF TypeOK, Window
<1>9. LastSent' \in Nat /\ LastSent =< LastSent' /\ LastSent' =< Base' + GBN_WINDOW
  <2> DEFINE k == unAck_segNum'
  <2>1. LastSent' = Base + k /\ LastSent = Base + unAck_segNum
    BY <1>5 DEF LastSent
  <2>2. k \in Nat /\ k >= unAck_segNum /\ k =< GBN_WINDOW
    BY <1>2, <1>8
  <2> HIDE DEF k
  <2>3. Base + k \in Nat /\ Base + unAck_segNum =< Base + k /\ Base + k =< Base + GBN_WINDOW
    BY <1>1, <1>8, <2>2, GbnAssumption
  <2> QED
    BY <1>5, <2>1, <2>3
<1>10. SenderNumbers'
  <2>1. next_seqNum' = Num(accepted')
    BY <1>3 DEF Numbers, SenderNumbers, FinishSend
  <2>2. resending' # NoSeg => \E d \in 1 .. LastSent' :
           resending' = Seg(d) /\ (TimerLocksSendBuf => d > Base')
    BY <1>1, <1>5, <1>9 DEF Numbers, SenderNumbers, FinishSend
  <2> QED
    BY <1>1, <1>3, <1>5, <1>7, <2>1, <2>2 DEF SenderNumbers
<1>11. Received' = Received /\ Len(Received) \in Nat
  BY DEF FinishSend, Received, TypeOK
<1>12. Len(Received) =< LastSent'
  BY <1>1, <1>9, <1>11 DEF Numbers, ReceiverNumbers
<1>13. ReceiverNumbers'
  BY <1>5, <1>11, <1>12 DEF Numbers, ReceiverNumbers, FinishSend
<1>14. DataFits(toReceiver', LastSent', Len(Received'))
  <2>1. ASSUME NEW i \in DOMAIN toReceiver',
               ~(i \in DOMAIN toReceiver /\ toReceiver'[i] = toReceiver[i])
        PROVE  i > Len(toReceiver) /\ \E d \in Base' + 1 .. LastSent' : toReceiver'[i] = Seg(d)
    <3>1. PICK m \in unAck_segNum + 1 .. unAck_segNum' : toReceiver'[i] = sendBuf'[m]
      BY <1>2, <2>1
    <3>2. m \in DOMAIN sendBuf'
      BY <1>4, <1>8, <3>1 DEF TypeOK
    <3>3. toReceiver'[i] = Seg(Base' + m)
      BY <1>7, <3>1, <3>2
    <3>4. Base' + m \in Base' + 1 .. LastSent'
      <4>1. Base' + m \in Base' + 1 .. Base' + unAck_segNum'
        <5>1. Base' \in Int /\ unAck_segNum \in Nat /\ unAck_segNum' \in Nat
          BY <1>1, <1>5, <1>8
        <5> QED
          BY <5>1, ShiftedPlace, Zenon
      <4> QED
        BY <4>1 DEF LastSent
    <3> QED
      BY <1>2, <2>1, <3>3, <3>4
  <2>2. toReceiver \in Seq(Segment) /\ toReceiver' \in Seq(Segment)
    BY DEF TypeOK
  <2>3. DataFits(toReceiver, LastSent, Len(Received)) /\ Base' \in Nat
    BY <1>1, <1>5 DEF Numbers
  <2>4. DataFits(toReceiver', LastSent', Len(Received))
    BY <1>1, <1>9, <1>11, <1>12, <2>1, <2>2, <2>3, DataSent
  <2> QED
    BY <1>11, <2>4
<1>15. AcksFit(toSender', Base', Len(Received'))
  BY <1>5, <1>11 DEF Numbers, FinishSend
<1> QED
  BY <1>10, <1>13, <1>14, <1>15 DEF Numbers

(* The timer picks the first segment that is not acknowledged.             *)
LEMMA TimerWakesNumbers ==
    ASSUME TypeOK, Window, Numbers, TimerWakes
    PROVE  Numbers'
<1> USE DEF tcb, sender, receiver
<1>1. /\ Base \in Nat /\ LastSent \in Nat
  BY Places DEF Numbers, SenderNumbers
<1>2. Base' = Base /\ LastSent' = LastSent /\ Received' = Received
  BY DEF TimerWakes, Base, LastSent, Received
<1>3. Len(Sent) \in Nat /\ Len(Sent) # 0 /\ Len(Sent) = unAck_segNum /\ Head(Sent) = Sent[1]
  <2>1. Sent \in Seq(Segment) /\ Len(Sent) = unAck_segNum
    BY SentElements DEF Window
  <2> QED
    BY <2>1 DEF TimerWakes
<1>4. 1 \in DOMAIN sendBuf /\ Sent[1] = sendBuf[1] /\ unAck_segNum >= 1
  BY <1>3, SentElements DEF Window
<1>5. resending' = Seg(Base + 1) /\ Base + 1 \in 1 .. LastSent
  BY <1>1, <1>3, <1>4 DEF TimerWakes, Numbers, SenderNumbers, LastSent
<1>6. SenderNumbers'
  BY <1>1, <1>2, <1>5 DEF Numbers, SenderNumbers, TimerWakes
<1>7. ReceiverNumbers'
  BY <1>2 DEF Numbers, ReceiverNumbers, TimerWakes
<1> QED
  BY <1>2, <1>6, <1>7 DEF Numbers, TimerWakes

(* The timer sends a segment of the list again.                            *)
LEMMA TimerResendsNumbers ==
    ASSUME TypeOK, Window, Numbers, TypeOK', TimerResends
    PROVE  Numbers'
<1> USE DEF tcb, sender, receiver
<1>1. /\ Base \in Nat /\ LastSent \in Nat
      /\ Base =< LastSent /\ LastSent =< Base + GBN_WINDOW
  BY Places DEF Numbers, SenderNumbers
<1>2. Base' = Base /\ LastSent' = LastSent /\ Received' = Received
  BY DEF TimerResends, Base, LastSent, Received
<1>3. PICK n \in DOMAIN sendBuf :
         /\ resending = sendBuf[n]
         /\ resending' = IF n < Len(Sent) THEN sendBuf[n + 1] ELSE NoSeg
  BY DEF TimerResends
<1>4. /\ Len(Sent) = unAck_segNum /\ unAck_segNum =< Len(sendBuf)
      /\ DOMAIN sendBuf = 1 .. Len(sendBuf) /\ Len(sendBuf) \in Nat /\ unAck_segNum \in Nat
  BY SentElements DEF Window
<1>5. resending \in Segment /\ resending # NoSeg
  BY <1>3, NoSegAssumption DEF Window
<1>6. PICK d \in 1 .. LastSent : resending = Seg(d)
  BY <1>5 DEF Numbers, SenderNumbers
<1>7. resending = Seg(Base + n)
  BY <1>3 DEF Numbers, SenderNumbers
<1>8. d = Base + n
  <2>1. Seg(d).data = d /\ Seg(Base + n).data = Base + n
    BY SegFields
  <2> QED
    BY <1>6, <1>7, <2>1
<1>9. d \in Base + 1 .. LastSent
  BY <1>1, <1>3, <1>4, <1>6, <1>8
<1>10. SenderNumbers'
  <2>1. CASE n < Len(Sent)
    <3>1. n + 1 \in DOMAIN sendBuf /\ resending' = sendBuf[n + 1]
      BY <1>3, <1>4, <2>1
    <3>2. resending' = Seg(Base + (n + 1))
      BY <3>1 DEF Numbers, SenderNumbers
    <3>3. Base + (n + 1) \in 1 .. LastSent /\ Base + (n + 1) > Base
      BY <1>1, <1>3, <1>4, <2>1 DEF LastSent
    <3> QED
      BY <1>2, <3>2, <3>3 DEF Numbers, SenderNumbers, TimerResends
  <2>2. CASE ~(n < Len(Sent))
    BY <1>2, <1>3, <2>2 DEF Numbers, SenderNumbers, TimerResends
  <2> QED
    BY <2>1, <2>2
<1>11. ReceiverNumbers'
  BY <1>2 DEF Numbers, ReceiverNumbers, TimerResends
<1>12. Len(Received) \in Nat /\ Len(Received) =< LastSent
  BY DEF TypeOK, Received, Numbers, ReceiverNumbers
<1>13. DataFits(toReceiver', LastSent, Len(Received))
  <2>1. toReceiver \in Seq(Segment) /\ toReceiver' \in Seq(Segment)
    BY DEF TypeOK
  <2>2. toReceiver' = Carry(toReceiver, <<resending>>)
    BY DEF TimerResends
  <2>3. ASSUME NEW i \in DOMAIN toReceiver'
        PROVE  \/ i \in DOMAIN toReceiver /\ toReceiver'[i] = toReceiver[i]
               \/ i > Len(toReceiver) /\ \E e \in Base + 1 .. LastSent : toReceiver'[i] = Seg(e)
    <3>1. \/ i \in DOMAIN toReceiver /\ toReceiver'[i] = toReceiver[i]
          \/ i > Len(toReceiver) /\ toReceiver'[i] = resending
      BY <1>5, <2>1, <2>2, CarryOne
    <3> QED
      BY <1>6, <1>9, <3>1
  <2>4. DataFits(toReceiver, LastSent, Len(Received)) /\ LastSent =< LastSent
    BY <1>1 DEF Numbers
  <2> QED
    BY <1>1, <1>12, <2>1, <2>3, <2>4, DataSent
<1> QED
  BY <1>2, <1>10, <1>11, <1>13 DEF Numbers, TimerResends

(* The timer ends.                                                         *)
LEMMA TimerExitsNumbers ==
    ASSUME Numbers, TimerExits
    PROVE  Numbers'
<1> USE DEF tcb, sender, receiver
<1>1. Base' = Base /\ LastSent' = LastSent /\ Received' = Received
  BY DEF TimerExits, Base, LastSent, Received
<1>2. SenderNumbers'
  BY <1>1 DEF Numbers, SenderNumbers, TimerExits
<1>3. ReceiverNumbers'
  BY <1>1 DEF Numbers, ReceiverNumbers, TimerExits
<1> QED
  BY <1>1, <1>2, <1>3 DEF Numbers, TimerExits

(* The DATAACK branch frees what the acknowledgement lies behind.          *)
LEMMA HandleDataAckNumbers ==
    ASSUME TypeOK, Window, Numbers, TypeOK', Window',
           NEW ack \in SeqNum, HandleDataAck(ack)
    PROVE  Numbers'
<1> USE DEF tcb, sender, receiver
<1>1. /\ Base \in Nat /\ LastSent \in Nat
      /\ Base + Len(sendBuf) + (IF building = NoSeg THEN 0 ELSE 1) = accepted
      /\ Base =< LastSent /\ LastSent =< Base + GBN_WINDOW
  BY Places DEF Numbers, SenderNumbers
<1>2. PICK c \in Arriving(toSender) : toSender[c] = ack /\ toSender' = RemoveAt(toSender, c)
  BY DEF HandleDataAck
<1>3. c \in DOMAIN toSender /\ (~Reordering => c = 1)
  BY DEF Arriving
<1>4. PICK g \in 0 .. Len(Received) : ack = Num(g) /\ (~Reordering => Base =< g)
  BY <1>2, <1>3 DEF Numbers, AcksFit
<1>5. /\ accepted' = accepted /\ building' = building /\ next_seqNum' = next_seqNum
      /\ resending' = resending /\ expect_seqNum' = expect_seqNum
      /\ recvBuf' = recvBuf /\ taken' = taken
      /\ SendBufFree
  BY DEF HandleDataAck
<1>6. Received' = Received /\ Len(Received) \in Nat
  BY <1>5 DEF Received, TypeOK
<1>7. CASE sendBuf = <<>>
  <2>1. Base' = Base /\ LastSent' = LastSent /\ toReceiver' = toReceiver
        /\ sendBuf' = sendBuf /\ unAck_segNum' = unAck_segNum
    BY <1>5, <1>7 DEF HandleDataAck, Base, LastSent
  <2>2. SenderNumbers'
    BY <1>5, <2>1 DEF Numbers, SenderNumbers
  <2>3. ReceiverNumbers'
    BY <1>5, <1>6, <2>1 DEF Numbers, ReceiverNumbers
  <2>4. AcksFit(RemoveAt(toSender, c), Base, Len(Received))
    <3>1. toSender \in Seq(SeqNum) /\ AcksFit(toSender, Base, Len(Received)) /\ Base =< Base
      BY <1>1 DEF TypeOK, Numbers
    <3>2. ~Reordering => \A i \in DOMAIN toSender \ {c} :
                            \E h \in Base .. Len(Received) : toSender[i] = Num(h)
      BY <1>1, <1>6, <3>1 DEF AcksFit
    <3> QED
      BY <1>1, <1>3, <1>6, <3>1, <3>2, AckTaken
  <2> QED
    BY <1>2, <1>6, <2>1, <2>2, <2>3, <2>4 DEF Numbers
<1>8. CASE sendBuf # <<>>
  <2> DEFINE n == Freed(ack)
             k == unAck_segNum'
             base == Base + n
  <2>1. /\ n \in 0 .. Len(Sent)
        /\ sendBuf' = SubSeq(sendBuf, n + 1, Len(sendBuf))
        /\ k + n >= unAck_segNum
        /\ \A i \in DOMAIN toReceiver' :
              \/ i \in DOMAIN toReceiver /\ toReceiver'[i] = toReceiver[i]
              \/ /\ i > Len(toReceiver)
                 /\ \E m \in unAck_segNum - n + 1 .. k : toReceiver'[i] = sendBuf'[m]
    BY <1>8, HandleDataAckEffect
  <2>2. n = 0 \/ Base + n =< g
    BY <1>4, FreedArrived
  <2>3. /\ Len(Sent) = unAck_segNum /\ unAck_segNum =< Len(sendBuf) /\ unAck_segNum \in Nat
        /\ Len(sendBuf) \in Nat /\ DOMAIN sendBuf = 1 .. Len(sendBuf)
    BY SentElements DEF Window
  <2>4. k \in Nat /\ k =< GBN_WINDOW /\ k =< Len(sendBuf')
    <3>1. k \in Nat
      BY DEF TypeOK
    <3>2. k =< GBN_WINDOW /\ k =< Len(sendBuf')
      BY DEF Window
    <3> QED
      BY <3>1, <3>2
  <2> HIDE DEF n, k
  <2>5. n \in Nat /\ n \in 0 .. Len(sendBuf) /\ n =< unAck_segNum
    BY <2>1, <2>3
  <2>6. /\ Len(sendBuf') = Len(sendBuf) - n
        /\ DOMAIN sendBuf' = 1 .. Len(sendBuf) - n
        /\ \A i \in 1 .. Len(sendBuf) - n : sendBuf'[i] = sendBuf[n + i]
    <3>1. sendBuf \in Seq(Segment)
      BY DEF Window
    <3> QED
      BY <2>1, <2>5, <3>1, SuffixElements, SMTT(20)
  <2>7. Base' = base /\ base \in Nat
    <3>1. Base' = accepted - (IF building = NoSeg THEN 0 ELSE 1) - (Len(sendBuf) - n)
      BY <1>5, <2>6 DEF Base
    <3>2. accepted - (IF building = NoSeg THEN 0 ELSE 1) - Len(sendBuf) = Base
      BY DEF Base
    <3> QED
      BY <1>1, <2>3, <2>5, <3>1, <3>2 DEF TypeOK
  <2>8. LastSent' = base + k
    BY <2>7 DEF LastSent, k
  <2> DEFINE last == base + k
  <2>9. last \in Nat /\ LastSent =< last /\ last =< base + GBN_WINDOW
    <3>1. LastSent = Base + unAck_segNum
      BY DEF LastSent
    <3> QED
      BY <1>1, <2>1, <2>3, <2>4, <2>5, <3>1, GbnAssumption
  <2>10. base =< Len(Received) /\ Len(Received) =< last /\ (Base =< base)
    BY <1>1, <1>4, <1>6, <2>2, <2>5, <2>9 DEF Numbers, ReceiverNumbers
  <2> HIDE DEF base, last
  <2>11. ASSUME NEW i \in DOMAIN sendBuf'
         PROVE  sendBuf'[i] = Seg(base + i)
    <3>1. n + i \in DOMAIN sendBuf /\ sendBuf'[i] = sendBuf[n + i]
      BY <2>3, <2>5, <2>6
    <3>2. Base + (n + i) = base + i
      BY <1>1, <2>3, <2>5, <2>6 DEF base
    <3> QED
      BY <3>1, <3>2 DEF Numbers, SenderNumbers
  <2>12. SenderNumbers'
    <3>1. resending' # NoSeg => \E d \in 1 .. last :
             resending' = Seg(d) /\ (TimerLocksSendBuf => d > base)
      <4>1. ASSUME resending # NoSeg
            PROVE  ~TimerLocksSendBuf /\ \E d \in 1 .. LastSent : resending = Seg(d)
        BY <1>5, <4>1 DEF SendBufFree, Numbers, SenderNumbers
      <4> QED
        BY <1>1, <1>5, <2>9, <4>1
    <3>2. next_seqNum' = Num(accepted') /\ (building' # NoSeg => building' = Seg(accepted'))
      BY <1>5 DEF Numbers, SenderNumbers
    <3>3. Base' >= 0
      BY <2>7
    <3>4. LastSent' = last
      BY <2>8 DEF last
    <3> QED
      BY <2>7, <2>11, <3>1, <3>2, <3>3, <3>4 DEF SenderNumbers
  <2>13. ReceiverNumbers'
    <3>1. LastSent' = last
      BY <2>8 DEF last
    <3> QED
      BY <1>5, <1>6, <2>7, <2>10, <3>1 DEF Numbers, ReceiverNumbers
  <2>14. DataFits(toReceiver', last, Len(Received))
    <3>1. ASSUME NEW i \in DOMAIN toReceiver',
                 ~(i \in DOMAIN toReceiver /\ toReceiver'[i] = toReceiver[i])
          PROVE  i > Len(toReceiver) /\ \E d \in base + 1 .. last : toReceiver'[i] = Seg(d)
      <4>1. PICK m \in unAck_segNum - n + 1 .. k : toReceiver'[i] = sendBuf'[m]
        BY <2>1, <3>1
      <4>2. m \in 1 .. k
        BY <2>3, <2>4, <2>5
      <4>3. m \in DOMAIN sendBuf'
        BY <2>3, <2>4, <2>5, <2>6, <4>2
      <4>4. toReceiver'[i] = Seg(base + m)
        BY <2>11, <4>1, <4>3
      <4>5. base + m \in base + 1 .. last
        BY <2>4, <2>7, <4>2 DEF last
      <4> QED
        BY <2>1, <3>1, <4>4, <4>5
    <3>2. toReceiver \in Seq(Segment) /\ toReceiver' \in Seq(Segment)
      BY DEF TypeOK
    <3>3. DataFits(toReceiver, LastSent, Len(Received))
      BY DEF Numbers
    <3> QED
      BY <1>1, <1>6, <2>7, <2>9, <2>10, <3>1, <3>2, <3>3, DataSent
  <2>15. AcksFit(RemoveAt(toSender, c), base, Len(Received))
    <3>1. toSender \in Seq(SeqNum) /\ AcksFit(toSender, Base, Len(Received))
      BY DEF TypeOK, Numbers
    <3>2. ASSUME ~Reordering, NEW i \in DOMAIN toSender \ {c}
          PROVE  \E h \in base .. Len(Received) : toSender[i] = Num(h)
      <4>1. PICK h \in 0 .. Len(Received) : toSender[i] = Num(h) /\ Base =< h
        BY <3>1, <3>2 DEF AcksFit
      <4>2. c = 1 /\ 1 \in 1 .. i
        BY <1>3, <3>1, <3>2
      <4>3. g \in Base .. Len(Received) /\ h \in Base .. Len(Received)
        BY <1>1, <1>4, <1>6, <3>2, <4>1
      <4>4. g =< h
        BY <1>2, <1>4, <3>1, <3>2, <4>1, <4>2, <4>3 DEF AcksFit
      <4>5. base =< h
        BY <1>1, <1>4, <1>6, <2>2, <2>5, <2>7, <3>2, <4>1, <4>4 DEF base
      <4> QED
        BY <1>6, <2>7, <4>1, <4>5
    <3> QED
      BY <1>1, <1>3, <1>6, <2>7, <2>10, <3>1, <3>2, AckTaken
  <2> QED
    BY <1>2, <1>6, <2>7, <2>8, <2>12, <2>13, <2>14, <2>15 DEF Numbers, last
<1> QED
  BY <1>7, <1>8

(* The DATA branch stores the segment or not, and answers.                 *)
LEMMA HandleDataNumbers ==
    ASSUME TypeOK, Window, Numbers, TypeOK', NEW seg \in Segment, HandleData(seg)
    PROVE  Numbers'
<1> USE DEF tcb, sender, receiver
<1>1. /\ Base \in Nat /\ LastSent \in Nat
      /\ Base =< LastSent /\ LastSent =< Base + GBN_WINDOW
  BY Places DEF Numbers, SenderNumbers
<1>2. PICK n \in Arriving(toReceiver) :
         toReceiver[n] = seg /\ toReceiver' = RemoveAt(toReceiver, n)
  BY DEF HandleData
<1>3. n \in DOMAIN toReceiver /\ (~Reordering => n = 1)
  BY <1>2 DEF Arriving
<1>4. Base' = Base /\ LastSent' = LastSent
  BY DEF HandleData, Base, LastSent
<1>5. SenderNumbers'
  BY <1>4 DEF HandleData, Numbers, SenderNumbers
<1> DEFINE r == Len(Received)
           q == Len(Received')
<1>6. r \in Nat /\ Base =< r /\ r =< LastSent /\ Received \in Seq(1 .. MaxData)
      /\ expect_seqNum = Num(r) /\ \A i \in DOMAIN Received : Received[i] = i
  <2>1. Received \in Seq(1 .. MaxData)
    BY DEF TypeOK, Received
  <2> QED
    BY <2>1 DEF Numbers, ReceiverNumbers
<1>7. seg.data \in 1 .. LastSent /\ DataFits(toReceiver, LastSent, r)
      /\ toReceiver \in Seq(Segment)
  BY <1>2, <1>3 DEF Numbers, DataFits, TypeOK
<1>8. /\ \/ Received' = Received /\ q = r
         \/ Received' = Append(Received, r + 1) /\ q = r + 1 /\ seg.data = r + 1
      /\ expect_seqNum' = Num(q)
  <2>1. CASE Received' = Received /\ expect_seqNum' = expect_seqNum
    BY <1>6, <2>1
  <2>2. CASE /\ Received' = Append(Received, r + 1)
             /\ expect_seqNum' = Following(expect_seqNum)
             /\ seg.data = r + 1
    <3>1. Len(Append(Received, r + 1)) = r + 1
      BY <1>6
    <3>2. Following(expect_seqNum) = Num(r + 1)
      BY <1>6, NumFollowing
    <3> QED
      BY <2>2, <3>1, <3>2
  <2> QED
    BY <2>1, <2>2, HandleDataReceived
<1> HIDE DEF q, r
<1>9. q \in Nat /\ r =< q /\ q =< LastSent /\ q \in {r, seg.data}
  BY <1>1, <1>6, <1>7, <1>8
<1>10. ReceiverNumbers'
  <2>1. \A i \in DOMAIN Received' : Received'[i] = i
    <3>1. CASE Received' = Received
      BY <1>6, <3>1
    <3>2. CASE Received' = Append(Received, r + 1)
      BY <1>6, <3>2 DEF r
    <3> QED
      BY <1>8, <3>1, <3>2
  <2>2. Base' =< q /\ q =< LastSent'
    BY <1>1, <1>4, <1>6, <1>9
  <2> QED
    BY <1>8, <2>1, <2>2 DEF ReceiverNumbers, q
<1>11. DataFits(toReceiver', LastSent', q)
  <2>1. ASSUME ~Reordering, NEW i \in DOMAIN toReceiver \ {n}
        PROVE  q < toReceiver[i].data + GBN_WINDOW
    <3>1. n = 1 /\ 1 \in 1 .. i - 1
      BY <1>3, <1>7, <2>1
    <3>2. /\ r < toReceiver[i].data + GBN_WINDOW
          /\ seg.data < toReceiver[i].data + GBN_WINDOW
      BY <1>2, <1>7, <2>1, <3>1 DEF DataFits
    <3> QED
      BY <1>9, <3>2
  <2>2. DataFits(RemoveAt(toReceiver, n), LastSent, q)
    BY <1>1, <1>3, <1>6, <1>7, <1>9, <2>1, DataTaken
  <2> QED
    BY <1>2, <1>4, <2>2
<1>12. AcksFit(toSender', Base', q)
  <2>1. toSender' = Carry(toSender, <<Num(q)>>)
    BY <1>8 DEF HandleData
  <2>2. toSender \in Seq(SeqNum) /\ toSender' \in Seq(SeqNum) /\ AcksFit(toSender, Base, r)
    BY DEF TypeOK, Numbers, r
  <2>3. Num(q) \in SeqNum
    BY <1>9, NumFollowing
  <2>4. \A i \in DOMAIN toSender' :
           \/ i \in DOMAIN toSender /\ toSender'[i] = toSender[i]
           \/ i > Len(toSender) /\ toSender'[i] = Num(q)
    BY <2>1, <2>2, <2>3, CarryOne
  <2>5. q =< Base + GBN_WINDOW
    BY <1>1, <1>9, GbnAssumption
  <2>6. AcksFit(toSender', Base, q)
    BY <1>1, <1>6, <1>9, <2>2, <2>4, <2>5, AckGiven
  <2> QED
    BY <1>4, <2>6
<1> QED
  BY <1>5, <1>10, <1>11, <1>12 DEF Numbers, q

(* The receiving program reads.                                            *)
LEMMA ReceiveNumbers ==
    ASSUME TypeOK, Numbers, NEW length \in 1 .. MaxData, Receive(length)
    PROVE  Numbers'
<1> USE DEF tcb, sender, receiver
<1>1. Base' = Base /\ LastSent' = LastSent
  BY DEF Receive, Base, LastSent
<1>2. Received' = Received
  BY ReceiveKeepsReceived
<1>3. SenderNumbers'
  BY <1>1 DEF Numbers, SenderNumbers, Receive
<1>4. ReceiverNumbers'
  BY <1>1, <1>2 DEF Numbers, ReceiverNumbers, Receive
<1> QED
  BY <1>1, <1>2, <1>3, <1>4 DEF Numbers, Receive

(* A segment or an acknowledgement is lost.                                *)
LEMMA LoseNumbers ==
    ASSUME TypeOK, Window, Numbers, Lose
    PROVE  Numbers'
<1> USE DEF tcb, sender, receiver
<1>1. /\ Base \in Nat /\ LastSent \in Nat /\ Base =< Base
  BY Places DEF Numbers, SenderNumbers
<1>2. Base' = Base /\ LastSent' = LastSent /\ Received' = Received
  BY DEF Lose, Base, LastSent, Received
<1>3. SenderNumbers' /\ ReceiverNumbers'
  <2>1. SenderNumbers'
    BY <1>2 DEF Numbers, SenderNumbers, Lose
  <2>2. ReceiverNumbers'
    BY <1>2 DEF Numbers, ReceiverNumbers, Lose
  <2> QED
    BY <2>1, <2>2
<1>4. /\ Len(Received) \in Nat
      /\ toReceiver \in Seq(Segment) /\ DataFits(toReceiver, LastSent, Len(Received))
      /\ toSender \in Seq(SeqNum) /\ AcksFit(toSender, Base, Len(Received))
  BY DEF TypeOK, Received, Numbers
<1>5. CASE /\ toSender' = toSender
           /\ \E n \in Arriving(toReceiver) : toReceiver' = RemoveAt(toReceiver, n)
  <2>1. PICK n \in DOMAIN toReceiver : toReceiver' = RemoveAt(toReceiver, n)
    BY <1>5 DEF Arriving
  <2>2. ~Reordering => \A i \in DOMAIN toReceiver \ {n} :
                          Len(Received) < toReceiver[i].data + GBN_WINDOW
    BY <1>4 DEF DataFits
  <2>3. DataFits(RemoveAt(toReceiver, n), LastSent, Len(Received))
    BY <1>1, <1>4, <2>2, DataTaken
  <2> QED
    BY <1>2, <1>3, <1>4, <1>5, <2>1, <2>3 DEF Numbers
<1>6. CASE /\ toReceiver' = toReceiver
           /\ \E n \in Arriving(toSender) : toSender' = RemoveAt(toSender, n)
  <2>1. PICK n \in DOMAIN toSender : toSender' = RemoveAt(toSender, n)
    BY <1>6 DEF Arriving
  <2>2. ~Reordering => \A i \in DOMAIN toSender \ {n} :
                          \E g \in Base .. Len(Received) : toSender[i] = Num(g)
    BY <1>1, <1>4 DEF AcksFit
  <2>3. AcksFit(RemoveAt(toSender, n), Base, Len(Received))
    BY <1>1, <1>4, <2>2, AckTaken
  <2> QED
    BY <1>2, <1>3, <1>4, <1>6, <2>1, <2>3 DEF Numbers
<1> QED
  BY <1>5, <1>6 DEF Lose

(* The inductive invariant.                                                *)
LEMMA InvariantInit ==
    ASSUME Init
    PROVE  IInv
<1>1. TypeOK /\ Window
  BY TypeInit
<1>2. Base = 0 /\ LastSent = 0
  <2>1. accepted = 0 /\ building = NoSeg /\ Len(sendBuf) = 0 /\ unAck_segNum = 0
    BY DEF Init
  <2>2. Base = 0 - 0 - 0
    BY <2>1 DEF Base
  <2> QED
    BY <2>1, <2>2 DEF LastSent
<1>3. 0 = Num(0)
  BY GbnAssumption, Division DEF Num
<1>4. Received = <<>>
  BY DEF Init, Received
<1>5. SenderNumbers
  BY <1>2, <1>3 DEF Init, SenderNumbers
<1>6. ReceiverNumbers
  BY <1>2, <1>3, <1>4 DEF Init, ReceiverNumbers
<1>7. DataFits(toReceiver, LastSent, Len(Received)) /\ AcksFit(toSender, Base, Len(Received))
  BY DEF Init, DataFits, AcksFit
<1> QED
  BY <1>1, <1>5, <1>6, <1>7 DEF IInv, Numbers

(* Every step keeps the inductive invariant.                                *)
LEMMA InvariantStep ==
    ASSUME IInv, [Next]_vars
    PROVE  IInv'
<1>1. TypeOK /\ Window /\ Numbers
  BY DEF IInv
<1>2. TypeOK' /\ Window'
  BY <1>1, TypeStep
<1>3. CASE BeginSend
  BY <1>1, <1>2, <1>3, BeginSendNumbers DEF IInv
<1>4. CASE FinishSend
  BY <1>1, <1>2, <1>4, FinishSendNumbers DEF IInv
<1>5. CASE TimerWakes
  BY <1>1, <1>2, <1>5, TimerWakesNumbers DEF IInv
<1>6. CASE TimerResends
  BY <1>1, <1>2, <1>6, TimerResendsNumbers DEF IInv
<1>7. CASE TimerExits
  BY <1>1, <1>2, <1>7, TimerExitsNumbers DEF IInv
<1>8. ASSUME NEW ack \in SeqNum, HandleDataAck(ack)
      PROVE  IInv'
  BY <1>1, <1>2, <1>8, HandleDataAckNumbers DEF IInv
<1>9. ASSUME NEW seg \in Segment, HandleData(seg)
      PROVE  IInv'
  BY <1>1, <1>2, <1>9, HandleDataNumbers DEF IInv
<1>10. ASSUME NEW length \in 1 .. MaxData, Receive(length)
       PROVE  IInv'
  BY <1>1, <1>2, <1>10, ReceiveNumbers DEF IInv
<1>11. CASE Lose
  BY <1>1, <1>2, <1>11, LoseNumbers DEF IInv
<1>12. CASE UNCHANGED vars
  <2>1. Base' = Base /\ LastSent' = LastSent /\ Received' = Received
    BY <1>12 DEF vars, sender, receiver, tcb, Base, LastSent, Received
  <2>2. SenderNumbers'
    BY <1>1, <1>12, <2>1 DEF vars, sender, receiver, tcb, Numbers, SenderNumbers
  <2>3. ReceiverNumbers'
    BY <1>1, <1>12, <2>1 DEF vars, sender, receiver, tcb, Numbers, ReceiverNumbers
  <2> QED
    BY <1>1, <1>2, <1>12, <2>1, <2>2, <2>3 DEF vars, sender, receiver, tcb, IInv, Numbers
<1> QED
  BY <1>3, <1>4, <1>5, <1>6, <1>7, <1>8, <1>9, <1>10, <1>11, <1>12 DEF Next

-----------------------------------------------------------------------------
(* What follows.                                                           *)

(* A segment leaves the send buffer only after it has reached the receive  *)
(* buffer, whatever is lost, repeated or overtaken and however often the   *)
(* numbers have wrapped around; and when the send buffer is empty, the     *)
(* number that stcp_client_disconnect puts into the FIN is the one the     *)
(* server expects.                                                         *)
THEOREM NothingLostCorrect == Spec => []NothingLost
<1>1. Init => IInv
  BY InvariantInit
<1>2. IInv /\ [Next]_vars => IInv'
  BY InvariantStep
<1>3. IInv => NothingLost
  <2> SUFFICES ASSUME IInv
               PROVE  NothingLost
    OBVIOUS
  <2> DEFINE r == Len(Received)
             held == IF building = NoSeg THEN 0 ELSE 1
  <2>1. /\ Base \in Nat /\ Base + Len(sendBuf) + held = accepted
        /\ LastSent =< Base + Len(sendBuf) /\ LastSent \in Nat
    BY Places DEF IInv, Numbers, SenderNumbers
  <2>2. /\ r \in Nat /\ Base =< r /\ r =< LastSent
        /\ Len(sendBuf) \in Nat /\ DOMAIN sendBuf = 1 .. Len(sendBuf)
        /\ accepted \in Nat /\ held \in {0, 1}
    BY DEF IInv, Numbers, ReceiverNumbers, TypeOK, Received
  <2> HIDE DEF r
  <2>3. ASSUME NEW d \in 1 .. accepted
        PROVE  \/ d =< r
               \/ d \in {sendBuf[n].data : n \in DOMAIN sendBuf}
               \/ building # NoSeg /\ building.data = d
    <3>1. CASE d =< Base
      BY <2>1, <2>2, <3>1
    <3>2. CASE d > Base /\ d =< Base + Len(sendBuf)
      <4>1. d - Base \in DOMAIN sendBuf /\ Base + (d - Base) = d
        BY <2>1, <2>2, <3>2
      <4>2. sendBuf[d - Base] = Seg(d)
        BY <4>1 DEF IInv, Numbers, SenderNumbers
      <4> QED
        BY <4>1, <4>2, SegFields
    <3>3. CASE d > Base + Len(sendBuf)
      <4>1. building # NoSeg /\ d = accepted
        BY <2>1, <2>2, <3>3
      <4> QED
        BY <4>1, SegFields DEF IInv, Numbers, SenderNumbers
    <3> QED
      BY <2>1, <2>2, <3>1, <3>2, <3>3
  <2>4. ASSUME sendBuf = <<>>, building = NoSeg
        PROVE  next_seqNum = expect_seqNum /\ r = accepted
    <3>1. r = accepted
      BY <2>1, <2>2, <2>4
    <3> QED
      BY <3>1 DEF IInv, Numbers, SenderNumbers, ReceiverNumbers, r
  <2> QED
    BY <2>3, <2>4 DEF NothingLost, r
<1> QED
  BY <1>1, <1>2, <1>3, PTL DEF Spec

(* With the send buffer's own mutex held by sendBuf_timer, the segment it  *)
(* is about to send again is in the list: none is freed under its hands.   *)
(* (Without it, in the lab11 server, that is not so: see Gbn_server.cfg.)  *)
THEOREM TimerPointerCorrect ==
    ASSUME TimerLocksSendBuf
    PROVE  Spec => []TimerPointerLive
<1>1. Init => IInv
  BY InvariantInit
<1>2. IInv /\ [Next]_vars => IInv'
  BY InvariantStep
<1>3. IInv => TimerPointerLive
  <2> SUFFICES ASSUME IInv, resending # NoSeg
               PROVE  resending \in ToSet(sendBuf)
    BY DEF TimerPointerLive
  <2>1. Base \in Nat /\ LastSent =< Base + Len(sendBuf) /\ LastSent \in Nat
    BY Places DEF IInv, Numbers, SenderNumbers
  <2>2. DOMAIN sendBuf = 1 .. Len(sendBuf) /\ Len(sendBuf) \in Nat
    BY DEF IInv, TypeOK
  <2>3. PICK d \in 1 .. LastSent : resending = Seg(d) /\ d > Base
    BY DEF IInv, Numbers, SenderNumbers
  <2>4. d - Base \in DOMAIN sendBuf /\ Base + (d - Base) = d
    BY <2>1, <2>2, <2>3
  <2>5. sendBuf[d - Base] = resending
    BY <2>3, <2>4 DEF IInv, Numbers, SenderNumbers
  <2> QED
    BY <2>4, <2>5 DEF ToSet
<1> QED
  BY <1>1, <1>2, <1>3, PTL DEF Spec

(* The connection is a reliable stream: what has arrived is what was       *)
(* handed over, in order and exactly once.  A step hands a segment over,   *)
(* or makes the next one arrive, or changes nothing of the stream.         *)
THEOREM ReliableStreamImplemented == Spec => ImplementsReliableStream
<1>1. Init => IInv
  BY InvariantInit
<1>2. IInv /\ [Next]_vars => IInv'
  BY InvariantStep
<1>3. Init => Stream!Init
  <2> SUFFICES ASSUME Init
               PROVE  accepted = 0 /\ Received = <<>>
    BY DEF Stream!Init
  <2> QED
    BY DEF Init, Received
<1>4. IInv /\ IInv' /\ [Next]_vars => [Stream!Next]_(Stream!vars)
  <2> SUFFICES ASSUME IInv, IInv', [Next]_vars
               PROVE  \/ accepted' = accepted + 1 /\ Received' = Received
                      \/ /\ accepted' = accepted
                         /\ Len(Received) < accepted
                         /\ Received' = Append(Received, Len(Received) + 1)
                      \/ accepted' = accepted /\ Received' = Received
    BY DEF Stream!Next, Stream!Accept, Stream!Deliver, Stream!vars
  <2> USE DEF tcb, sender, receiver
  <2>1. CASE BeginSend
    BY <2>1 DEF BeginSend, Received
  <2>2. CASE FinishSend \/ TimerWakes \/ TimerResends \/ TimerExits \/ Lose \/ UNCHANGED vars
    BY <2>2 DEF FinishSend, TimerWakes, TimerResends, TimerExits, Lose, vars, Received
  <2>3. ASSUME NEW ack \in SeqNum, HandleDataAck(ack)
        PROVE  accepted' = accepted /\ Received' = Received
    BY <2>3 DEF HandleDataAck, Received
  <2>4. ASSUME NEW length \in 1 .. MaxData, Receive(length)
        PROVE  accepted' = accepted /\ Received' = Received
    <3>1. Received' = Received
      BY <2>4, ReceiveKeepsReceived DEF IInv
    <3> QED
      BY <2>4, <3>1 DEF Receive
  <2>5. ASSUME NEW seg \in Segment, HandleData(seg)
        PROVE  /\ accepted' = accepted
               /\ \/ Received' = Received
                  \/ /\ Len(Received) < accepted
                     /\ Received' = Append(Received, Len(Received) + 1)
    <3>1. accepted' = accepted
      BY <2>5 DEF HandleData
    <3>2. CASE Received' = Received
      BY <3>1, <3>2
    <3>3. CASE /\ Received' = Append(Received, Len(Received) + 1)
               /\ seg.data = Len(Received) + 1
      <4>1. PICK n \in DOMAIN toReceiver : toReceiver[n] = seg
        BY <2>5 DEF HandleData, Arriving
      <4>2. seg.data \in 1 .. LastSent
        BY <4>1 DEF IInv, Numbers, DataFits
      <4>3. LastSent \in Nat /\ LastSent =< accepted /\ accepted \in Nat
        BY Places DEF IInv, Numbers, SenderNumbers
      <4>4. Len(Received) \in Nat
        BY DEF IInv, TypeOK, Received
      <4> QED
        BY <3>1, <3>3, <4>2, <4>3, <4>4
    <3> QED
      BY <2>5, <3>2, <3>3, HandleDataReceived DEF IInv
  <2> QED
    BY <2>1, <2>2, <2>3, <2>4, <2>5 DEF Next
<1> QED
  BY <1>1, <1>2, <1>3, <1>4, PTL DEF Spec, ImplementsReliableStream, Stream!Spec
=============================================================================
