--------------------------- MODULE ConnectionProofs ---------------------------
(***************************************************************************)
(* Theorems about Connection, for any number of attempts and of segments,  *)
(* and any losses.                                                         *)
(***************************************************************************)
EXTENDS Connection, TLAPS

FromClient == Segment({"SYN", "DATA", "FIN"})
FromServer == Segment({"SYNACK", "DATAACK", "FINACK"})

(* The client program before connect has returned 1, and once disconnect   *)
(* has found the send buffer empty.                                        *)
Before == {"connecting", "connecting: waiting", "connect failed"}
Leaving == {"disconnecting", "disconnecting: waiting", "disconnected", "closed"}
Releasing == Leaving \cup {"disconnect failed"}

(* The server, in that state and with its program there, has got a SYN,    *)
(* and the FIN.                                                            *)
Reached(state, at) == state \in {"CONNECTED", "CLOSEWAIT"} \/ at = "closed"
Released(state, at) == state = "CLOSEWAIT" \/ at = "closed"

(* A segment under way to the server, when the client is at cl, has used   *)
(* the numbers below next and the server has stored sto segments.          *)
Sent(seg, cl, next, sto) ==
    /\ seg.type = "SYN" => seg.num = 0 /\ sto = 0
    /\ seg.type = "DATA" => cl \notin Before /\ seg.num < next
    /\ seg.type = "FIN" => cl \in Releasing /\ seg.num = next

(* All that are under way: no SYN is behind what is not one.               *)
AllSent(s, cl, next, sto) ==
    /\ \A n \in 1 .. Len(s) : Sent(s[n], cl, next, sto)
    /\ \A n, m \in 1 .. Len(s) : n < m /\ s[n].type # "SYN" => s[m].type # "SYN"

(* A segment under way to the client, or in its hand.                      *)
Got(seg, state, at, sto) ==
    /\ seg.type = "SYNACK" => Reached(state, at)
    /\ seg.type = "DATAACK" => seg.num <= sto
    /\ seg.type = "FINACK" => Released(state, at)
AllGot(s, state, at, sto) ==
    \A n \in 1 .. Len(s) : Got(s[n], state, at, sto)

Types ==
    /\ client \in Before \cup Releasing \cup {"connected"}
    /\ cstate \in {"CLOSED", "SYNSENT", "CONNECTED", "FINWAIT"}
    /\ answered \in BOOLEAN
    /\ server \in {"created", "accepting", "accepted", "close failed", "closing", "closed"}
    /\ sstate \in {"CLOSED", "LISTENING", "CONNECTED", "CLOSEWAIT"}

Carried ==
    /\ inHand \in {Nothing} \cup
                  [seg : FromServer, state : {"SYNSENT", "CONNECTED", "FINWAIT"}]
    /\ toServer \in Seq(FromClient)
    /\ toClient \in Seq(FromServer)

(* The attempts of a call: t of them while the client is at cl.            *)
Tried(cl, t) ==
    /\ t \in Nat
    /\ cl \in Before => t <= SYN_MAX_RETRY
    /\ cl \notin Before => t <= FIN_MAX_RETRY
    /\ cl = "connected" => t = 0

(* How far both sides are with the data: the client has used the numbers   *)
(* below next and has those below ack acknowledged; the server has stored  *)
(* sto segments, and that is the number it expects.                        *)
Counted(cl, next, ack, sto) ==
    /\ next \in Nat /\ ack \in Nat /\ sto \in Nat /\ next <= MaxData
    /\ ack <= sto /\ sto <= next
    /\ cl \in Before => next = 0
    /\ cl \in Releasing => ack = next

Numbers ==
    /\ Tried(client, tries)
    /\ Counted(client, next_seqNum, acked, stored)
    /\ expect_seqNum = stored

(* What the server's state says of its program.                            *)
ServerWell ==
    /\ server = "created" => sstate = "CLOSED"
    /\ server = "accepting" => sstate \in {"LISTENING", "CONNECTED", "CLOSEWAIT"}
    /\ server \in {"accepted", "close failed"} => sstate \in {"CONNECTED", "CLOSEWAIT"}
    /\ server = "closing" => sstate = "CLOSEWAIT"
    /\ server = "closed" => sstate = "CLOSED"
    /\ Released(sstate, server) => client \in Releasing

(* What the client's state says of its program and of the server.          *)
ClientWell ==
    /\ client = "connected" => cstate = "CONNECTED"
    /\ client \in {"disconnected", "closed"} => cstate = "CLOSED"
    /\ cstate = "SYNSENT" => client \in Before
    /\ cstate = "FINWAIT" => client \in Releasing
    /\ cstate = "CONNECTED" \/ client \notin Before => Reached(sstate, server)
    /\ cstate = "CLOSED" /\ client \in Leaving => Released(sstate, server)
    /\ cstate = "CLOSED" /\ client \notin {"connect failed", "disconnect failed"}
         => inHand = Nothing

(* The segment in hand and the state that was read with it.                *)
HandWell ==
    inHand # Nothing =>
        /\ Got(inHand.seg, sstate, server, stored)
        /\ inHand.state = "SYNSENT" =>
             client \in Before /\ (cstate = "SYNSENT" \/ client = "connect failed")
        /\ inHand.state = "FINWAIT" => client \in Releasing

(* The inductive invariant.                                                *)
IInv ==
    /\ Types /\ Carried /\ Numbers /\ ServerWell /\ ClientWell /\ HandWell
    /\ AllSent(toServer, client, next_seqNum, stored)
    /\ AllGot(toClient, sstate, server, stored)

-----------------------------------------------------------------------------
(* Segments under way.                                                     *)

(* A new segment.                                                          *)
LEMMA NewSeg ==
    ASSUME NEW type, NEW num
    PROVE  /\ Seg(type, num).type = type /\ Seg(type, num).num = num
           /\ num \in 0 .. MaxData =>
                /\ type \in {"SYN", "DATA", "FIN"} => Seg(type, num) \in FromClient
                /\ type \in {"SYNACK", "DATAACK", "FINACK"} => Seg(type, num) \in FromServer
  BY DEF Seg, FromClient, FromServer, Segment

(* What is left when the first element is taken.                           *)
LEMMA TailElements ==
    ASSUME NEW T, NEW s \in Seq(T), s # <<>>
    PROVE  /\ Tail(s) \in Seq(T)
           /\ 1 \in 1 .. Len(s) /\ Head(s) = s[1] /\ Head(s) \in T
           /\ \A n \in 1 .. Len(Tail(s)) : n + 1 \in 1 .. Len(s) /\ Tail(s)[n] = s[n + 1]
  OBVIOUS

(* Appending keeps what is there and adds one element at the end.          *)
LEMMA AppendElements ==
    ASSUME NEW T, NEW s \in Seq(T), NEW e \in T
    PROVE  /\ Append(s, e) \in Seq(T)
           /\ Len(Append(s, e)) = Len(s) + 1
           /\ \A n \in 1 .. Len(s) : Append(s, e)[n] = s[n]
           /\ Append(s, e)[Len(s) + 1] = e
  OBVIOUS

(* Segments of the client stay what they are when it goes on.              *)
LEMMA SentStays ==
    ASSUME NEW s \in Seq(FromClient), NEW cl, NEW cl2, NEW next \in Nat, NEW next2 \in Nat,
           NEW sto, AllSent(s, cl, next, sto),
           cl \notin Before => cl2 \notin Before, next <= next2,
           cl \in Releasing => cl2 \in Releasing /\ next2 = next
    PROVE  AllSent(s, cl2, next2, sto)
<1>1. ASSUME NEW n \in 1 .. Len(s)
      PROVE  Sent(s[n], cl2, next2, sto)
  <2>1. Sent(s[n], cl, next, sto) /\ s[n] \in FromClient
    BY DEF AllSent
  <2>2. s[n].num \in Nat
    BY <2>1, ConnectionAssumption DEF FromClient, Segment
  <2> QED
    BY <2>1, <2>2 DEF Sent
<1> QED
  BY <1>1 DEF AllSent

(* The first of them is taken: behind anything but a SYN there is no SYN,  *)
(* and the server may store a segment.                                     *)
LEMMA SentTail ==
    ASSUME NEW s \in Seq(FromClient), s # <<>>, NEW cl, NEW next, NEW sto, NEW sto2,
           AllSent(s, cl, next, sto), sto2 = sto \/ Head(s).type # "SYN"
    PROVE  /\ Tail(s) \in Seq(FromClient) /\ AllSent(Tail(s), cl, next, sto2)
           /\ Head(s) \in FromClient /\ Sent(Head(s), cl, next, sto)
<1> DEFINE t == Tail(s)
<1>1. /\ t \in Seq(FromClient) /\ 1 \in 1 .. Len(s) /\ Head(s) = s[1]
      /\ Head(s) \in FromClient /\ Len(s) \in Nat
      /\ \A n \in 1 .. Len(t) : n + 1 \in 1 .. Len(s) /\ t[n] = s[n + 1]
  BY TailElements
<1> HIDE DEF t
<1>2. ASSUME NEW n \in 1 .. Len(t)
      PROVE  Sent(t[n], cl, next, sto2)
  <2>1. Sent(t[n], cl, next, sto)
    BY <1>1 DEF AllSent
  <2>2. Head(s).type # "SYN" => t[n].type # "SYN"
    <3>1. 1 < n + 1
      OBVIOUS
    <3> QED
      BY <1>1, <3>1 DEF AllSent
  <2> QED
    BY <2>1, <2>2 DEF Sent
<1>3. ASSUME NEW n \in 1 .. Len(t), NEW m \in 1 .. Len(t), n < m, t[n].type # "SYN"
      PROVE  t[m].type # "SYN"
  <2>1. n + 1 < m + 1
    BY <1>3
  <2> QED
    BY <1>1, <1>3, <2>1 DEF AllSent
<1>4. Sent(Head(s), cl, next, sto)
  BY <1>1 DEF AllSent
<1> QED
  BY <1>1, <1>2, <1>3, <1>4 DEF AllSent, t

(* One more is sent; a SYN only while there is nothing else.               *)
LEMMA SentNew ==
    ASSUME NEW s \in Seq(FromClient), NEW e \in FromClient, NEW cl, NEW next, NEW sto,
           AllSent(s, cl, next, sto), Sent(e, cl, next, sto),
           e.type # "SYN" \/ cl \in Before
    PROVE  Append(s, e) \in Seq(FromClient) /\ AllSent(Append(s, e), cl, next, sto)
<1> DEFINE t == Append(s, e)
<1>1. /\ t \in Seq(FromClient) /\ Len(t) = Len(s) + 1 /\ Len(s) \in Nat
      /\ t[Len(s) + 1] = e /\ \A n \in 1 .. Len(s) : t[n] = s[n]
  BY AppendElements
<1> HIDE DEF t
<1>2. ASSUME NEW n \in 1 .. Len(t)
      PROVE  Sent(t[n], cl, next, sto)
  <2>1. CASE n = Len(s) + 1
    BY <1>1, <2>1
  <2>2. CASE n # Len(s) + 1
    <3>1. n \in 1 .. Len(s)
      BY <1>1, <2>2
    <3> QED
      BY <1>1, <3>1 DEF AllSent
  <2> QED
    BY <2>1, <2>2
<1>3. ASSUME NEW n \in 1 .. Len(t), NEW m \in 1 .. Len(t), n < m, t[n].type # "SYN"
      PROVE  t[m].type # "SYN"
  <2>1. n \in 1 .. Len(s) /\ t[n] = s[n]
    BY <1>1, <1>3
  <2>2. CASE m \in 1 .. Len(s)
    BY <1>1, <1>3, <2>1, <2>2 DEF AllSent
  <2>3. CASE m \notin 1 .. Len(s)
    <3>1. m = Len(s) + 1
      BY <1>1, <2>3
    <3>2. cl \in Before => s[n].type \notin {"DATA", "FIN"}
      BY <2>1 DEF AllSent, Sent, Before, Releasing, Leaving
    <3>3. s[n] \in FromClient
      BY <2>1
    <3>4. s[n].type \in {"SYN", "DATA", "FIN"}
      BY <3>3 DEF FromClient, Segment
    <3> QED
      BY <1>1, <1>3, <2>1, <3>1, <3>2, <3>4
  <2> QED
    BY <2>2, <2>3
<1> QED
  BY <1>1, <1>2, <1>3 DEF AllSent, t

(* One segment of the server stays what it is when it goes on.             *)
LEMMA GotOn ==
    ASSUME NEW seg \in FromServer, NEW state, NEW at, NEW state2, NEW at2,
           NEW sto \in Nat, NEW sto2 \in Nat, Got(seg, state, at, sto),
           Reached(state, at) => Reached(state2, at2),
           Released(state, at) => Released(state2, at2), sto <= sto2
    PROVE  Got(seg, state2, at2, sto2)
<1>1. seg.num \in Nat
  BY ConnectionAssumption DEF FromServer, Segment
<1> QED
  BY <1>1 DEF Got

(* Segments of the server stay what they are when it goes on.              *)
LEMMA GotStays ==
    ASSUME NEW s \in Seq(FromServer), NEW state, NEW at, NEW state2, NEW at2,
           NEW sto \in Nat, NEW sto2 \in Nat, AllGot(s, state, at, sto),
           Reached(state, at) => Reached(state2, at2),
           Released(state, at) => Released(state2, at2), sto <= sto2
    PROVE  AllGot(s, state2, at2, sto2)
<1>1. ASSUME NEW n \in 1 .. Len(s)
      PROVE  Got(s[n], state2, at2, sto2)
  <2>1. Got(s[n], state, at, sto) /\ s[n] \in FromServer
    BY DEF AllGot
  <2> QED
    BY <2>1, GotOn
<1> QED
  BY <1>1 DEF AllGot

(* The first of them is taken.                                             *)
LEMMA GotTail ==
    ASSUME NEW s \in Seq(FromServer), s # <<>>, NEW state, NEW at, NEW sto,
           AllGot(s, state, at, sto)
    PROVE  /\ Tail(s) \in Seq(FromServer) /\ AllGot(Tail(s), state, at, sto)
           /\ Head(s) \in FromServer /\ Got(Head(s), state, at, sto)
<1>1. /\ Tail(s) \in Seq(FromServer) /\ 1 \in 1 .. Len(s) /\ Head(s) = s[1]
      /\ Head(s) \in FromServer
      /\ \A n \in 1 .. Len(Tail(s)) : n + 1 \in 1 .. Len(s) /\ Tail(s)[n] = s[n + 1]
  BY TailElements
<1> QED
  BY <1>1 DEF AllGot

(* One more is sent.                                                       *)
LEMMA GotNew ==
    ASSUME NEW s \in Seq(FromServer), NEW e \in FromServer, NEW state, NEW at,
           NEW sto, AllGot(s, state, at, sto), Got(e, state, at, sto)
    PROVE  /\ Append(s, e) \in Seq(FromServer)
           /\ AllGot(Append(s, e), state, at, sto)
<1> DEFINE t == Append(s, e)
<1>1. /\ t \in Seq(FromServer) /\ Len(t) = Len(s) + 1 /\ Len(s) \in Nat
      /\ t[Len(s) + 1] = e /\ \A n \in 1 .. Len(s) : t[n] = s[n]
  BY AppendElements
<1> HIDE DEF t
<1>2. ASSUME NEW n \in 1 .. Len(t)
      PROVE  Got(t[n], state, at, sto)
  <2>1. CASE n = Len(s) + 1
    BY <1>1, <2>1
  <2>2. CASE n # Len(s) + 1
    <3>1. n \in 1 .. Len(s)
      BY <1>1, <2>2
    <3> QED
      BY <1>1, <3>1 DEF AllGot
  <2> QED
    BY <2>1, <2>2
<1> QED
  BY <1>1, <1>2 DEF AllGot, t

(* The constants are numbers.                                              *)
LEMMA Limits == SYN_MAX_RETRY \in Nat /\ FIN_MAX_RETRY \in Nat /\ MaxData \in Nat
  BY ConnectionAssumption

(* The attempts are those of the same call, or there are none.             *)
LEMMA TriedOn ==
    ASSUME NEW cl, NEW cl2, NEW t, NEW t2, Tried(cl, t),
           \/ t2 = 0
           \/ t2 = t /\ cl2 # "connected" /\ (cl \in Before <=> cl2 \in Before)
    PROVE  Tried(cl2, t2)
  BY Limits DEF Tried

(* One more attempt of the call.                                           *)
LEMMA TriedOneMore ==
    ASSUME NEW cl, NEW cl2, NEW t, Tried(cl, t), cl2 # "connected",
           \/ cl \in Before /\ cl2 \in Before /\ t < SYN_MAX_RETRY
           \/ cl2 \notin Before /\ t < FIN_MAX_RETRY
    PROVE  Tried(cl2, t + 1)
<1>1. t \in Nat
  BY DEF Tried
<1>2. t + 1 \in Nat /\ (cl2 \in Before => t + 1 <= SYN_MAX_RETRY)
      /\ (cl2 \notin Before => t + 1 <= FIN_MAX_RETRY)
  BY <1>1, Limits
<1> QED
  BY <1>2 DEF Tried

(* An acknowledgement arrives of what the server has stored.               *)
LEMMA CountedAck ==
    ASSUME NEW cl, NEW next, NEW ack, NEW sto, Counted(cl, next, ack, sto), NEW num \in Nat,
           num <= sto
    PROVE  Counted(cl, next, IF num \in ack .. next THEN num ELSE ack, sto)
<1> DEFINE got == IF num \in ack .. next THEN num ELSE ack
<1>1. /\ next \in Nat /\ ack \in Nat /\ sto \in Nat /\ next <= MaxData
      /\ ack <= sto /\ sto <= next
      /\ cl \in Before => next = 0
      /\ cl \in Releasing => ack = next
  BY DEF Counted
<1>2. got \in Nat /\ got <= sto /\ ack <= got
  BY <1>1
<1>3. cl \in Releasing => got = next
  BY <1>1, <1>2
<1> HIDE DEF got
<1>4. Counted(cl, next, got, sto)
  BY <1>1, <1>2, <1>3 DEF Counted
<1> QED
  BY <1>4 DEF got

(* The server stores the segment it expects.                               *)
LEMMA CountedStored ==
    ASSUME NEW cl, NEW next, NEW ack, NEW sto, Counted(cl, next, ack, sto), sto < next
    PROVE  /\ sto + 1 \in Nat /\ sto <= sto + 1 /\ sto + 1 \in 0 .. MaxData
           /\ Counted(cl, next, ack, sto + 1)
<1>1. /\ next \in Nat /\ ack \in Nat /\ sto \in Nat /\ next <= MaxData
      /\ ack <= sto /\ sto <= next
      /\ cl \in Before => next = 0
      /\ cl \in Releasing => ack = next
  BY DEF Counted
<1>2. /\ sto + 1 \in Nat /\ sto <= sto + 1 /\ sto + 1 <= next /\ ack <= sto + 1
      /\ sto + 1 <= MaxData
  BY <1>1, Limits
<1> QED
  BY <1>1, <1>2, Limits DEF Counted

(* One more segment of data is numbered.                                   *)
LEMMA CountedOneMore ==
    ASSUME NEW next, NEW ack, NEW sto, Counted("connected", next, ack, sto), next < MaxData
    PROVE  next + 1 \in Nat /\ next <= next + 1 /\ Counted("connected", next + 1, ack, sto)
<1>1. /\ next \in Nat /\ ack \in Nat /\ sto \in Nat /\ ack <= sto /\ sto <= next
  BY DEF Counted
<1>2. next + 1 \in Nat /\ next <= next + 1 /\ sto <= next + 1 /\ next + 1 <= MaxData
  BY <1>1, Limits
<1> QED
  BY <1>1, <1>2 DEF Counted, Before, Releasing, Leaving

(* The parts of the invariant.                                             *)
LEMMA Parts ==
    ASSUME IInv
    PROVE  /\ Types /\ Carried /\ Numbers /\ ServerWell /\ ClientWell /\ HandWell
           /\ toServer \in Seq(FromClient) /\ toClient \in Seq(FromServer)
           /\ next_seqNum \in Nat /\ stored \in Nat /\ acked \in Nat
           /\ AllSent(toServer, client, next_seqNum, stored)
           /\ AllGot(toClient, sstate, server, stored)
<1>1. /\ Types /\ Carried /\ Numbers /\ ServerWell /\ ClientWell /\ HandWell
      /\ AllSent(toServer, client, next_seqNum, stored)
      /\ AllGot(toClient, sstate, server, stored)
  BY DEF IInv
<1>2. toServer \in Seq(FromClient) /\ toClient \in Seq(FromServer)
  BY <1>1 DEF Carried
<1>3. next_seqNum \in Nat /\ stored \in Nat /\ acked \in Nat
  BY <1>1 DEF Numbers, Counted
<1> QED
  BY <1>1, <1>2, <1>3

-----------------------------------------------------------------------------
(* The steps of the client program.                                        *)

(* A step of the client program that sends nothing: it goes on.            *)
LEMMA ProgramStep ==
    ASSUME IInv, UNCHANGED <<acked, inHand, answered>>, UNCHANGED serverVars,
           UNCHANGED <<toServer, toClient>>,
           client \notin Before => client' \notin Before,
           client \in Releasing => client' \in Releasing /\ next_seqNum' = next_seqNum,
           next_seqNum' \in Nat, next_seqNum <= next_seqNum',
           client' \in Before \cup Releasing \cup {"connected"},
           cstate' \in {"CLOSED", "SYNSENT", "CONNECTED", "FINWAIT"},
           Tried(client', tries'), Counted(client', next_seqNum', acked, stored),
           ClientWell', HandWell'
    PROVE  IInv'
<1>1. /\ Types /\ Carried /\ Numbers /\ ServerWell
      /\ toServer \in Seq(FromClient) /\ toClient \in Seq(FromServer)
      /\ next_seqNum \in Nat /\ stored \in Nat
      /\ AllSent(toServer, client, next_seqNum, stored)
      /\ AllGot(toClient, sstate, server, stored)
  BY Parts
<1>2. AllSent(toServer, client', next_seqNum', stored)
  BY <1>1, SentStays
<1>3. /\ server' = server /\ sstate' = sstate /\ stored' = stored
      /\ expect_seqNum' = expect_seqNum
  BY DEF serverVars
<1>5. Types' /\ Carried'
  BY <1>1, <1>3 DEF Types, Carried
<1>6. Numbers'
  <2>1. expect_seqNum = stored
    BY <1>1 DEF Numbers
  <2> QED
    BY <1>3, <2>1, Zenon DEF Numbers
<1>7. ServerWell'
  BY <1>1, <1>3 DEF ServerWell
<1> QED
  BY <1>1, <1>2, <1>3, <1>5, <1>6, <1>7 DEF IInv

(* An attempt is over, or the call returns.                                *)
LEMMA WaitOverStep ==
    ASSUME IInv, ConnectTimesOut \/ DisconnectTimesOut \/ Connected \/ Disconnected
    PROVE  IInv'
<1>1. Types /\ Numbers /\ ClientWell /\ HandWell /\ next_seqNum \in Nat
  BY Parts
<1>2. /\ UNCHANGED <<acked, inHand, answered>> /\ UNCHANGED serverVars
      /\ UNCHANGED <<toServer, toClient>>
      /\ cstate' = cstate /\ next_seqNum' = next_seqNum
      /\ \/ /\ client = "connecting: waiting" /\ client' = "connecting"
            /\ cstate # "CONNECTED" /\ tries' = tries
         \/ /\ client = "disconnecting: waiting" /\ client' = "disconnecting"
            /\ cstate # "CLOSED" /\ tries' = tries
         \/ /\ client = "connecting: waiting" /\ client' = "connected"
            /\ cstate = "CONNECTED" /\ tries' = 0
         \/ /\ client = "disconnecting: waiting" /\ client' = "disconnected"
            /\ cstate = "CLOSED" /\ tries' = 0
  BY DEF ConnectTimesOut, DisconnectTimesOut, Connected, Disconnected, TimesOut, Returns1,
         Waiting
<1>3. server' = server /\ sstate' = sstate /\ stored' = stored
      /\ expect_seqNum' = expect_seqNum
  BY <1>2 DEF serverVars
<1>4. Tried(client', tries')
  <2>1. Tried(client, tries)
    BY <1>1 DEF Numbers
  <2>2. \/ tries' = 0
        \/ tries' = tries /\ client' # "connected" /\ (client \in Before <=> client' \in Before)
    BY <1>2 DEF Before
  <2> QED
    BY <2>1, <2>2, TriedOn
<1>5. Counted(client', next_seqNum', acked, stored)
  <2>1. Counted(client, next_seqNum, acked, stored)
    BY <1>1 DEF Numbers
  <2> QED
    BY <1>2, <2>1 DEF Counted, Before, Releasing, Leaving
<1>6. ClientWell'
  BY <1>1, <1>2, <1>3 DEF ClientWell, Before, Releasing, Leaving
<1>7. HandWell'
  BY <1>1, <1>2, <1>3 DEF HandWell, Before, Releasing, Leaving
<1>8. /\ client \notin Before => client' \notin Before
      /\ client \in Releasing => client' \in Releasing
      /\ client' \in Before \cup Releasing \cup {"connected"}
      /\ cstate' \in {"CLOSED", "SYNSENT", "CONNECTED", "FINWAIT"}
  BY <1>1, <1>2 DEF Types, Before, Releasing, Leaving
<1>9. next_seqNum' \in Nat /\ next_seqNum <= next_seqNum'
  <2>1. next_seqNum \in Nat /\ next_seqNum <= next_seqNum
    BY <1>1
  <2> QED
    BY <1>2, <2>1, Zenon
<1> QED
  BY <1>2, <1>4, <1>5, <1>6, <1>7, <1>8, <1>9, ProgramStep

(* No attempt is left.                                                     *)
LEMMA GivesUpStep ==
    ASSUME IInv, ConnectGivesUp \/ DisconnectGivesUp
    PROVE  IInv'
<1>1. Types /\ Numbers /\ ClientWell /\ HandWell /\ next_seqNum \in Nat
  BY Parts
<1>2. /\ UNCHANGED <<acked, inHand, answered>> /\ UNCHANGED serverVars
      /\ UNCHANGED <<toServer, toClient>>
      /\ cstate' = "CLOSED" /\ next_seqNum' = next_seqNum /\ tries' = tries
      /\ \/ client = "connecting" /\ client' = "connect failed"
         \/ client = "disconnecting" /\ client' = "disconnect failed"
  BY DEF ConnectGivesUp, DisconnectGivesUp, GivesUp
<1>3. server' = server /\ sstate' = sstate /\ stored' = stored
      /\ expect_seqNum' = expect_seqNum
  BY <1>2 DEF serverVars
<1>4. Tried(client', tries')
  <2>1. Tried(client, tries)
    BY <1>1 DEF Numbers
  <2>2. tries' = tries /\ client' # "connected" /\ (client \in Before <=> client' \in Before)
    BY <1>2 DEF Before
  <2> QED
    BY <2>1, <2>2, TriedOn
<1>5. Counted(client', next_seqNum', acked, stored)
  <2>1. Counted(client, next_seqNum, acked, stored)
    BY <1>1 DEF Numbers
  <2> QED
    BY <1>2, <2>1 DEF Counted, Before, Releasing, Leaving
<1>6. ClientWell'
  BY <1>1, <1>2, <1>3 DEF ClientWell, Before, Releasing, Leaving
<1>7. HandWell'
  BY <1>1, <1>2, <1>3 DEF HandWell, Before, Releasing, Leaving
<1>8. /\ client \notin Before => client' \notin Before
      /\ client \in Releasing => client' \in Releasing
      /\ client' \in Before \cup Releasing \cup {"connected"}
      /\ cstate' \in {"CLOSED", "SYNSENT", "CONNECTED", "FINWAIT"}
  BY <1>1, <1>2 DEF Types, Before, Releasing, Leaving
<1>9. next_seqNum' \in Nat /\ next_seqNum <= next_seqNum'
  <2>1. next_seqNum \in Nat /\ next_seqNum <= next_seqNum
    BY <1>1
  <2> QED
    BY <1>2, <2>1, Zenon
<1> QED
  BY <1>2, <1>4, <1>5, <1>6, <1>7, <1>8, <1>9, ProgramStep

(* The program numbers one more segment of data.                           *)
LEMMA SendDataStep ==
    ASSUME IInv, SendData
    PROVE  IInv'
<1>1. Types /\ Numbers /\ ClientWell /\ HandWell /\ next_seqNum \in Nat
  BY Parts
<1>2. /\ UNCHANGED <<acked, inHand, answered>> /\ UNCHANGED serverVars
      /\ UNCHANGED <<toServer, toClient>>
      /\ cstate' = cstate /\ tries' = tries /\ client' = client
      /\ client = "connected" /\ next_seqNum < MaxData /\ next_seqNum' = next_seqNum + 1
  BY DEF SendData
<1>3. server' = server /\ sstate' = sstate /\ stored' = stored
      /\ expect_seqNum' = expect_seqNum
  BY <1>2 DEF serverVars
<1>4. Tried(client', tries')
  BY <1>1, <1>2 DEF Numbers
<1>5. /\ Counted(client', next_seqNum', acked, stored)
      /\ next_seqNum' \in Nat /\ next_seqNum <= next_seqNum'
  <2>1. Counted("connected", next_seqNum, acked, stored)
    BY <1>1, <1>2 DEF Numbers
  <2>2. /\ next_seqNum + 1 \in Nat /\ next_seqNum <= next_seqNum + 1
        /\ Counted("connected", next_seqNum + 1, acked, stored)
    BY <1>2, <2>1, CountedOneMore
  <2> QED
    BY <1>2, <2>2, Zenon
<1>6. ClientWell' /\ HandWell'
  BY <1>1, <1>2, <1>3 DEF ClientWell, HandWell
<1>7. /\ client \notin Releasing
      /\ client' \in Before \cup Releasing \cup {"connected"}
      /\ cstate' \in {"CLOSED", "SYNSENT", "CONNECTED", "FINWAIT"}
  BY <1>1, <1>2 DEF Types, Releasing, Leaving
<1> QED
  BY <1>2, <1>4, <1>5, <1>6, <1>7, ProgramStep

(* The program begins to disconnect, or closes.                            *)
LEMMA CallStep ==
    ASSUME IInv, DisconnectBegins \/ ClientClose
    PROVE  IInv'
<1>1. Types /\ Numbers /\ ClientWell /\ HandWell /\ next_seqNum \in Nat
  BY Parts
<1>2. /\ UNCHANGED <<acked, inHand, answered>> /\ UNCHANGED serverVars
      /\ UNCHANGED <<toServer, toClient>>
      /\ cstate' = cstate /\ tries' = tries /\ next_seqNum' = next_seqNum
      /\ \/ client = "connected" /\ client' = "disconnecting" /\ acked = next_seqNum
         \/ /\ client \in {"connected", "disconnected"} /\ cstate = "CLOSED"
            /\ client' = "closed"
  BY DEF DisconnectBegins, ClientClose, MayClose
<1>3. server' = server /\ sstate' = sstate /\ stored' = stored
      /\ expect_seqNum' = expect_seqNum
  BY <1>2 DEF serverVars
<1>4. \/ client = "connected" /\ client' = "disconnecting" /\ acked = next_seqNum
      \/ client = "disconnected" /\ cstate = "CLOSED" /\ client' = "closed"
  BY <1>1, <1>2 DEF ClientWell
<1>5. Tried(client', tries')
  <2>1. Tried(client, tries)
    BY <1>1 DEF Numbers
  <2>2. tries' = tries /\ client' # "connected" /\ (client \in Before <=> client' \in Before)
    BY <1>2, <1>4 DEF Before
  <2> QED
    BY <2>1, <2>2, TriedOn
<1>6. Counted(client', next_seqNum', acked, stored)
  <2>1. Counted(client, next_seqNum, acked, stored)
    BY <1>1 DEF Numbers
  <2> QED
    BY <1>2, <1>4, <2>1 DEF Counted, Before, Releasing, Leaving
<1>7. ClientWell'
  BY <1>1, <1>2, <1>3, <1>4 DEF ClientWell, Before, Releasing, Leaving
<1>8. HandWell'
  BY <1>1, <1>2, <1>3, <1>4 DEF HandWell, Before, Releasing, Leaving
<1>9. /\ client \notin Before => client' \notin Before
      /\ client \in Releasing => client' \in Releasing
      /\ client' \in Before \cup Releasing \cup {"connected"}
      /\ cstate' \in {"CLOSED", "SYNSENT", "CONNECTED", "FINWAIT"}
  BY <1>1, <1>2, <1>4 DEF Types, Before, Releasing, Leaving
<1>10. next_seqNum' \in Nat /\ next_seqNum <= next_seqNum'
  <2>1. next_seqNum \in Nat /\ next_seqNum <= next_seqNum
    BY <1>1
  <2> QED
    BY <1>2, <2>1, Zenon
<1> QED
  BY <1>2, <1>5, <1>6, <1>7, <1>8, <1>9, <1>10, ProgramStep

-----------------------------------------------------------------------------
(* The client sends.                                                       *)

(* A step that puts one segment on the way to the server and changes       *)
(* nothing else but the program's place, its attempts and the TCB's state. *)
LEMMA SendingStep ==
    ASSUME IInv, NEW e \in FromClient, toServer' = Append(toServer, e),
           Sent(e, client, next_seqNum, stored), e.type # "SYN" \/ client \in Before,
           UNCHANGED <<next_seqNum, acked, inHand, answered, serverVars, toClient>>,
           client \in Before <=> client' \in Before,
           client \in Releasing <=> client' \in Releasing,
           client' \in Before \cup Releasing \cup {"connected"},
           cstate' \in {"CLOSED", "SYNSENT", "CONNECTED", "FINWAIT"},
           Tried(client', tries'), ClientWell', HandWell'
    PROVE  IInv'
<1>1. /\ Types /\ Carried /\ Numbers /\ ServerWell
      /\ toServer \in Seq(FromClient) /\ toClient \in Seq(FromServer)
      /\ next_seqNum \in Nat /\ stored \in Nat
      /\ AllSent(toServer, client, next_seqNum, stored)
      /\ AllGot(toClient, sstate, server, stored)
  BY Parts
<1>2. /\ server' = server /\ sstate' = sstate /\ stored' = stored
      /\ expect_seqNum' = expect_seqNum
  BY DEF serverVars
<1>4. /\ toServer' \in Seq(FromClient)
      /\ AllSent(toServer', client, next_seqNum, stored)
  <2>1. /\ Append(toServer, e) \in Seq(FromClient)
        /\ AllSent(Append(toServer, e), client, next_seqNum, stored)
    BY <1>1, SentNew
  <2> QED
    BY <2>1, Zenon
<1>5. AllSent(toServer', client', next_seqNum', stored')
  <2>1. next_seqNum' = next_seqNum
    OBVIOUS
  <2>2. next_seqNum <= next_seqNum
    BY <1>1
  <2>3. AllSent(toServer', client', next_seqNum, stored)
    BY <1>1, <1>4, <2>2, SentStays
  <2> QED
    BY <1>2, <2>1, <2>3
<1>6. Types' /\ Carried'
  BY <1>1, <1>2, <1>4 DEF Types, Carried
<1>7. Numbers'
  <2>1. expect_seqNum = stored /\ Counted(client, next_seqNum, acked, stored)
    BY <1>1 DEF Numbers
  <2>2. Counted(client', next_seqNum, acked, stored)
    BY <2>1 DEF Counted
  <2> QED
    BY <1>2, <2>1, <2>2, Zenon DEF Numbers
<1>8. ServerWell'
  BY <1>1, <1>2 DEF ServerWell
<1> QED
  BY <1>1, <1>2, <1>5, <1>6, <1>7, <1>8 DEF IInv

(* An attempt of connect or disconnect.                                    *)
LEMMA AttemptStep ==
    ASSUME IInv, ConnectAttempt \/ DisconnectAttempt
    PROVE  IInv'
<1> DEFINE type == IF client = "connecting" THEN "SYN" ELSE "FIN"
<1> DEFINE e == Seg(type, next_seqNum)
<1>1. Types /\ Numbers /\ ClientWell /\ HandWell /\ next_seqNum \in Nat
  BY Parts
<1>2. /\ \/ /\ type = "SYN" /\ cstate' = "SYNSENT"
            /\ client = "connecting" /\ client' = "connecting: waiting"
            /\ tries < SYN_MAX_RETRY
         \/ /\ type = "FIN" /\ cstate' = "FINWAIT"
            /\ client = "disconnecting" /\ client' = "disconnecting: waiting"
            /\ tries < FIN_MAX_RETRY
      /\ UNCHANGED <<next_seqNum, acked, inHand, answered, serverVars, toClient>>
      /\ tries' = tries + 1 /\ toServer' = Append(toServer, e)
  BY DEF ConnectAttempt, DisconnectAttempt, Attempt, TriesLeft, Waiting, SendToServer
<1>3. e.type = type /\ e.num = next_seqNum
  BY NewSeg
<1> HIDE DEF e, type
<1>4. server' = server /\ sstate' = sstate /\ stored' = stored
      /\ expect_seqNum' = expect_seqNum
  BY <1>2 DEF serverVars
<1>5. /\ Counted(client, next_seqNum, acked, stored) /\ Tried(client, tries)
  BY <1>1 DEF Numbers
<1>6. e \in FromClient
  <2>1. next_seqNum \in 0 .. MaxData
    BY <1>1, <1>5, Limits DEF Counted
  <2>2. type \in {"SYN", "DATA", "FIN"}
    BY <1>2
  <2> QED
    BY <2>1, <2>2, NewSeg DEF e
<1>7. Sent(e, client, next_seqNum, stored) /\ (e.type # "SYN" \/ client \in Before)
  <2>1. client = "connecting" => next_seqNum = 0 /\ stored = 0
    BY <1>5 DEF Counted, Before
  <2>2. /\ e.num = next_seqNum
        /\ \/ e.type = "SYN" /\ client = "connecting"
           \/ e.type = "FIN" /\ client = "disconnecting"
    BY <1>2, <1>3
  <2>3. client = "connecting" => client \in Before
    BY DEF Before
  <2>4. client = "disconnecting" => client \in Releasing
    BY DEF Releasing, Leaving
  <2>5. e.type = "SYN" \/ e.type = "FIN"
    BY <2>2
  <2> QED
    BY <2>1, <2>2, <2>3, <2>4, <2>5 DEF Sent
<1>8. Tried(client', tries')
  <2>1. Tried(client', tries + 1)
    BY <1>2, <1>5, TriedOneMore DEF Before
  <2> QED
    BY <1>2, <2>1, Zenon
<1>9. ClientWell'
  BY <1>1, <1>2, <1>3, <1>4 DEF ClientWell, Before, Releasing, Leaving
<1>10. HandWell'
  BY <1>1, <1>2, <1>3, <1>4 DEF HandWell, Before, Releasing, Leaving
<1>11. /\ client \in Before <=> client' \in Before
       /\ client \in Releasing <=> client' \in Releasing
       /\ client' \in Before \cup Releasing \cup {"connected"}
       /\ cstate' \in {"CLOSED", "SYNSENT", "CONNECTED", "FINWAIT"}
  BY <1>2 DEF Before, Releasing, Leaving
<1> QED
  BY <1>2, <1>6, <1>7, <1>8, <1>9, <1>10, <1>11, SendingStep

(* A segment of data is sent, for the first time or again.                 *)
LEMMA TransmitStep ==
    ASSUME IInv, NEW num \in 0 .. MaxData, Transmit(num)
    PROVE  IInv'
<1> DEFINE e == Seg("DATA", num)
<1>1. Types /\ Numbers /\ ClientWell /\ HandWell /\ next_seqNum \in Nat /\ acked \in Nat
  BY Parts
<1>2. /\ UNCHANGED <<next_seqNum, acked, inHand, answered, serverVars, toClient>>
      /\ UNCHANGED <<client, cstate, tries>>
      /\ toServer' = Append(toServer, e) /\ num \in acked .. next_seqNum - 1
  BY DEF Transmit, SendToServer, clientVars
<1>3. server' = server /\ sstate' = sstate /\ stored' = stored
      /\ expect_seqNum' = expect_seqNum
  BY <1>2 DEF serverVars
<1>4. e \in FromClient
  BY DEF FromClient, Segment, Seg
<1>5. num < next_seqNum /\ acked # next_seqNum /\ next_seqNum # 0
  <2>1. num \in Nat /\ acked <= num /\ num <= next_seqNum - 1
    BY <1>1, <1>2
  <2> QED
    BY <1>1, <2>1
<1>6. client \notin Before /\ client \notin Releasing
  BY <1>1, <1>5 DEF Numbers, Counted
<1>7. Sent(e, client, next_seqNum, stored) /\ e.type # "SYN"
  BY <1>5, <1>6 DEF Sent, Seg
<1>8. Tried(client', tries') /\ ClientWell' /\ HandWell'
  BY <1>1, <1>2, <1>3 DEF Numbers, ClientWell, HandWell
<1>9. client' \in Before \cup Releasing \cup {"connected"}
      /\ cstate' \in {"CLOSED", "SYNSENT", "CONNECTED", "FINWAIT"}
  BY <1>1, <1>2 DEF Types
<1> HIDE DEF e
<1> QED
  BY <1>2, <1>4, <1>7, <1>8, <1>9, SendingStep

-----------------------------------------------------------------------------
(* The client's seghandler.                                                *)

(* A segment is taken in hand, with the state that was read.               *)
LEMMA DispatchStep ==
    ASSUME IInv, NEW seg \in FromServer, Dispatch(seg)
    PROVE  IInv'
<1> DEFINE hand == [seg |-> seg, state |-> cstate]
<1>1. /\ Types /\ Carried /\ Numbers /\ ServerWell /\ ClientWell
      /\ toServer \in Seq(FromClient) /\ toClient \in Seq(FromServer)
      /\ next_seqNum \in Nat /\ stored \in Nat
      /\ AllSent(toServer, client, next_seqNum, stored)
      /\ AllGot(toClient, sstate, server, stored)
  BY Parts
<1>2. /\ inHand = Nothing /\ toClient # <<>> /\ seg = Head(toClient)
      /\ toClient' = Tail(toClient)
      /\ inHand' = IF client = "closed" \/ cstate = "CLOSED" THEN Nothing ELSE hand
      /\ UNCHANGED <<client, tries, cstate, next_seqNum, acked, answered, serverVars, toServer>>
  BY DEF Dispatch
<1>3. /\ server' = server /\ sstate' = sstate /\ stored' = stored
      /\ expect_seqNum' = expect_seqNum
  BY <1>2 DEF serverVars
<1>4. /\ Tail(toClient) \in Seq(FromServer)
      /\ Got(seg, sstate, server, stored)
      /\ AllGot(Tail(toClient), sstate, server, stored)
  BY <1>1, <1>2, GotTail
<1>5. hand.seg = seg /\ hand.state = cstate
  OBVIOUS
<1>6. cstate # "CLOSED" =>
        hand \in [seg : FromServer, state : {"SYNSENT", "CONNECTED", "FINWAIT"}]
  BY <1>1 DEF Types
<1> HIDE DEF hand
<1>7. inHand' = Nothing \/ (cstate # "CLOSED" /\ inHand' = hand)
  BY <1>2
<1>8. Types' /\ Carried'
  BY <1>1, <1>2, <1>3, <1>4, <1>6, <1>7 DEF Types, Carried
<1>9. Numbers'
  BY <1>1, <1>2, <1>3 DEF Numbers
<1>10. ServerWell' /\ ClientWell'
  <2>1. ServerWell'
    BY <1>1, <1>2, <1>3 DEF ServerWell
  <2>2. ClientWell'
    BY <1>1, <1>2, <1>3, <1>7 DEF ClientWell
  <2> QED
    BY <2>1, <2>2
<1>11. HandWell'
  <2>1. CASE inHand' = Nothing
    BY <2>1 DEF HandWell
  <2>2. CASE inHand' = hand
    <3>1. /\ cstate = "SYNSENT" => client \in Before
          /\ cstate = "FINWAIT" => client \in Releasing
      BY <1>1 DEF ClientWell
    <3>2. /\ Got(inHand'.seg, sstate', server', stored') /\ inHand'.state = cstate
          /\ client' = client /\ cstate' = cstate
      BY <1>2, <1>3, <1>4, <1>5, <2>2
    <3> QED
      BY <3>1, <3>2 DEF HandWell
  <2> QED
    BY <1>7, <2>1, <2>2
<1>12. /\ AllSent(toServer', client', next_seqNum', stored')
       /\ AllGot(toClient', sstate', server', stored')
  BY <1>1, <1>2, <1>3, <1>4
<1> QED
  BY <1>8, <1>9, <1>10, <1>11, <1>12 DEF IInv

(* The segment in hand is acted upon.                                      *)
LEMMA ActStep ==
    ASSUME IInv, Act
    PROVE  IInv'
<1>1. /\ Types /\ Carried /\ Numbers /\ ServerWell /\ ClientWell /\ HandWell
      /\ AllSent(toServer, client, next_seqNum, stored)
      /\ AllGot(toClient, sstate, server, stored)
  BY Parts
<1>2. /\ inHand # Nothing /\ inHand' = Nothing
      /\ UNCHANGED <<client, tries, next_seqNum, serverVars, toServer, toClient>>
  BY DEF Act
<1>3. /\ server' = server /\ sstate' = sstate /\ stored' = stored
      /\ expect_seqNum' = expect_seqNum
  BY <1>2 DEF serverVars
<1>4. /\ inHand.seg \in FromServer
      /\ Got(inHand.seg, sstate, server, stored)
      /\ inHand.state = "SYNSENT" => client \in Before
      /\ inHand.state = "FINWAIT" => client \in Releasing
  <2>1. inHand.seg \in FromServer
    BY <1>1, <1>2 DEF Carried
  <2> QED
    BY <1>1, <1>2, <2>1 DEF HandWell
<1>5. \/ /\ cstate' = "CONNECTED" /\ Reached(sstate, server) /\ client \in Before
         /\ acked' = acked /\ answered' = (answered \/ client \in {"connecting", "connecting: waiting"})
      \/ /\ cstate' = "CLOSED" /\ Released(sstate, server) /\ client \in Releasing
         /\ acked' = acked /\ answered' = answered
      \/ /\ cstate' = cstate /\ answered' = answered
         /\ \/ acked' = acked
            \/ inHand.seg.type = "DATAACK" /\ acked' = AckedBy(inHand.seg.num)
  BY <1>4 DEF Act, Answer, Got
<1>6. Types' /\ Carried'
  <2>1. cstate' \in {"CLOSED", "SYNSENT", "CONNECTED", "FINWAIT"} /\ answered' \in BOOLEAN
    BY <1>1, <1>5 DEF Types
  <2>2. Types'
    BY <1>1, <1>2, <1>3, <2>1 DEF Types
  <2>3. Carried'
    BY <1>1, <1>2 DEF Carried
  <2> QED
    BY <2>2, <2>3
<1>7. Numbers'
  <2>1. Counted(client, next_seqNum, acked, stored) /\ Tried(client, tries)
        /\ expect_seqNum = stored
    BY <1>1 DEF Numbers
  <2>2. inHand.seg.type = "DATAACK" =>
          Counted(client, next_seqNum, AckedBy(inHand.seg.num), stored)
    <3>1. inHand.seg.num \in Nat
      BY <1>4, Limits DEF FromServer, Segment
    <3> QED
      BY <1>4, <2>1, <3>1, CountedAck DEF AckedBy, Got
  <2>3. Counted(client, next_seqNum, acked', stored)
    BY <1>5, <2>1, <2>2
  <2> QED
    BY <1>2, <1>3, <2>1, <2>3, Zenon DEF Numbers
<1>8. ServerWell'
  BY <1>1, <1>2, <1>3 DEF ServerWell
<1>9. ClientWell'
  BY <1>1, <1>2, <1>3, <1>5 DEF ClientWell, Before, Releasing, Leaving
<1>10. HandWell'
  BY <1>2 DEF HandWell
<1>11. /\ AllSent(toServer', client', next_seqNum', stored')
       /\ AllGot(toClient', sstate', server', stored')
  BY <1>1, <1>2, <1>3
<1> QED
  BY <1>6, <1>7, <1>8, <1>9, <1>10, <1>11 DEF IInv

-----------------------------------------------------------------------------
(* The server.                                                             *)

(* A step of the server: it goes on, with what is under way left as it     *)
(* should be.                                                              *)
LEMMA ServerStep ==
    ASSUME IInv, UNCHANGED clientVars,
           Reached(sstate, server) => Reached(sstate', server'),
           Released(sstate, server) => Released(sstate', server'),
           stored' \in Nat, stored <= stored', expect_seqNum' = stored',
           Counted(client, next_seqNum, acked, stored'),
           server' \in {"created", "accepting", "accepted", "close failed", "closing", "closed"},
           sstate' \in {"CLOSED", "LISTENING", "CONNECTED", "CLOSEWAIT"},
           ServerWell',
           toServer' \in Seq(FromClient), toClient' \in Seq(FromServer),
           AllSent(toServer', client, next_seqNum, stored'),
           AllGot(toClient', sstate', server', stored')
    PROVE  IInv'
<1>1. /\ Types /\ Carried /\ Numbers /\ ClientWell /\ HandWell /\ stored \in Nat
  BY Parts
<1>2. /\ client' = client /\ tries' = tries /\ cstate' = cstate /\ answered' = answered
      /\ next_seqNum' = next_seqNum /\ acked' = acked /\ inHand' = inHand
  BY DEF clientVars
<1>3. Types' /\ Carried'
  <2>1. Types'
    BY <1>1, <1>2 DEF Types
  <2>2. Carried'
    BY <1>1, <1>2 DEF Carried
  <2> QED
    BY <2>1, <2>2
<1>4. Numbers'
  <2>1. Tried(client, tries)
    BY <1>1 DEF Numbers
  <2> QED
    BY <1>2, <2>1, Zenon DEF Numbers
<1>5. ClientWell'
  BY <1>1, <1>2 DEF ClientWell
<1>6. HandWell'
  <2>1. CASE inHand = Nothing
    BY <1>2, <2>1 DEF HandWell
  <2>2. CASE inHand # Nothing
    <3>1. inHand.seg \in FromServer
      BY <1>1, <2>2 DEF Carried
    <3>2. Got(inHand.seg, sstate, server, stored)
      BY <1>1, <2>2 DEF HandWell
    <3>3. Got(inHand.seg, sstate', server', stored')
      BY <1>1, <3>1, <3>2, GotOn
    <3> QED
      BY <1>1, <1>2, <2>2, <3>3 DEF HandWell
  <2> QED
    BY <2>1, <2>2
<1> QED
  BY <1>2, <1>3, <1>4, <1>5, <1>6 DEF IInv

(* A step of the server's program.                                         *)
LEMMA ServerProgramStep ==
    ASSUME IInv, Accept \/ AcceptReturns \/ ServerCloses \/ ServerCloseFails \/ ServerClosed
    PROVE  IInv'
<1>1. /\ Types /\ Numbers /\ ServerWell
      /\ toServer \in Seq(FromClient) /\ toClient \in Seq(FromServer)
      /\ stored \in Nat
      /\ AllSent(toServer, client, next_seqNum, stored)
      /\ AllGot(toClient, sstate, server, stored)
  BY Parts
<1>2. /\ UNCHANGED <<clientVars, expect_seqNum, stored, toServer, toClient>>
      /\ \/ server = "created" /\ server' = "accepting" /\ sstate' = "LISTENING"
         \/ /\ server = "accepting" /\ server' = "accepted" /\ sstate = "CONNECTED"
            /\ sstate' = sstate
         \/ /\ server = "accepted" /\ server' = "closing" /\ sstate \in {"CLOSED", "CLOSEWAIT"}
            /\ sstate' = sstate
         \/ server = "accepted" /\ server' = "close failed" /\ sstate' = sstate
         \/ server = "closing" /\ server' = "closed" /\ sstate' = "CLOSED"
  BY DEF Accept, AcceptReturns, ServerCloses, ServerCloseFails, ServerClosed, ServerGoes
<1>3. client' = client
  BY <1>2 DEF clientVars
<1>4. /\ Reached(sstate, server) => Reached(sstate', server')
      /\ Released(sstate, server) <=> Released(sstate', server')
  BY <1>1, <1>2 DEF ServerWell, Reached, Released
<1>5. ServerWell'
  BY <1>1, <1>2, <1>3, <1>4 DEF ServerWell
<1>6. /\ server' \in {"created", "accepting", "accepted", "close failed", "closing", "closed"}
      /\ sstate' \in {"CLOSED", "LISTENING", "CONNECTED", "CLOSEWAIT"}
  BY <1>1, <1>2 DEF Types
<1>7. /\ stored' = stored /\ expect_seqNum' = stored /\ stored <= stored
      /\ Counted(client, next_seqNum, acked, stored)
  <2>1. stored <= stored
    BY <1>1
  <2>2. expect_seqNum = stored /\ Counted(client, next_seqNum, acked, stored)
    BY <1>1 DEF Numbers
  <2> QED
    BY <1>2, <2>1, <2>2
<1>8. AllGot(toClient, sstate', server', stored)
  BY <1>1, <1>4, <1>7, GotStays
<1> QED
  BY <1>1, <1>2, <1>4, <1>5, <1>6, <1>7, <1>8, ServerStep

(* A SYN is handled: none of its data can have been stored, so that the    *)
(* number it sets is the one that is expected.                             *)
LEMMA HandleSynStep ==
    ASSUME IInv, NEW num \in 0 .. MaxData, HandleSyn(num)
    PROVE  IInv'
<1> DEFINE e == Seg("SYNACK", num)
<1>1. /\ Types /\ Numbers /\ ServerWell
      /\ toServer \in Seq(FromClient) /\ toClient \in Seq(FromServer)
      /\ stored \in Nat
      /\ AllSent(toServer, client, next_seqNum, stored)
      /\ AllGot(toClient, sstate, server, stored)
  BY Parts
<1>2. /\ sstate \in {"LISTENING", "CONNECTED"} /\ sstate' = "CONNECTED"
      /\ toServer # <<>> /\ Head(toServer) = Seg("SYN", num) /\ toServer' = Tail(toServer)
      /\ expect_seqNum' = num /\ toClient' = Append(toClient, e)
      /\ UNCHANGED <<clientVars, server, stored>>
  BY DEF HandleSyn, ServerTakes, SendToClient
<1>3. /\ client' = client /\ server' = server /\ stored' = stored /\ stored <= stored
  BY <1>1, <1>2 DEF clientVars
<1>4. Seg("SYN", num).type = "SYN" /\ Seg("SYN", num).num = num
      /\ e.type = "SYNACK" /\ e.num = num /\ e \in FromServer
  BY NewSeg
<1>5. /\ Tail(toServer) \in Seq(FromClient)
      /\ AllSent(Tail(toServer), client, next_seqNum, stored)
      /\ Sent(Seg("SYN", num), client, next_seqNum, stored)
  BY <1>1, <1>2, SentTail
<1>6. num = 0 /\ stored = 0
  BY <1>4, <1>5 DEF Sent
<1>7. /\ Reached(sstate', server')
      /\ Released(sstate, server) <=> Released(sstate', server')
  BY <1>1, <1>2, <1>3 DEF ServerWell, Reached, Released
<1>8. ServerWell'
  BY <1>1, <1>2, <1>3, <1>7 DEF ServerWell
<1>9. /\ server' \in {"created", "accepting", "accepted", "close failed", "closing", "closed"}
      /\ sstate' \in {"CLOSED", "LISTENING", "CONNECTED", "CLOSEWAIT"}
  BY <1>1, <1>2, <1>3 DEF Types
<1>10. Counted(client, next_seqNum, acked, stored)
  BY <1>1 DEF Numbers
<1> HIDE DEF e
<1>11. /\ Append(toClient, e) \in Seq(FromServer)
       /\ AllGot(Append(toClient, e), sstate', server', stored)
  <2>1. AllGot(toClient, sstate', server', stored)
    BY <1>1, <1>3, <1>7, GotStays
  <2>2. Got(e, sstate', server', stored)
    BY <1>4, <1>7 DEF Got
  <2> QED
    BY <1>1, <1>4, <2>1, <2>2, GotNew
<1>12. /\ stored' = stored /\ expect_seqNum' = stored /\ UNCHANGED clientVars
       /\ toServer' = Tail(toServer) /\ toClient' = Append(toClient, e)
  BY <1>2, <1>6
<1> QED
  BY <1>1, <1>3, <1>5, <1>7, <1>8, <1>9, <1>10, <1>11, <1>12, ServerStep

(* DATA is stored if it is expected, and answered in any case.             *)
LEMMA HandleDataStep ==
    ASSUME IInv, NEW num \in 0 .. MaxData, HandleData(num)
    PROVE  IInv'
<1>1. /\ Types /\ Numbers /\ ServerWell
      /\ toServer \in Seq(FromClient) /\ toClient \in Seq(FromServer)
      /\ stored \in Nat
      /\ AllSent(toServer, client, next_seqNum, stored)
      /\ AllGot(toClient, sstate, server, stored)
  BY Parts
<1>2. /\ sstate = "CONNECTED" /\ toServer # <<>> /\ Head(toServer) = Seg("DATA", num)
      /\ toServer' = Tail(toServer)
      /\ \/ num = expect_seqNum /\ expect_seqNum' = num + 1 /\ stored' = stored + 1
         \/ expect_seqNum' = expect_seqNum /\ stored' = stored
      /\ toClient' = Append(toClient, Seg("DATAACK", expect_seqNum'))
      /\ UNCHANGED <<clientVars, server, sstate>>
  BY DEF HandleData, ServerTakes, SendToClient, Expected
<1>3. Counted(client, next_seqNum, acked, stored) /\ expect_seqNum = stored
  BY <1>1 DEF Numbers
<1>4. Seg("DATA", num).type = "DATA" /\ Seg("DATA", num).num = num
  BY NewSeg
<1>5. /\ Tail(toServer) \in Seq(FromClient)
      /\ num < next_seqNum
  BY <1>1, <1>2, <1>4, SentTail DEF Sent
<1>6. PICK sto : /\ stored' = sto /\ expect_seqNum' = sto
                 /\ sto \in Nat /\ stored <= sto /\ sto \in 0 .. MaxData
                 /\ Counted(client, next_seqNum, acked, sto)
  <2>1. CASE num = expect_seqNum /\ expect_seqNum' = num + 1 /\ stored' = stored + 1
    <3>1. stored < next_seqNum
      BY <1>3, <1>5, <2>1
    <3>2. /\ stored + 1 \in Nat /\ stored <= stored + 1 /\ stored + 1 \in 0 .. MaxData
          /\ Counted(client, next_seqNum, acked, stored + 1)
      BY <1>3, <3>1, CountedStored
    <3>3. stored' = stored + 1 /\ expect_seqNum' = stored + 1
      BY <1>3, <2>1
    <3> QED
      BY <3>2, <3>3, Zenon
  <2>2. CASE expect_seqNum' = expect_seqNum /\ stored' = stored
    <3>1. stored \in Nat /\ stored <= stored /\ stored \in 0 .. MaxData
      BY <1>3, Limits DEF Counted
    <3> QED
      BY <1>3, <2>2, <3>1, Zenon
  <2> QED
    BY <1>2, <2>1, <2>2
<1>7. AllSent(Tail(toServer), client, next_seqNum, sto)
  BY <1>1, <1>2, <1>4, SentTail
<1>8. server' = server /\ sstate' = sstate /\ client' = client
  BY <1>2 DEF clientVars
<1>9. ServerWell'
  BY <1>1, <1>8 DEF ServerWell
<1> DEFINE e == Seg("DATAACK", sto)
<1>10. e \in FromServer /\ e.type = "DATAACK" /\ e.num = sto
  BY <1>6, NewSeg
<1> HIDE DEF e
<1>11. Append(toClient, e) \in Seq(FromServer) /\ AllGot(Append(toClient, e), sstate, server, sto)
  <2>1. AllGot(toClient, sstate, server, sto)
    BY <1>1, <1>6, GotStays
  <2>2. Got(e, sstate, server, sto)
    <3>1. sto <= sto
      BY <1>6
    <3> QED
      BY <1>10, <3>1 DEF Got
  <2> QED
    BY <1>1, <1>10, <2>1, <2>2, GotNew
<1>12. toClient' = Append(toClient, e)
  BY <1>2, <1>6 DEF e
<1>13. /\ server \in {"created", "accepting", "accepted", "close failed", "closing", "closed"}
       /\ sstate \in {"CLOSED", "LISTENING", "CONNECTED", "CLOSEWAIT"}
  BY <1>1 DEF Types
<1>14. UNCHANGED clientVars /\ toServer' = Tail(toServer)
  BY <1>2
<1> QED
  BY <1>5, <1>6, <1>7, <1>8, <1>9, <1>11, <1>12, <1>13, <1>14, ServerStep

(* The FIN is handled: the client has nothing more to send.                *)
LEMMA HandleFinStep ==
    ASSUME IInv, NEW num \in 0 .. MaxData, HandleFin(num)
    PROVE  IInv'
<1> DEFINE e == Seg("FINACK", expect_seqNum)
<1>1. /\ Types /\ Numbers /\ ServerWell
      /\ toServer \in Seq(FromClient) /\ toClient \in Seq(FromServer)
      /\ stored \in Nat
      /\ AllSent(toServer, client, next_seqNum, stored)
      /\ AllGot(toClient, sstate, server, stored)
  BY Parts
<1>2. /\ sstate \in {"CONNECTED", "CLOSEWAIT"} /\ sstate' = "CLOSEWAIT"
      /\ toServer # <<>> /\ Head(toServer) = Seg("FIN", num) /\ toServer' = Tail(toServer)
      /\ toClient' = Append(toClient, e)
      /\ UNCHANGED <<clientVars, server, expect_seqNum, stored>>
  BY DEF HandleFin, ServerTakes, SendToClient
<1>3. Counted(client, next_seqNum, acked, stored) /\ expect_seqNum = stored
  BY <1>1 DEF Numbers
<1>4. stored <= stored /\ stored \in 0 .. MaxData
  BY <1>3, Limits DEF Counted
<1>5. Seg("FIN", num).type = "FIN" /\ e \in FromServer /\ e.type = "FINACK"
  BY <1>3, <1>4, NewSeg
<1>6. /\ Tail(toServer) \in Seq(FromClient)
      /\ AllSent(Tail(toServer), client, next_seqNum, stored)
      /\ client \in Releasing
  BY <1>1, <1>2, <1>5, SentTail DEF Sent
<1>7. server' = server /\ stored' = stored /\ expect_seqNum' = stored /\ client' = client
  BY <1>2, <1>3 DEF clientVars
<1>8. Reached(sstate', server') /\ Released(sstate', server')
  BY <1>2 DEF Reached, Released
<1>9. ServerWell'
  BY <1>1, <1>2, <1>6, <1>7 DEF ServerWell
<1> HIDE DEF e
<1>10. /\ Append(toClient, e) \in Seq(FromServer)
       /\ AllGot(Append(toClient, e), sstate', server', stored)
  <2>1. AllGot(toClient, sstate', server', stored)
    BY <1>1, <1>4, <1>8, GotStays
  <2>2. Got(e, sstate', server', stored)
    BY <1>5, <1>8 DEF Got
  <2> QED
    BY <1>1, <1>5, <2>1, <2>2, GotNew
<1>11. /\ server' \in {"created", "accepting", "accepted", "close failed", "closing", "closed"}
       /\ sstate' \in {"CLOSED", "LISTENING", "CONNECTED", "CLOSEWAIT"}
  BY <1>1, <1>2, <1>7 DEF Types
<1>12. UNCHANGED clientVars /\ toServer' = Tail(toServer) /\ toClient' = Append(toClient, e)
  BY <1>2
<1> QED
  BY <1>1, <1>3, <1>4, <1>6, <1>7, <1>8, <1>9, <1>10, <1>11, <1>12, ServerStep

(* A segment is dropped by its receiver, or lost before.                   *)
LEMMA DropStep ==
    ASSUME IInv, Lose \/ \E seg \in FromClient : Ignore(seg)
    PROVE  IInv'
<1>1. /\ Types /\ Carried /\ Numbers /\ ServerWell /\ ClientWell /\ HandWell
      /\ toServer \in Seq(FromClient) /\ toClient \in Seq(FromServer)
      /\ stored \in Nat
      /\ AllSent(toServer, client, next_seqNum, stored)
      /\ AllGot(toClient, sstate, server, stored)
  BY Parts
<1>2. /\ UNCHANGED clientVars /\ UNCHANGED serverVars
      /\ \/ toServer # <<>> /\ toServer' = Tail(toServer) /\ toClient' = toClient
         \/ toClient # <<>> /\ toClient' = Tail(toClient) /\ toServer' = toServer
  BY DEF Lose, Ignore, ServerTakes
<1>3. /\ toServer' \in Seq(FromClient) /\ AllSent(toServer', client, next_seqNum, stored)
      /\ toClient' \in Seq(FromServer) /\ AllGot(toClient', sstate, server, stored)
  <2>1. toServer # <<>> => /\ Tail(toServer) \in Seq(FromClient)
                           /\ AllSent(Tail(toServer), client, next_seqNum, stored)
    BY <1>1, SentTail
  <2>2. toClient # <<>> => /\ Tail(toClient) \in Seq(FromServer)
                           /\ AllGot(Tail(toClient), sstate, server, stored)
    BY <1>1, GotTail
  <2> QED
    BY <1>1, <1>2, <2>1, <2>2
<1>4. server' = server /\ sstate' = sstate /\ stored' = stored
      /\ expect_seqNum' = expect_seqNum /\ client' = client
  BY <1>2 DEF serverVars, clientVars
<1>5. ServerWell'
  BY <1>1, <1>4 DEF ServerWell
<1>6. /\ stored <= stored /\ expect_seqNum = stored
      /\ Counted(client, next_seqNum, acked, stored)
      /\ server \in {"created", "accepting", "accepted", "close failed", "closing", "closed"}
      /\ sstate \in {"CLOSED", "LISTENING", "CONNECTED", "CLOSEWAIT"}
  <2>1. stored <= stored
    BY <1>1
  <2>2. expect_seqNum = stored /\ Counted(client, next_seqNum, acked, stored)
    BY <1>1 DEF Numbers
  <2> QED
    BY <1>1, <2>1, <2>2 DEF Types
<1> QED
  BY <1>1, <1>2, <1>3, <1>4, <1>5, <1>6, ServerStep

-----------------------------------------------------------------------------
(* The theorems.                                                           *)

(* The invariant holds at first.                                           *)
LEMMA InitInv == Init => IInv
<1> SUFFICES ASSUME Init PROVE IInv
  OBVIOUS
<1> USE DEF Init, Before, Releasing, Leaving
<1>1. Types
  BY DEF Types
<1>2. Carried
  <2>1. <<>> \in Seq(FromClient) /\ <<>> \in Seq(FromServer)
    OBVIOUS
  <2> QED
    BY <2>1 DEF Carried
<1>3. Numbers
  BY Limits DEF Numbers, Tried, Counted
<1>4. ServerWell
  BY DEF ServerWell, Released
<1>5. ClientWell
  BY DEF ClientWell
<1>6. HandWell
  BY DEF HandWell
<1>7. AllSent(toServer, client, next_seqNum, stored)
  BY DEF AllSent
<1>8. AllGot(toClient, sstate, server, stored)
  BY DEF AllGot
<1> QED
  BY <1>1, <1>2, <1>3, <1>4, <1>5, <1>6, <1>7, <1>8 DEF IInv

(* Every step keeps it.                                                    *)
LEMMA NextInv == IInv /\ [Next]_vars => IInv'
<1> SUFFICES ASSUME IInv, [Next]_vars PROVE IInv'
  OBVIOUS
<1>1. CASE ConnectAttempt \/ DisconnectAttempt
  BY <1>1, AttemptStep
<1>2. CASE ConnectTimesOut \/ DisconnectTimesOut \/ Connected \/ Disconnected
  BY <1>2, WaitOverStep
<1>3. CASE ConnectGivesUp \/ DisconnectGivesUp
  BY <1>3, GivesUpStep
<1>4. CASE SendData
  BY <1>4, SendDataStep
<1>5. CASE DisconnectBegins \/ ClientClose
  BY <1>5, CallStep
<1>6. CASE DispatchAny
  BY <1>6, DispatchStep DEF DispatchAny, FromServer
<1>7. CASE Act
  BY <1>7, ActStep
<1>8. CASE Accept \/ AcceptReturns \/ ServerCloses \/ ServerCloseFails \/ ServerClosed
  BY <1>8, ServerProgramStep
<1>9. CASE \E num \in 0 .. MaxData : Transmit(num)
  BY <1>9, TransmitStep
<1>10. CASE HandleAny
  BY <1>10, HandleSynStep, HandleDataStep, HandleFinStep, DropStep DEF HandleAny, FromClient
<1>11. CASE Lose
  BY <1>11, DropStep
<1>12. CASE UNCHANGED vars
  <2>1. UNCHANGED <<client, tries, cstate, next_seqNum, acked, inHand, answered>>
    BY <1>12 DEF vars, clientVars
  <2>2. UNCHANGED <<server, sstate, expect_seqNum, stored, toServer, toClient>>
    BY <1>12 DEF vars, serverVars
  <2>3. Types' /\ Carried' /\ Numbers' /\ ServerWell' /\ ClientWell' /\ HandWell'
    <3>1. Types' /\ Carried'
      BY <2>1, <2>2 DEF IInv, Types, Carried
    <3>2. Numbers'
      BY <2>1, <2>2 DEF IInv, Numbers
    <3>3. ServerWell' /\ ClientWell' /\ HandWell'
      BY <2>1, <2>2 DEF IInv, ServerWell, ClientWell, HandWell
    <3> QED
      BY <3>1, <3>2, <3>3
  <2> QED
    BY <2>1, <2>2, <2>3 DEF IInv
<1> QED
  BY <1>1, <1>2, <1>3, <1>4, <1>5, <1>6, <1>7, <1>8, <1>9, <1>10, <1>11, <1>12 DEF Next

(* The inductive invariant always holds: how far both sides are, which     *)
(* segments can be under way, and what each program's place says of the    *)
(* other side.                                                             *)
THEOREM Invariant == Spec => []IInv
<1> QED
  BY InitInv, NextInv, PTL DEF Spec

(* Every variable keeps its type: no call makes more attempts than its     *)
(* limit, and no number leaves its range.                                  *)
THEOREM TypeCorrect == Spec => []TypeOK
<1>1. IInv => TypeOK
  <2> SUFFICES ASSUME IInv PROVE TypeOK
    OBVIOUS
  <2>1. Types /\ Carried /\ Tried(client, tries)
        /\ Counted(client, next_seqNum, acked, stored) /\ expect_seqNum = stored
    BY Parts DEF Numbers
  <2>2. client \in Calls \cup {Waiting(call) : call \in Calls}
                  \cup {"connected", "connect failed"}
                  \cup {"disconnected", "disconnect failed", "closed"}
    <3>1. /\ "connecting" \in Calls /\ Waiting("connecting") = "connecting: waiting"
          /\ "disconnecting" \in Calls /\ Waiting("disconnecting") = "disconnecting: waiting"
      BY DEF Calls, Waiting
    <3> QED
      BY <2>1, <3>1 DEF Types, Before, Releasing, Leaving
  <2>3. tries =< IF client \in {"connecting", "connecting: waiting", "connect failed"}
                 THEN SYN_MAX_RETRY ELSE FIN_MAX_RETRY
    BY <2>1 DEF Tried, Before
  <2>4. /\ acked \in 0 .. next_seqNum /\ next_seqNum \in 0 .. MaxData
        /\ {expect_seqNum, stored} \subseteq 0 .. MaxData
    BY <2>1, Limits DEF Counted
  <2> QED
    BY <2>1, <2>2, <2>3, <2>4 DEF TypeOK, Types, Carried, FromClient, FromServer
<1> QED
  BY <1>1, Invariant, PTL

(* While the client program may send, both sides are connected and agree   *)
(* on what has been stored and acknowledged, whatever SYN of an earlier    *)
(* attempt was still under way when connect returned.                      *)
THEOREM AgreementCorrect == Spec => []Agreement
<1>1. IInv => Agreement
  <2> SUFFICES ASSUME IInv, client = "connected" PROVE Agreement
    BY DEF Agreement
  <2>1. Numbers /\ ServerWell /\ ClientWell
    BY Parts
  <2>2. cstate = "CONNECTED" /\ Reached(sstate, server) /\ ~Released(sstate, server)
    BY <2>1 DEF ClientWell, ServerWell, Before, Releasing, Leaving
  <2>3. sstate = "CONNECTED"
    BY <2>2 DEF Reached, Released
  <2>4. expect_seqNum = stored /\ acked =< stored /\ stored =< next_seqNum
    BY <2>1 DEF Numbers, Counted
  <2> QED
    BY <2>2, <2>3, <2>4 DEF Agreement
<1> QED
  BY <1>1, Invariant, PTL

(* The server leaves a connection only with everything stored and          *)
(* acknowledged, and disconnect returns 1 only if the FIN has arrived.     *)
THEOREM ReleaseSoundCorrect == Spec => []ReleaseSound
<1>1. IInv => ReleaseSound
  <2> SUFFICES ASSUME IInv PROVE ReleaseSound
    OBVIOUS
  <2>1. Numbers /\ ServerWell /\ ClientWell /\ Types
    BY Parts
  <2>2. ASSUME sstate = "CLOSEWAIT" \/ server \in {"closing", "closed"}
        PROVE  stored = next_seqNum /\ acked = next_seqNum
    <3>1. client \in Releasing
      BY <2>1, <2>2 DEF ServerWell, Released
    <3>2. Counted(client, next_seqNum, acked, stored)
      BY <2>1 DEF Numbers
    <3> QED
      BY <3>1, <3>2 DEF Counted
  <2>3. ASSUME client \in {"disconnected", "closed"}
        PROVE  sstate = "CLOSEWAIT" \/ server = "closed"
    BY <2>1, <2>3 DEF ClientWell, Released, Leaving
  <2> QED
    BY <2>2, <2>3 DEF ReleaseSound
<1> QED
  BY <1>1, Invariant, PTL

(* The client's seghandler never holds a TCB that close has freed.         *)
THEOREM NoStaleTCBCorrect == Spec => []NoStaleTCB
<1>1. IInv => NoStaleTCB
  BY Parts DEF ClientWell, NoStaleTCB
<1> QED
  BY <1>1, Invariant, PTL
=============================================================================
