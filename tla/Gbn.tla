-------------------------------- MODULE Gbn --------------------------------
(***************************************************************************)
(* One direction of an established STCP connection: go-back-N over a       *)
(* network that loses segments and may reorder them.                       *)
(*                                                                         *)
(* Sender: stcp_send, called by the program (BeginSend, FinishSend), the   *)
(* DATAACK branch of seghandler (HandleDataAck) and the sendBuf_timer      *)
(* threads (TimerWakes, TimerResends, TimerExits).  Receiver:   *)
(* the DATA branch of seghandler (HandleData) and the program's recv       *)
(* calls (Receive).  Every segment counts as one unit of sequence number;  *)
(* its payload is its place in the stream.                                 *)
(***************************************************************************)
EXTENDS Naturals, Sequences, FiniteSets, SequencesExt

CONSTANTS
    GBN_WINDOW,
    MAX_SEQNUM,
    TimerLocksSendBuf,  \* sendBuf_timer holds the send buffer's own mutex
    Reordering,         \* segments may overtake each other
    NoSeg,
    MaxData,            \* bound: segments sent in a run
    MaxInFlight         \* bound: segments under way in one direction

(* A segment being built has taken its sequence number already, so the     *)
(* numbers in use are one more than the window.  If segments may overtake  *)
(* each other, old ones must not look like new ones.                       *)
ASSUME GbnAssumption ==
    /\ GBN_WINDOW \in Nat \ {0}
    /\ MAX_SEQNUM \in Nat /\ MAX_SEQNUM > GBN_WINDOW + 1
    /\ {TimerLocksSendBuf, Reordering} \subseteq BOOLEAN
    /\ MaxData \in Nat /\ MaxInFlight \in Nat \ {0}
    /\ Reordering => MAX_SEQNUM > MaxData + 1

SeqNum  == 0 .. MAX_SEQNUM - 1
Segment == [seq : SeqNum, data : 1 .. MaxData]

ASSUME NoSegAssumption == NoSeg \notin Segment

VARIABLES
    next_seqNum,
    accepted,       \* send calls so far, the last segment's place in the stream
    building,       \* the segment stcp_send has numbered and not yet appended
    sendBuf,        \* the list from sendBufHead to sendBufTail
    unSent,         \* length of its part that starts at sendBufunSent (0: NULL)
    unAck_segNum,
    timers,         \* running sendBuf_timer threads
    resending,      \* the segment a timer is about to send again
    toReceiver,     \* DATA segments under way
    toSender,       \* ack_num of the DATAACK segments under way
    expect_seqNum,
    recvBuf,        \* payloads in the receive buffer
    taken           \* payloads the receiving program has got

tcb      == <<sendBuf, unSent, unAck_segNum>>
sender   == <<next_seqNum, accepted, building, tcb, timers, resending>>
receiver == <<expect_seqNum, recvBuf, taken>>
vars     == <<sender, receiver, toReceiver, toSender>>

-----------------------------------------------------------------------------
(* The network.  What does not fit into it is lost; only a timer waits     *)
(* until there is room, as it waits for the connection to the SIP process. *)
Carry(chan, segs) == SubSeq(chan \o segs, 1, IF Len(chan \o segs) < MaxInFlight
                                             THEN Len(chan \o segs) ELSE MaxInFlight)

(* The places of a channel from which a segment may arrive next.           *)
Arriving(chan) == IF Reordering THEN DOMAIN chan ELSE DOMAIN chan \cap {1}

-----------------------------------------------------------------------------
(* The sender.                                                             *)

Sent == SubSeq(sendBuf, 1, Len(sendBuf) - unSent)

(* How many more segments the window lets go; mutants: one too many, none  *)
(* at all.                                                                 *)
RoomForOneMore(unAck) == IF unAck =< GBN_WINDOW THEN GBN_WINDOW - unAck + 1 ELSE 0

NoRoom(unAck) == 0

Room(unAck) == IF unAck < GBN_WINDOW THEN GBN_WINDOW - unAck ELSE 0

(* Mutant: the sequence number is not taken modulo MAX_SEQNUM.             *)
FollowingNotWrapped(seq) == seq + 1

Following(seq) == (seq + 1) % MAX_SEQNUM

(* The send buffer becomes buf, of which the last waiting segments are     *)
(* unsent; as many of them as the window has room for are sent.            *)
FillWindow(buf, waiting, unAck) ==
    LET n == IF waiting < Room(unAck) THEN waiting ELSE Room(unAck)
        first == Len(buf) - waiting + 1
    IN  /\ sendBuf' = buf
        /\ unSent' = waiting - n
        /\ unAck_segNum' = unAck + n
        /\ toReceiver' = Carry(toReceiver, SubSeq(buf, first, first + n - 1))

(* The mutex of the send buffer is free.                                   *)
SendBufFree == ~TimerLocksSendBuf \/ resending = NoSeg

Init ==
    /\ next_seqNum = 0 /\ accepted = 0 /\ building = NoSeg
    /\ sendBuf = <<>> /\ unSent = 0 /\ unAck_segNum = 0
    /\ timers = 0 /\ resending = NoSeg
    /\ toReceiver = <<>> /\ toSender = <<>>
    /\ expect_seqNum = 0 /\ recvBuf = <<>> /\ taken = <<>>

(* stcp_send numbers the segment before it takes the mutex.                *)
BeginSend ==
    /\ building = NoSeg
    /\ accepted < MaxData
    /\ accepted' = accepted + 1
    /\ building' = [seq |-> next_seqNum, data |-> accepted + 1]
    /\ next_seqNum' = Following(next_seqNum)
    /\ UNCHANGED <<tcb, timers, resending, receiver, toReceiver, toSender>>

(* With the mutex: the first segment is sent at once and a timer thread    *)
(* started; another is appended and the window filled up.                  *)
FinishSend ==
    /\ building # NoSeg
    /\ SendBufFree
    /\ building' = NoSeg
    /\ \/ /\ sendBuf = <<>>
          /\ sendBuf' = <<building>>
          /\ unAck_segNum' = unAck_segNum + 1
          /\ timers' = timers + 1
          /\ toReceiver' = Carry(toReceiver, <<building>>)
          /\ UNCHANGED unSent
       \/ /\ sendBuf # <<>>
          /\ FillWindow(Append(sendBuf, building), unSent + 1, unAck_segNum)
          /\ UNCHANGED timers
    /\ UNCHANGED <<next_seqNum, accepted, resending, receiver, toSender>>

(* Mutants: unsent segments are forgotten; only unsent segments are        *)
(* thought of.                                                             *)
AcksAllIfNoneUnsent(ack) == ack = next_seqNum

AcksAllIfSomeUnsent(ack) ==
    unSent # 0 /\ ack = sendBuf[Len(sendBuf) - unSent + 1].seq

(* Everything sent is acknowledged: ack is the number of the first unsent  *)
(* segment or, if all are sent, the next number to be given out.           *)
AcksAll(ack) ==
    ack = IF unSent # 0 THEN sendBuf[Len(sendBuf) - unSent + 1].seq ELSE next_seqNum

(* The sent segments an ack lies behind: all, or those before the first    *)
(* that bears its number, or none.                                         *)
Before(ack) ==
    {n \in DOMAIN Sent : /\ \E m \in DOMAIN Sent : Sent[m].seq = ack
                         /\ \A m \in 1 .. n : Sent[m].seq # ack}

(* How many segments at the head of the list an ack frees.                 *)
Freed(ack) == IF AcksAll(ack) THEN Len(Sent) ELSE Cardinality(Before(ack))

HandleDataAck(ack) ==
    /\ \E n \in Arriving(toSender) :
          toSender[n] = ack /\ toSender' = RemoveAt(toSender, n)
    /\ SendBufFree
    /\ \/ /\ sendBuf = <<>>
          /\ UNCHANGED <<tcb, toReceiver>>
       \/ /\ sendBuf # <<>>
          /\ LET n == Freed(ack)
             IN  FillWindow(SubSeq(sendBuf, n + 1, Len(sendBuf)), unSent, unAck_segNum - n)
    /\ UNCHANGED <<next_seqNum, accepted, building, timers, resending, receiver>>

(* A timer finds the first unacknowledged segment too old and starts to    *)
(* send all that are unacknowledged again, one after the other.            *)
TimerWakes ==
    /\ timers > 0 /\ resending = NoSeg
    /\ Sent # <<>>
    /\ resending' = Head(Sent)
    /\ UNCHANGED <<next_seqNum, accepted, building, tcb, timers, receiver, toReceiver, toSender>>

TimerResends ==
    /\ Len(toReceiver) < MaxInFlight
    /\ \E n \in DOMAIN sendBuf :
          /\ resending = sendBuf[n]
          /\ resending' = IF n < Len(Sent) THEN sendBuf[n + 1] ELSE NoSeg
    /\ toReceiver' = Carry(toReceiver, <<resending>>)
    /\ UNCHANGED <<next_seqNum, accepted, building, tcb, timers, receiver, toSender>>

TimerExits ==
    /\ timers > 0 /\ resending = NoSeg
    /\ sendBuf = <<>>
    /\ timers' = timers - 1
    /\ UNCHANGED <<next_seqNum, accepted, building, tcb, resending, receiver, toReceiver, toSender>>

-----------------------------------------------------------------------------
(* The receiver.                                                           *)

(* Mutant: a later segment is taken for the expected one.                  *)
ExpectedOrLater(seg) == seg.seq >= expect_seqNum

Expected(seg) == seg.seq = expect_seqNum

(* Only the expected segment is stored; any segment is answered with the   *)
(* number expected next.                                                   *)
HandleData(seg) ==
    /\ \E n \in Arriving(toReceiver) :
          toReceiver[n] = seg /\ toReceiver' = RemoveAt(toReceiver, n)
    /\ \/ /\ Expected(seg)
          /\ recvBuf' = Append(recvBuf, seg.data)
          /\ expect_seqNum' = Following(expect_seqNum)
       \/ /\ ~Expected(seg)
          /\ UNCHANGED <<recvBuf, expect_seqNum>>
    /\ toSender' = Carry(toSender, <<expect_seqNum'>>)
    /\ UNCHANGED <<sender, taken>>

(* stcp_server_recv / stcp_client_recv for length units.                   *)
Receive(length) ==
    /\ Len(recvBuf) >= length
    /\ taken' = taken \o SubSeq(recvBuf, 1, length)
    /\ recvBuf' = SubSeq(recvBuf, length + 1, Len(recvBuf))
    /\ UNCHANGED <<sender, expect_seqNum, toReceiver, toSender>>

(* seglost: a segment is dropped, or damaged so that its checksum fails.   *)
(* It is the receiving seghandler that loses it, at the moment at which it *)
(* would have handled it.                                                  *)
Lose ==
    \/ /\ \E n \in Arriving(toReceiver) : toReceiver' = RemoveAt(toReceiver, n)
       /\ UNCHANGED <<sender, receiver, toSender>>
    \/ /\ SendBufFree
       /\ \E n \in Arriving(toSender) : toSender' = RemoveAt(toSender, n)
       /\ UNCHANGED <<sender, receiver, toReceiver>>

Next ==
    \/ BeginSend \/ FinishSend
    \/ TimerWakes \/ TimerResends \/ TimerExits
    \/ \E ack \in SeqNum : HandleDataAck(ack)
    \/ \E seg \in Segment : HandleData(seg)
    \/ \E length \in 1 .. MaxData : Receive(length)
    \/ Lose

(* The threads run and nobody waits for the mutex forever.  A segment that *)
(* is sent again and again arrives in the end, and not all of the          *)
(* acknowledgements are lost.  No program has to send or to receive.       *)
HandleAnyAck == \E ack \in SeqNum : HandleDataAck(ack)

HandleDataOf(d) == \E seg \in Segment : seg.data = d /\ HandleData(seg)

Fairness ==
    /\ SF_vars(FinishSend) /\ SF_vars(HandleAnyAck)
    /\ WF_vars(TimerWakes) /\ WF_vars(TimerResends) /\ WF_vars(TimerExits)
    /\ \A d \in 1 .. MaxData : SF_vars(HandleDataOf(d))

Spec == Init /\ [][Next]_vars

FairSpec == Spec /\ Fairness
-----------------------------------------------------------------------------
Received == taken \o recvBuf

TypeOK ==
    /\ {next_seqNum, expect_seqNum} \subseteq SeqNum
    /\ accepted \in 0 .. MaxData
    /\ {building, resending} \subseteq Segment \cup {NoSeg}
    /\ sendBuf \in Seq(Segment)
    /\ unSent \in 0 .. Len(sendBuf)
    /\ unAck_segNum \in Nat /\ timers \in Nat
    /\ toReceiver \in Seq(Segment) /\ toSender \in Seq(SeqNum)
    /\ recvBuf \in Seq(1 .. MaxData) /\ taken \in Seq(1 .. MaxData)

(* The receiving program's stream is what the sender handed over, in order *)
(* and exactly once, whatever is lost, repeated or overtaken.              *)
Stream == INSTANCE ReliableStream WITH received <- Received

ImplementsReliableStream == Stream!Spec

(* The count the code keeps apart from its three pointers agrees with them *)
(* (stcp_client.c:189-209, 413-447), and no segment waits unsent while the *)
(* window has room: nothing would ever send it.                            *)
WindowConsistent ==
    /\ unAck_segNum = Len(Sent)
    /\ unAck_segNum =< GBN_WINDOW
    /\ unSent > 0 => unAck_segNum = GBN_WINDOW

(* A segment leaves the send buffer only after it has reached the receive  *)
(* buffer, although the check that everything is acknowledged compares     *)
(* with a next_seqNum that may be ahead of the buffer (line 411); and when *)
(* the send buffer is empty, which stcp_client_disconnect waits for, the   *)
(* number it puts into the FIN is the one the server expects.              *)
NothingLost ==
    /\ \A d \in 1 .. accepted :
          \/ d =< Len(Received)
          \/ d \in {sendBuf[n].data : n \in DOMAIN sendBuf}
          \/ building # NoSeg /\ building.data = d
    /\ sendBuf = <<>> /\ building = NoSeg =>
          next_seqNum = expect_seqNum /\ Len(Received) = accepted

(* The segment a timer is about to send again has not been freed by the    *)
(* handling of an acknowledgement meanwhile.                               *)
TimerPointerLive == resending # NoSeg => resending \in ToSet(sendBuf)

(* What is handed over arrives, the send buffer empties (so that           *)
(* disconnect gets past its waiting loop) and the timer threads end.       *)
AllArrives == \A d \in 1 .. MaxData : accepted >= d ~> Len(Received) >= d

Drains == <>[](sendBuf = <<>> /\ building = NoSeg /\ timers = 0)
=============================================================================
