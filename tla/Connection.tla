----------------------------- MODULE Connection -----------------------------
(***************************************************************************)
(* Setting up and releasing one STCP connection: the program of lab10's    *)
(* client (connect, send, disconnect, close; an unsuccessful connect or    *)
(* disconnect ends it), the client's seghandler, the program of the server *)
(* (accept, close) and the server's seghandler, over a FIFO network that   *)
(* loses segments.                                                         *)
(*                                                                         *)
(* connect and disconnect are loops of attempts that poll the TCB's state  *)
(* while the seghandler thread, without any lock, writes it; the client's  *)
(* seghandler therefore takes two steps, one that reads the state and one  *)
(* that acts upon what it has read.  How the data is sent is the matter of *)
(* Gbn; here any unacknowledged segment may be sent, at any time, and      *)
(* sequence numbers count segments and do not wrap around.                 *)
(***************************************************************************)
EXTENDS Naturals, Sequences

CONSTANTS
    SYN_MAX_RETRY,
    FIN_MAX_RETRY,
    Nothing,        \* seghandler has no segment in hand
    MaxData,        \* bound: segments the client program sends
    MaxInFlight     \* bound: segments under way (a full connection blocks)

ASSUME ConnectionAssumption ==
    /\ {SYN_MAX_RETRY, FIN_MAX_RETRY, MaxInFlight} \subseteq Nat \ {0}
    /\ MaxData \in Nat

VARIABLES
    client,         \* where the client program is
    tries,          \* flag of connect's and disconnect's loops
    cstate,         \* the client TCB's state
    next_seqNum,
    acked,          \* first unacknowledged number: the head of the send buffer
    inHand,         \* the segment of the client's seghandler, and the state it read
    answered,       \* history: a SYNACK came while connect was running
    server,         \* where the server program is
    sstate,         \* the server TCB's state
    expect_seqNum,
    stored,         \* segments put into the receive buffer
    toServer, toClient

clientVars == <<client, tries, cstate, next_seqNum, acked, inHand, answered>>
serverVars == <<server, sstate, expect_seqNum, stored>>
vars == <<clientVars, serverVars, toServer, toClient>>

Seg(type, num) == [type |-> type, num |-> num]

Segment(types) == [type : types, num : 0 .. MaxData]

HasRoom(chan) == Len(chan) < MaxInFlight

SendToServer(type, num) ==
    /\ HasRoom(toServer)
    /\ toServer' = Append(toServer, Seg(type, num))

SendToClient(type, num) ==
    /\ HasRoom(toClient)
    /\ toClient' = Append(toClient, Seg(type, num))

Init ==
    /\ client = "connecting" /\ tries = 0 /\ cstate = "CLOSED"
    /\ next_seqNum = 0 /\ acked = 0 /\ inHand = Nothing /\ answered = FALSE
    /\ server = "created" /\ sstate = "CLOSED"
    /\ expect_seqNum = 0 /\ stored = 0
    /\ toServer = <<>> /\ toClient = <<>>

-----------------------------------------------------------------------------
(* stcp_client_connect and stcp_client_disconnect: one attempt after the   *)
(* other, until the seghandler has brought the state they wait for.        *)

(* In the middle of an attempt of that call.                               *)
Waiting(at) == CASE at = "connecting" -> "connecting: waiting"
                 [] at = "disconnecting" -> "disconnecting: waiting"

(* Mutant: one attempt too many.                                           *)
OneMoreTry(max) == tries =< max

TriesLeft(max) == tries < max

Attempt(at, type, max, state) ==
    /\ client = at
    /\ TriesLeft(max)
    /\ tries' = tries + 1
    /\ cstate' = state
    /\ SendToServer(type, next_seqNum)
    /\ client' = Waiting(at)
    /\ UNCHANGED <<next_seqNum, acked, inHand, answered, serverVars, toClient>>

ConnectAttempt == Attempt("connecting", "SYN", SYN_MAX_RETRY, "SYNSENT")

DisconnectAttempt == Attempt("disconnecting", "FIN", FIN_MAX_RETRY, "FINWAIT")

(* The state has been found not to be the one waited for, and the time for *)
(* this attempt is over.                                                   *)
TimesOut(at, awaited) ==
    /\ client = Waiting(at)
    /\ cstate # awaited
    /\ client' = at
    /\ UNCHANGED <<tries, cstate, next_seqNum, acked, inHand, answered, serverVars,
                   toServer, toClient>>

ConnectTimesOut == TimesOut("connecting", "CONNECTED")

DisconnectTimesOut == TimesOut("disconnecting", "CLOSED")

Returns1(at, awaited, then) ==
    /\ client = Waiting(at)
    /\ cstate = awaited
    /\ client' = then
    /\ tries' = 0
    /\ UNCHANGED <<cstate, next_seqNum, acked, inHand, answered, serverVars, toServer, toClient>>

Connected == Returns1("connecting", "CONNECTED", "connected")

Disconnected == Returns1("disconnecting", "CLOSED", "disconnected")

GivesUp(at, max, then) ==
    /\ client = at
    /\ ~TriesLeft(max)
    /\ cstate' = "CLOSED"
    /\ client' = then
    /\ UNCHANGED <<tries, next_seqNum, acked, inHand, answered, serverVars, toServer, toClient>>

ConnectGivesUp == GivesUp("connecting", SYN_MAX_RETRY, "connect failed")

DisconnectGivesUp == GivesUp("disconnecting", FIN_MAX_RETRY, "disconnect failed")

(* stcp_client_send.                                                       *)
SendData ==
    /\ client = "connected"
    /\ next_seqNum < MaxData
    /\ next_seqNum' = next_seqNum + 1
    /\ UNCHANGED <<client, tries, cstate, acked, inHand, answered, serverVars, toServer, toClient>>

(* stcp_send, seghandler or a timer sends the segment with this number.    *)
Transmit(num) ==
    /\ num \in acked .. next_seqNum - 1
    /\ SendToServer("DATA", num)
    /\ UNCHANGED <<clientVars, serverVars, toClient>>

(* stcp_client_disconnect begins: it waits until the send buffer is empty. *)
DisconnectBegins ==
    /\ client = "connected"
    /\ acked = next_seqNum
    /\ client' = "disconnecting"
    /\ UNCHANGED <<tries, cstate, next_seqNum, acked, inHand, answered, serverVars,
                   toServer, toClient>>

(* Mutant: the state is not looked at.                                     *)
MayCloseAlways == client \in {"connected", "disconnected"}

(* stcp_client_close refuses while the state is not CLOSED.                *)
MayClose == client \in {"connected", "disconnected"} /\ cstate = "CLOSED"

ClientClose ==
    /\ MayClose
    /\ client' = "closed"
    /\ UNCHANGED <<tries, cstate, next_seqNum, acked, inHand, answered, serverVars,
                   toServer, toClient>>

-----------------------------------------------------------------------------
(* The client's seghandler.                                                *)

(* A segment is received, its TCB found and the TCB's state read.          *)
Dispatch(seg) ==
    /\ inHand = Nothing
    /\ toClient # <<>> /\ seg = Head(toClient)
    /\ toClient' = Tail(toClient)
    /\ inHand' = IF client = "closed" \/ cstate = "CLOSED" THEN Nothing
                 ELSE [seg |-> seg, state |-> cstate]
    /\ UNCHANGED <<client, tries, cstate, next_seqNum, acked, answered, serverVars, toServer>>

(* Mutant: the type of the segment is not looked at.                       *)
AnswerOfAnyType(state, type) == inHand.state = state /\ inHand.seg.num = next_seqNum

(* The segment in hand is the answer waited for in this state.             *)
Answer(state, type) ==
    inHand.state = state /\ inHand.seg.type = type /\ inHand.seg.num = next_seqNum

(* Mutant: an acknowledgement of everything is taken for a wrong number.   *)
AckedButLast(num) == IF num \in acked .. next_seqNum - 1 THEN num ELSE acked

AckedBy(num) == IF num \in acked .. next_seqNum THEN num ELSE acked

(* ... and acted upon.  FINWAIT, but for the FINACK, is as CONNECTED.      *)
Act ==
    /\ inHand # Nothing
    /\ inHand' = Nothing
    /\ \/ /\ Answer("SYNSENT", "SYNACK")
          /\ cstate' = "CONNECTED"
          /\ answered' = (answered \/ client \in {"connecting", "connecting: waiting"})
          /\ UNCHANGED acked
       \/ /\ Answer("FINWAIT", "FINACK")
          /\ cstate' = "CLOSED"
          /\ UNCHANGED <<acked, answered>>
       \/ /\ inHand.state \in {"CONNECTED", "FINWAIT"}
          /\ ~Answer("FINWAIT", "FINACK")
          /\ inHand.seg.type = "DATAACK"
          /\ acked' = AckedBy(inHand.seg.num)
          /\ UNCHANGED <<cstate, answered>>
       \/ /\ ~Answer("SYNSENT", "SYNACK") /\ ~Answer("FINWAIT", "FINACK")
          /\ ~(inHand.state \in {"CONNECTED", "FINWAIT"} /\ inHand.seg.type = "DATAACK")
          /\ UNCHANGED <<cstate, acked, answered>>
    /\ UNCHANGED <<client, tries, next_seqNum, serverVars, toServer, toClient>>

-----------------------------------------------------------------------------
(* The server program.                                                     *)

ServerGoes(from, to, state) ==
    /\ server = from
    /\ server' = to
    /\ sstate' = state
    /\ UNCHANGED <<clientVars, expect_seqNum, stored, toServer, toClient>>

Accept == ServerGoes("created", "accepting", "LISTENING")

AcceptReturns == sstate = "CONNECTED" /\ ServerGoes("accepting", "accepted", sstate)

(* stcp_server_close, once it has waited for the FIN: an unsuccessful call *)
(* leaves everything as it is.                                             *)
ServerCloses ==
    sstate \in {"CLOSED", "CLOSEWAIT"} /\ ServerGoes("accepted", "closing", sstate)

ServerCloseFails ==
    sstate \notin {"CLOSED", "CLOSEWAIT"} /\ ServerGoes("accepted", "close failed", sstate)

ServerClosed == ServerGoes("closing", "closed", "CLOSED")

-----------------------------------------------------------------------------
(* The server's seghandler.                                                *)

ServerTakes(type, num) ==
    /\ toServer # <<>>
    /\ Head(toServer) = Seg(type, num)
    /\ toServer' = Tail(toServer)

HandleSyn(num) ==
    /\ sstate \in {"LISTENING", "CONNECTED"}
    /\ ServerTakes("SYN", num)
    /\ expect_seqNum' = num
    /\ sstate' = "CONNECTED"
    /\ SendToClient("SYNACK", num)
    /\ UNCHANGED <<clientVars, server, stored>>

(* Mutant: a later segment is taken for the expected one.                  *)
ExpectedOrLater(num) == num >= expect_seqNum

Expected(num) == num = expect_seqNum

(* Mutant: DATA that is not expected is not answered.                      *)
HandleDataSilently(num) ==
    /\ sstate = "CONNECTED"
    /\ Expected(num)
    /\ ServerTakes("DATA", num)
    /\ expect_seqNum' = num + 1 /\ stored' = stored + 1
    /\ SendToClient("DATAACK", expect_seqNum')
    /\ UNCHANGED <<clientVars, server, sstate>>

HandleData(num) ==
    /\ sstate = "CONNECTED"
    /\ ServerTakes("DATA", num)
    /\ \/ Expected(num) /\ expect_seqNum' = num + 1 /\ stored' = stored + 1
       \/ ~Expected(num) /\ UNCHANGED <<expect_seqNum, stored>>
    /\ SendToClient("DATAACK", expect_seqNum')
    /\ UNCHANGED <<clientVars, server, sstate>>

HandleFin(num) ==
    /\ \/ sstate = "CONNECTED" /\ num = expect_seqNum
       \/ sstate = "CLOSEWAIT"
    /\ ServerTakes("FIN", num)
    /\ sstate' = "CLOSEWAIT"
    /\ SendToClient("FINACK", expect_seqNum)
    /\ UNCHANGED <<clientVars, server, expect_seqNum, stored>>

(* Any other segment is dropped.                                           *)
Ignore(seg) ==
    /\ \/ sstate = "CLOSED"
       \/ sstate = "LISTENING" /\ seg.type # "SYN"
       \/ sstate = "CONNECTED" /\ seg.type = "FIN" /\ seg.num # expect_seqNum
       \/ sstate = "CLOSEWAIT" /\ seg.type # "FIN"
    /\ ServerTakes(seg.type, seg.num)
    /\ UNCHANGED <<clientVars, serverVars, toClient>>

(* seglost, in the process that would have handled the segment and at the  *)
(* moment at which it would have.                                          *)
Lose ==
    \/ /\ HasRoom(toClient)
       /\ toServer # <<>> /\ toServer' = Tail(toServer)
       /\ UNCHANGED <<clientVars, serverVars, toClient>>
    \/ /\ inHand = Nothing
       /\ toClient # <<>> /\ toClient' = Tail(toClient)
       /\ UNCHANGED <<clientVars, serverVars, toServer>>

DispatchAny == \E seg \in Segment({"SYNACK", "DATAACK", "FINACK"}) : Dispatch(seg)

HandleAny ==
    \/ \E num \in 0 .. MaxData : HandleSyn(num) \/ HandleData(num) \/ HandleFin(num)
    \/ \E seg \in Segment({"SYN", "DATA", "FIN"}) : Ignore(seg)

Next ==
    \/ ConnectAttempt \/ ConnectTimesOut \/ Connected \/ ConnectGivesUp
    \/ DisconnectAttempt \/ DisconnectTimesOut \/ Disconnected \/ DisconnectGivesUp
    \/ SendData \/ DisconnectBegins \/ ClientClose
    \/ DispatchAny \/ Act
    \/ Accept \/ AcceptReturns \/ ServerCloses \/ ServerCloseFails \/ ServerClosed
    \/ \E num \in 0 .. MaxData : Transmit(num)
    \/ HandleAny
    \/ Lose

Spec == Init /\ [][Next]_vars

(* The calls go on, the seghandlers take what arrives, a segment that is   *)
(* sent again and again is not lost forever, and the client program calls  *)
(* disconnect in the end.                                                  *)
Fairness ==
    /\ WF_vars(DisconnectBegins)
    /\ SF_vars(DisconnectAttempt) /\ WF_vars(DisconnectTimesOut)
    /\ WF_vars(Disconnected) /\ WF_vars(DisconnectGivesUp)
    /\ WF_vars(Act) /\ WF_vars(DispatchAny) /\ WF_vars(HandleAny)
    /\ \A num \in 0 .. MaxData :
          /\ SF_vars(Transmit(num)) /\ SF_vars(HandleData(num))
          /\ SF_vars(Dispatch(Seg("DATAACK", num)))

FairSpec == Spec /\ Fairness
-----------------------------------------------------------------------------
Calls == {"connecting", "disconnecting"}

TypeOK ==
    /\ client \in Calls \cup {Waiting(call) : call \in Calls}
                 \cup {"connected", "connect failed"}
                 \cup {"disconnected", "disconnect failed", "closed"}
    /\ tries =< IF client \in {"connecting", "connecting: waiting", "connect failed"}
                THEN SYN_MAX_RETRY ELSE FIN_MAX_RETRY
    /\ cstate \in {"CLOSED", "SYNSENT", "CONNECTED", "FINWAIT"}
    /\ acked \in 0 .. next_seqNum /\ next_seqNum \in 0 .. MaxData
    /\ inHand \in {Nothing} \cup
                  [seg : Segment({"SYNACK", "DATAACK", "FINACK"}),
                   state : {"SYNSENT", "CONNECTED", "FINWAIT"}]
    /\ answered \in BOOLEAN
    /\ server \in {"created", "accepting", "accepted", "close failed", "closing", "closed"}
    /\ sstate \in {"CLOSED", "LISTENING", "CONNECTED", "CLOSEWAIT"}
    /\ {expect_seqNum, stored} \subseteq 0 .. MaxData
    /\ toServer \in Seq(Segment({"SYN", "DATA", "FIN"}))
    /\ toClient \in Seq(Segment({"SYNACK", "DATAACK", "FINACK"}))

(* From the moment at which connect has returned 1 until disconnect has    *)
(* found the send buffer empty, the server is connected and expects the    *)
(* very segment it has not stored yet, whatever SYN of an earlier attempt  *)
(* was still under way (HandleSyn sets expect_seqNum, stcp_server.c:263),  *)
(* and nothing the client has dropped from its buffer is missing there.    *)
Agreement ==
    client = "connected" =>
        /\ cstate = "CONNECTED" /\ sstate = "CONNECTED"
        /\ expect_seqNum = stored
        /\ acked =< stored /\ stored =< next_seqNum

(* The server leaves the connection only with everything the client's      *)
(* program has sent in its buffer (stcp_server.c:272-280, 170-175), and    *)
(* disconnect returns 1 only if the server has got the FIN, so that its    *)
(* close succeeds, although FINWAIT still handles acknowledgements of data *)
(* (the case without a break, stcp_client.c:320-325).                      *)
ReleaseSound ==
    /\ sstate = "CLOSEWAIT" \/ server \in {"closing", "closed"} =>
          stored = next_seqNum /\ acked = next_seqNum
    /\ client \in {"disconnected", "closed"} =>
          sstate = "CLOSEWAIT" \/ server = "closed"

(* Once close has freed the TCB, seghandler is not about to write to it    *)
(* (t is looked up at stcp_client.c:308 and written at 318 and 322).       *)
NoStaleTCB == client = "closed" => inHand = Nothing

(* disconnect returns: the unbounded wait for an empty send buffer and the *)
(* FIN attempts both end (stcp_client.c:217-262).                          *)
DisconnectReturns ==
    client = "connected" ~>
        client \in {"disconnected", "disconnect failed", "closed"}

(* "If the SYNACK is received, connect returns 1" (stcp_client.c:85-86).   *)
ConnectAnswersSynAck == client = "connect failed" => ~answered
=============================================================================
