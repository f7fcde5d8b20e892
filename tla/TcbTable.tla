------------------------------ MODULE TcbTable ------------------------------
(***************************************************************************)
(* The table of TCBs of the lab11 server (server/stcp_server.c) and the    *)
(* clients that connect to it one after the other or again (IM_client.c    *)
(* over client/stcp_client.c).  Unlike in lab10 a TCB is made by whatever  *)
(* segment of an unknown client comes first, stcp_server_accept takes any  *)
(* TCB in CLOSED, and a slot is used again after stcp_server_close.        *)
(*                                                                         *)
(* A client is its node and port: a program that is started again uses the *)
(* same ones.  Segments of one client stay in order and may be lost.       *)
(***************************************************************************)
EXTENDS Integers, Sequences, FiniteSets, Functions

CONSTANTS Clients,
          MAX_TRANSPORT_CONNECTIONS,   \* slots of tcbtable
          SYN_MAX_RETRY, FIN_MAX_RETRY,
          MaxData,       \* bound: DATA segments of a session (below MAX_SEQNUM)
          MaxSessions,   \* bound: times the client programs are started, all together
          MaxFaults,     \* bound: client programs killed and segments lost, together
          None           \* NULL

ASSUME TcbTableAssumption ==
  /\ IsFiniteSet(Clients)
  /\ {MAX_TRANSPORT_CONNECTIONS, SYN_MAX_RETRY, FIN_MAX_RETRY} \subseteq Nat \ {0}
  /\ {MaxData, MaxSessions, MaxFaults} \subseteq Nat

\* A slot holds a TCB or NULL, never both.
ASSUME NoneAssumption ==
  None \notin [client : Clients, expect : Nat, session : Nat,
              state : {"CLOSED", "LISTENING", "CONNECTED", "CLOSEWAIT"}]

VARIABLES
  tcbtable,   \* TCB of each slot: client, state, expect, session of its last SYN
  close,      \* how far stcp_server_close of each slot has come, or "no"
  app,        \* sessions of the server program on each slot
  stolen,     \* history: accept has taken a TCB that was being closed
  cli,        \* clients: pc of the program, state, tries, next_seqNum, unacked
  session,    \* how often each client program has been started
  toServer, toClient,
  taken,      \* history: DATA of each client's present session put into a buffer
  reused,     \* history: clients whose present session met the TCB of an earlier one
  faults

server == <<tcbtable, close, app, stolen, taken, reused>>
vars == <<server, cli, session, toServer, toClient, faults>>

Slots == 0 .. MAX_TRANSPORT_CONNECTIONS - 1
NoProgram == [pc |-> "none", state |-> "CLOSED", tries |-> 0, next |-> 0, unacked |-> FALSE]
Seg(type, num) == [type |-> type, num |-> num]

\* The slot whose TCB belongs to c.
SlotsOf(c) == {i \in Slots : tcbtable[i] # None /\ tcbtable[i].client = c}

Init ==
  /\ tcbtable = [i \in Slots |-> None]
  /\ close = [i \in Slots |-> "no"] /\ app = [i \in Slots |-> 0]
  /\ stolen = FALSE /\ taken = [c \in Clients |-> 0] /\ reused = {}
  /\ cli = [c \in Clients |-> NoProgram] /\ session = [c \in Clients |-> 0]
  /\ toServer = [c \in Clients |-> <<>>] /\ toClient = [c \in Clients |-> <<>>]
  /\ faults = 0

----------------------------------------------------------------------------
(* The client program: sock, connect, send, disconnect, close *)

ToServer(c, type) ==
  toServer' = [toServer EXCEPT ![c] = Append(@, Seg(type, cli'[c].next))]

\* stcp_client_init and stcp_client_sock.  In between the program sleeps for
\* STARTDELAY: what an earlier program left on its way has been dropped by then.
Sock(c) ==
  /\ cli[c].pc = "none" /\ FoldFunction(+, 0, session) < MaxSessions
  /\ toServer[c] = <<>> /\ toClient[c] = <<>>
  /\ cli' = [cli EXCEPT ![c] = [NoProgram EXCEPT !.pc = "connect"]]
  /\ session' = [session EXCEPT ![c] = @ + 1]
  /\ taken' = [taken EXCEPT ![c] = 0] /\ reused' = reused \ {c}
  /\ UNCHANGED <<tcbtable, close, app, stolen, toServer, toClient, faults>>

\* An attempt: SYN or FIN.  The state is set whatever the handler has just put.
Attempt(c, pc, state, max, type) ==
  /\ cli[c].pc = pc /\ cli[c].tries < max
  /\ cli' = [cli EXCEPT ![c].tries = @ + 1, ![c].state = state]
  /\ ToServer(c, type)
  /\ UNCHANGED <<session, toClient, server, faults>>
SendSyn(c) == Attempt(c, "connect", "SYNSENT", SYN_MAX_RETRY, "SYN")
SendFin(c) == Attempt(c, "disconnect", "FINWAIT", FIN_MAX_RETRY, "FIN")

\* stcp_client_connect returns 1.
Connected(c) ==
  /\ cli[c].pc = "connect" /\ cli[c].state = "CONNECTED"
  /\ cli' = [cli EXCEPT ![c].pc = "talk", ![c].tries = 0]
  /\ UNCHANGED <<session, toServer, toClient, server, faults>>

\* stcp_client_send, with the next byte once the last one has been acknowledged,
\* and its timer.
Send(c) ==
  /\ cli[c].pc = "talk" /\ ~cli[c].unacked /\ cli[c].next < MaxData
  /\ cli' = [cli EXCEPT ![c].next = @ + 1, ![c].unacked = TRUE]
  /\ toServer' = [toServer EXCEPT ![c] = Append(@, Seg("DATA", cli[c].next))]
  /\ UNCHANGED <<session, toClient, server, faults>>
Resend(c) ==
  /\ cli[c].unacked /\ toServer[c] = <<>> /\ toClient[c] = <<>>
  /\ toServer' = [toServer EXCEPT ![c] = <<Seg("DATA", cli[c].next - 1)>>]
  /\ UNCHANGED <<cli, session, toClient, server, faults>>

\* stcp_client_disconnect: waits until everything is acknowledged.
Disconnect(c) ==
  /\ cli[c].pc = "talk" /\ ~cli[c].unacked
  /\ cli' = [cli EXCEPT ![c].pc = "disconnect"]
  /\ UNCHANGED <<session, toServer, toClient, server, faults>>

\* The program ends: disconnect returns 1, or all attempts are used up, and close
\* frees the TCB; or the program is killed.
Ends(c) ==
  /\ \/ cli[c].pc = "disconnect" /\ cli[c].state = "CLOSED" /\ cli[c].tries > 0
     \/ cli[c].pc = "disconnect" /\ cli[c].tries = FIN_MAX_RETRY
     \/ cli[c].pc = "connect" /\ cli[c].tries = SYN_MAX_RETRY
  /\ cli' = [cli EXCEPT ![c] = NoProgram]
  /\ UNCHANGED <<session, toServer, toClient, server, faults>>
Killed(c) ==
  /\ cli[c].pc # "none" /\ faults < MaxFaults
  /\ faults' = faults + 1
  /\ cli' = [cli EXCEPT ![c] = NoProgram]
  /\ UNCHANGED <<session, toServer, toClient, server>>

\* seghandler of the client.  DATAACK counts when it acknowledges all that was sent.
ClientHandles(c) ==
  LET m == Head(toClient[c])
      t == cli[c]
  IN
  /\ toClient[c] # <<>>
  /\ toClient' = [toClient EXCEPT ![c] = Tail(@)]
  /\ cli' = [cli EXCEPT ![c] =
       IF t.state = "SYNSENT" /\ m.type = "SYNACK" /\ m.num = t.next
       THEN [t EXCEPT !.state = "CONNECTED"]
       ELSE IF t.state = "FINWAIT" /\ m.type = "FINACK" /\ m.num = t.next
       THEN [t EXCEPT !.state = "CLOSED"]
       ELSE IF t.state \in {"CONNECTED", "FINWAIT"} /\ m.type = "DATAACK" /\ m.num = t.next
       THEN [t EXCEPT !.unacked = FALSE]
       ELSE t]
  /\ UNCHANGED <<session, toServer, server, faults>>

----------------------------------------------------------------------------
(* seghandler of the server *)

Handles(c) ==
  /\ toServer[c] # <<>>
  /\ toServer' = [toServer EXCEPT ![c] = Tail(@)]

\* Answers with the number expected next.
Reply(c, type, num) == toClient' = [toClient EXCEPT ![c] = Append(@, Seg(type, num))]

\* Mutant: a TCB in CLOSED is taken for a free slot.
UnknownOrClosed(c) == \A i \in SlotsOf(c) : tcbtable[i].state = "CLOSED"

\* seghandler finds no TCB of c.
Unknown(c) == SlotsOf(c) = {}

\* No TCB: one is made in the first free slot, if there is one, and the segment,
\* whatever it is, is dropped.
NewTcb(c) ==
  LET free == {i \in Slots : tcbtable[i] = None}
      first == CHOOSE i \in free : \A j \in free : i <= j
  IN
  /\ Handles(c) /\ Unknown(c)
  /\ tcbtable' = IF free = {} THEN tcbtable
                 ELSE [tcbtable EXCEPT ![first] =
                         [client |-> c, state |-> "CLOSED",
                          expect |-> Head(toServer[c]).num, session |-> session[c]]]
  /\ UNCHANGED <<close, app, stolen, taken, reused, cli, session, toClient, faults>>

\* SYN in LISTENING and CONNECTED, and in CLOSEWAIT, from where the switch falls
\* through: the connection starts anew.
HandleSyn(i, c) ==
  /\ Handles(c) /\ Head(toServer[c]).type = "SYN"
  /\ tcbtable[i].state \in {"LISTENING", "CONNECTED", "CLOSEWAIT"}
  /\ tcbtable' = [tcbtable EXCEPT ![i].state = "CONNECTED", ![i].session = session[c],
                                  ![i].expect = Head(toServer[c]).num]
  /\ reused' = IF tcbtable[i].state # "LISTENING" /\ tcbtable[i].session # session[c]
               THEN reused \cup {c} ELSE reused
  /\ Reply(c, "SYNACK", Head(toServer[c]).num)
  /\ UNCHANGED <<close, app, stolen, taken, cli, session, faults>>

\* FIN: of the expected number in CONNECTED, of any in CLOSEWAIT.
FinFits(i, num) == tcbtable[i].state = "CLOSEWAIT"
                   \/ (tcbtable[i].state = "CONNECTED" /\ tcbtable[i].expect = num)
\* Mutant: CLOSEWAIT is not written.
HandleFinStaying(i, c) ==
  /\ Handles(c) /\ Head(toServer[c]).type = "FIN"
  /\ FinFits(i, Head(toServer[c]).num)
  /\ Reply(c, "FINACK", tcbtable[i].expect)
  /\ UNCHANGED <<server, cli, session, faults>>

HandleFin(i, c) ==
  /\ Handles(c) /\ Head(toServer[c]).type = "FIN"
  /\ FinFits(i, Head(toServer[c]).num)
  /\ tcbtable' = [tcbtable EXCEPT ![i].state = "CLOSEWAIT"]
  /\ Reply(c, "FINACK", tcbtable[i].expect)
  /\ UNCHANGED <<close, app, stolen, taken, reused, cli, session, faults>>

\* Mutant: what has been taken already is taken again.
DataFitsOrIsOld(i, num) == num <= tcbtable[i].expect

\* DATA of the expected number is taken.
DataFits(i, num) == tcbtable[i].expect = num

\* DATA in CONNECTED, and in CLOSEWAIT from where the switch falls through.
HandleData(i, c) ==
  LET fits == DataFits(i, Head(toServer[c]).num)
  IN
  /\ Handles(c) /\ Head(toServer[c]).type = "DATA"
  /\ tcbtable[i].state \in {"CONNECTED", "CLOSEWAIT"}
  /\ tcbtable' = IF fits THEN [tcbtable EXCEPT ![i].expect = @ + 1] ELSE tcbtable
  /\ taken' = IF fits THEN [taken EXCEPT ![c] = @ + 1] ELSE taken
  /\ Reply(c, "DATAACK", tcbtable'[i].expect)
  /\ UNCHANGED <<close, app, stolen, reused, cli, session, faults>>

\* Everything else is dropped.
Ignore(i, c) ==
  LET m == Head(toServer[c])
      s == tcbtable[i].state
  IN
  /\ Handles(c)
  /\ \/ s = "CLOSED" \/ (s = "LISTENING" /\ m.type # "SYN")
     \/ m.type = "FIN" /\ ~FinFits(i, m.num)
  /\ UNCHANGED <<server, cli, session, toClient, faults>>

ServerHandles(c) ==
  \/ NewTcb(c)
  \/ \E i \in SlotsOf(c) : HandleSyn(i, c) \/ HandleFin(i, c) \/ HandleData(i, c) \/ Ignore(i, c)

\* sip_recvseg: a segment is lost or damaged on either side.
Lose(c) ==
  /\ faults < MaxFaults /\ faults' = faults + 1
  /\ \/ toServer[c] # <<>> /\ toServer' = [toServer EXCEPT ![c] = Tail(@)] /\ UNCHANGED toClient
     \/ toClient[c] # <<>> /\ toClient' = [toClient EXCEPT ![c] = Tail(@)] /\ UNCHANGED toServer
  /\ UNCHANGED <<cli, session, server>>

----------------------------------------------------------------------------
(* The server program: accept and close *)

\* Mutant: a TCB that another accept has returned is taken too.
AcceptableTwice(i) == tcbtable[i] # None /\ tcbtable[i].state \in {"CLOSED", "LISTENING"}
Acceptable(i) == tcbtable[i] # None /\ tcbtable[i].state = "CLOSED"

\* stcp_server_accept looks for a TCB in CLOSED and returns its slot at once.
\* Bound: nothing more is accepted or closed once a TCB has been stolen.
Accept(i) ==
  /\ ~stolen /\ Acceptable(i)
  /\ tcbtable' = [tcbtable EXCEPT ![i].state = "LISTENING"]
  /\ app' = [app EXCEPT ![i] = @ + 1]
  /\ stolen' = (close[i] = "closed")
  /\ UNCHANGED <<close, taken, reused, cli, session, toServer, toClient, faults>>

Closing(i, from, to) ==
  /\ ~stolen /\ close[i] = from
  /\ close' = [close EXCEPT ![i] = to]
  /\ UNCHANGED <<stolen, taken, reused, cli, session, toServer, toClient, faults>>

\* Mutant: a connection that is still up may be closed.
MayCloseConnected(i) == tcbtable[i].state \in {"CLOSED", "CLOSEWAIT", "CONNECTED"}

\* The states in which stcp_server_close goes on (lines 211 and 213).
MayClose(i) == tcbtable[i].state \in {"CLOSED", "CLOSEWAIT"}

\* stcp_server_close: called by the thread that serves slot i; a state that is not
\* right is looked at a second time after a wait.
Close(i) ==
  \/ /\ app[i] > 0 /\ tcbtable[i] # None
     /\ Closing(i, "no", IF MayClose(i) THEN "wait" ELSE "grace")
     /\ UNCHANGED <<tcbtable, app>>
  \/ /\ Closing(i, "grace", "wait") /\ MayClose(i)
     /\ UNCHANGED <<tcbtable, app>>
  \/ /\ Closing(i, "grace", "no") /\ ~MayClose(i)              \* returns -1
     /\ app' = [app EXCEPT ![i] = @ - 1]
     /\ UNCHANGED tcbtable
  \/ /\ Closing(i, "wait", "closed")                           \* line 216
     /\ tcbtable' = [tcbtable EXCEPT ![i].state = "CLOSED"]
     /\ UNCHANGED app
  \/ /\ Closing(i, "closed", "no")                             \* lines 217-227
     /\ tcbtable' = [tcbtable EXCEPT ![i] = None]
     /\ app' = [app EXCEPT ![i] = @ - 1]

Next ==
  \/ \E c \in Clients :
       \/ Sock(c) \/ SendSyn(c) \/ Connected(c) \/ Send(c) \/ Resend(c)
       \/ Disconnect(c) \/ SendFin(c) \/ Ends(c) \/ Killed(c)
       \/ ClientHandles(c) \/ ServerHandles(c) \/ Lose(c)
  \/ \E i \in Slots : Accept(i) \/ Close(i)

Spec == Init /\ [][Next]_vars

----------------------------------------------------------------------------

States == {"CLOSED", "LISTENING", "CONNECTED", "CLOSEWAIT", "SYNSENT", "FINWAIT"}

\* The shape of the state; at most one TCB for a client, whatever order slots are
\* freed and used again in (lines 261-306).
TypeOK ==
  /\ \A i \in Slots : /\ tcbtable[i] # None => tcbtable[i].state \in States
                      /\ close[i] \in {"no", "grace", "wait", "closed"} /\ app[i] \in Nat
  /\ \A c \in Clients : Cardinality(SlotsOf(c)) <= 1 /\ cli[c].state \in States

\* A socket that accept has returned is one session's own and keeps its TCB until
\* that session has closed it, as long as accept has not taken a TCB between the
\* two halves of a close (lines 78 and 216-226).
OwnSlot ==
  ~stolen => \A i \in Slots : /\ app[i] <= 1
                              /\ app[i] = 1 => tcbtable[i] # None
                              /\ app[i] = 0 => close[i] = "no"

\* A client whose stcp_client_connect has returned 1 has a TCB in CONNECTED until
\* it disconnects, unless it met the TCB of its own earlier session (lines 337-348).
Served ==
  \A c \in Clients :
    cli[c].pc = "talk" /\ c \notin reused =>
      \E i \in SlotsOf(c) : tcbtable[i].state = "CONNECTED"

\* What a client holds for acknowledged has been put into a receive buffer, once.
AckedTaken ==
  \A c \in Clients :
    cli[c].pc \in {"talk", "disconnect"} =>
      taken[c] \in (IF cli[c].unacked THEN {cli[c].next - 1, cli[c].next} ELSE {cli[c].next})

\* When stcp_client_disconnect has returned 1 the server does not hold the client
\* for connected.
FinAgreed ==
  \A c \in Clients :
    cli[c].pc = "disconnect" /\ cli[c].state = "CLOSED" =>
      \A i \in SlotsOf(c) : tcbtable[i].state # "CONNECTED"

=============================================================================
