--------------------------------- MODULE Son ---------------------------------
(***************************************************************************)
(* The overlay of lab11 son/son.c: one SON process per node, which sets up *)
(* the connections to the neighbours (waitNbrs and connectNbrs), hands     *)
(* what a neighbour sends to the local SIP process (one listen_to_neighbor *)
(* thread each) and sends what SIP passes down (waitSIP).  The SIP         *)
(* processes appear as writers and readers of their connection, with two   *)
(* threads that send, as in sip.c.                                         *)
(*                                                                         *)
(* Connections are streams of bytes.  sendpkt, forwardpktToSIP and         *)
(* son_sendpkt put a structure on them in three calls; where several       *)
(* threads write on one connection each call is a step of its own.         *)
(***************************************************************************)
EXTENDS PktFraming, FiniteSets

CONSTANTS Nodes,         \* node IDs
          Links,         \* pairs of neighbours
          Payloads,      \* sequence of contents of a sip_pkt_t, in the order they are
                         \* passed down by the SIP processes; bound: their number
          PktLen,        \* sizeof(sip_pkt_t)
          BROADCAST_NODEID,
          Talking,       \* bound: nodes whose SIP process sends
          Ending,        \* bound: nodes whose SON or SIP process may end by itself
          MaxEnds        \* bound: processes that end, all nodes together

ASSUME SonAssumption ==
  /\ IsFiniteSet(Nodes) /\ Nodes \subseteq Nat \ {0, 33, 35, 38, BROADCAST_NODEID}
  /\ \A l \in Links : l \subseteq Nodes /\ Cardinality(l) = 2
  /\ PktLen \in Nat \ {0}
  /\ Payloads \in Seq(Seq(Nat)) /\ \A i \in DOMAIN Payloads : Len(Payloads[i]) = PktLen
  /\ BROADCAST_NODEID \in Nat \ {0, 33, 35, 38}
  /\ Talking \subseteq Nodes /\ Ending \subseteq Nodes /\ MaxEnds \in Nat

\* pkt.c does not escape the closing delimiter in what is passed down: only a
\* content without "!#" can be found again (Clean; not a restriction of the model).
Clean(b) == \A j \in 1 .. Len(b) - 1 : ~(b[j] = 33 /\ b[j + 1] = 35)
CleanPayloads == \A i \in DOMAIN Payloads : Clean(Payloads[i])

Nbrs(n) == {m \in Nodes : {n, m} \in Links}
\* Mutant: waitNbrs counts all entries of nt.
BigAndSmall(n) == Nbrs(n)
Big(n) == {m \in Nbrs(n) : m > n}
Small(n) == {m \in Nbrs(n) : m < n}

\* Directed connections, as <<kind, node that writes, node that reads>>: between
\* neighbours, and in a node from SIP to SON (up) and from SON to SIP (down).
Link(n, m) == <<"link", n, m>>
Up(n) == <<"up", n, n>>
Down(n) == <<"down", n, n>>
LinkConns == {Link(e[1], e[2]) : e \in {x \in Nodes \X Nodes : {x[1], x[2]} \in Links}}
Conns == LinkConns \cup {Up(n) : n \in Nodes} \cup {Down(n) : n \in Nodes}

\* The threads that write on the SIP connections: SIP's route update daemon and
\* the threads that send to one node; SON's listeners.
Daemon(n) == <<"daemon", n, n>>
Sender(n) == <<"other", n, n>>
SipThreads == {Daemon(n) : n \in Nodes} \cup {Sender(n) : n \in Nodes}
Threads == SipThreads \cup LinkConns

VARIABLES
  phase,    \* of the SON process: "off", "setup", "up" (in waitSIP) or "gone"
  dial,     \* neighbours connectNbrs has still to connect to; -1 entries of nt stay
  backlog,  \* neighbours whose connection waitNbrs has not accepted yet
  accepted, \* connections waitNbrs has accepted
  conn,     \* neighbours whose conn in nt is not -1
  sip,      \* of the SIP process: "none", "up" (connected to SON) or "gone"
  sip_conn, \* sip_conn # -1
  stream,   \* bytes on each connection
  rx,       \* the receiver at the end of each connection
  calls,    \* send calls the threads have still to make for their structure
  listen,   \* listener of each link: "off", "on" or "ended"
  out,      \* waitSIP: packet and the neighbours it has still to be sent to
  sent,     \* structures passed down so far
  ends,     \* processes that have ended by themselves
  owe,      \* history: structures put on a connection and not received yet
  wrong,    \* history: connections on which something else has been received
  mixed     \* history: connections on which two threads were at their calls at once

setup == <<phase, dial, backlog, accepted>>
history == <<owe, wrong, mixed>>
vars == <<setup, conn, sip, sip_conn, stream, rx, calls, listen, out, sent, ends, history>>

Nothing == [pkt |-> <<>>, all |-> FALSE, to |-> {}]

Init ==
  /\ phase = [n \in Nodes |-> "off"] /\ dial = [n \in Nodes |-> {}]
  /\ backlog = [n \in Nodes |-> {}] /\ accepted = [n \in Nodes |-> {}]
  /\ conn = [n \in Nodes |-> {}]
  /\ sip = [n \in Nodes |-> "none"] /\ sip_conn = [n \in Nodes |-> FALSE]
  /\ stream = [c \in Conns |-> <<>>] /\ rx = [c \in Conns |-> Receiver]
  /\ calls = [t \in Threads |-> <<>>]
  /\ listen = [l \in LinkConns |-> "off"] /\ out = [n \in Nodes |-> Nothing]
  /\ sent = 0 /\ ends = 0
  /\ owe = [c \in Conns |-> <<>>] /\ wrong = {} /\ mixed = {}

----------------------------------------------------------------------------
(* Set-up *)

\* Mutant: connectNbrs does not compare the IDs.
StartDialsAll(n) ==
  /\ phase[n] = "off"
  /\ phase' = [phase EXCEPT ![n] = "setup"]
  /\ dial' = [dial EXCEPT ![n] = Nbrs(n)]
  /\ UNCHANGED <<backlog, accepted, conn, sip, sip_conn, stream, rx, calls, listen,
                 out, sent, ends, history>>

\* main: nt_create, the waitNbrs thread, then the sleep.
Start(n) ==
  /\ phase[n] = "off"
  /\ phase' = [phase EXCEPT ![n] = "setup"]
  /\ dial' = [dial EXCEPT ![n] = Small(n)]
  /\ UNCHANGED <<backlog, accepted, conn, sip, sip_conn, stream, rx, calls, listen,
                 out, sent, ends, history>>

\* connectNbrs, after the sleep, in which all nodes are to be started (line 29):
\* a neighbour that refuses makes it return at once, the others are left out.
Dial(n, m) ==
  /\ phase[n] = "setup" /\ m \in dial[n]
  /\ \A k \in Nodes : phase[k] # "off"
  /\ IF phase[m] = "gone"
     THEN dial' = [dial EXCEPT ![n] = {}] /\ UNCHANGED <<backlog, conn>>
     ELSE /\ dial' = [dial EXCEPT ![n] = @ \ {m}]
          /\ conn' = [conn EXCEPT ![n] = @ \cup {m}]
          /\ backlog' = [backlog EXCEPT ![m] = @ \cup {n}]
  /\ UNCHANGED <<phase, accepted, sip, sip_conn, stream, rx, calls, listen, out,
                 sent, ends, history>>

\* waitNbrs: the entry of nt is found by the address the connection comes from.
AcceptNbr(n, m) ==
  /\ phase[n] = "setup" /\ m \in backlog[n]
  /\ backlog' = [backlog EXCEPT ![n] = @ \ {m}]
  /\ accepted' = [accepted EXCEPT ![n] = @ \cup {m}]
  /\ conn' = [conn EXCEPT ![n] = @ \cup {m}]
  /\ UNCHANGED <<phase, dial, sip, sip_conn, stream, rx, calls, listen, out, sent,
                 ends, history>>

\* Mutant: main does not wait for waitNbrs.
JoinAtOnce(n) ==
  /\ phase[n] = "setup" /\ dial[n] = {}
  /\ phase' = [phase EXCEPT ![n] = "up"]
  /\ listen' = [l \in LinkConns |-> IF l[3] = n THEN "on" ELSE listen[l]]
  /\ UNCHANGED <<dial, backlog, accepted, conn, sip, sip_conn, stream, rx, calls, out,
                 sent, ends, history>>

\* Both are done: a listener for every entry of nt, then waitSIP.
Join(n) ==
  /\ phase[n] = "setup" /\ dial[n] = {} /\ accepted[n] = Big(n)
  /\ phase' = [phase EXCEPT ![n] = "up"]
  /\ listen' = [l \in LinkConns |-> IF l[3] = n THEN "on" ELSE listen[l]]
  /\ UNCHANGED <<dial, backlog, accepted, conn, sip, sip_conn, stream, rx, calls, out,
                 sent, ends, history>>

----------------------------------------------------------------------------
(* Sending and receiving *)

\* Where a thread writes, and the size of the structures on a connection.
Dest(t) == IF t \in LinkConns THEN Down(t[3]) ELSE Up(t[2])
\* Mutant: the receivers of SIP's structures expect those of the neighbours.
SizeOfPkt(c) == PktLen
Size(c) == IF c[1] = "up" THEN PktLen + 1 ELSE PktLen

\* Thread t makes the next of its three calls; none of them takes a lock.
SendCall(t) ==
  LET c == Dest(t)
      amid == {u \in Threads \ {t} : Dest(u) = c /\ Len(calls[u]) \in {1, 2}}
  IN  /\ stream' = [stream EXCEPT ![c] = @ \o Head(calls[t])]
      /\ calls' = [calls EXCEPT ![t] = Tail(@)]
      /\ owe' = IF Len(calls[t]) = 3 THEN [owe EXCEPT ![c] = Append(@, calls[t][2])] ELSE owe
      /\ mixed' = IF amid # {} THEN mixed \cup {c} ELSE mixed

\* A receiving function reads what is there and is r then; it returns with a
\* structure when it has found the end of one.
Heard(c) == Reads(rx[c], stream[c], Size(c))
Done(r) == r.st = "done"
Got(c, r) == Structure(r, Size(c))

Hears(c, r) ==
  /\ stream[c] # <<>> /\ rx[c].st # "smashed"
  /\ stream' = [stream EXCEPT ![c] = r.rest]
  /\ rx' = [rx EXCEPT ![c] = IF Done(r) THEN Receiver ELSE [r EXCEPT !.rest = <<>>]]
  /\ owe' = IF Done(r) /\ owe[c] # <<>> THEN [owe EXCEPT ![c] = Tail(@)] ELSE owe
  /\ wrong' = IF Done(r) /\ (owe[c] = <<>> \/ Head(owe[c]) # Got(c, r)) THEN wrong \cup {c}
              ELSE wrong

----------------------------------------------------------------------------
(* listen_to_neighbor: l = Link(m, n) is the thread of n that listens to m *)

\* recvpkt; a packet is dropped while SIP is not connected.
ListenerReads(l) ==
  /\ listen[l] = "on" /\ calls[l] = <<>>
  /\ \E r \in Heard(l) :
       /\ Hears(l, r)
       /\ calls' = IF Done(r) /\ sip_conn[l[3]] THEN [calls EXCEPT ![l] = FrameOf(Got(l, r))]
                   ELSE calls
  /\ UNCHANGED <<setup, conn, sip, sip_conn, listen, out, sent, ends, mixed>>

\* forwardpktToSIP.  When SIP is gone a call may still succeed before one fails.
ListenerForwards(l) ==
  /\ listen[l] = "on" /\ calls[l] # <<>>
  /\ \/ sip[l[3]] = "up" /\ SendCall(l) /\ UNCHANGED <<sip_conn, listen>>
     \/ /\ sip[l[3]] = "gone"
        /\ calls' = [calls EXCEPT ![l] = Tail(@)]
        /\ UNCHANGED <<stream, owe, mixed, sip_conn, listen>>
     \/ /\ sip[l[3]] = "gone"
        /\ calls' = [calls EXCEPT ![l] = <<>>]
        /\ sip_conn' = [sip_conn EXCEPT ![l[3]] = FALSE]
        /\ listen' = [listen EXCEPT ![l] = "ended"]
        /\ UNCHANGED <<stream, owe, mixed>>
  /\ UNCHANGED <<setup, conn, sip, rx, out, sent, ends, wrong>>

\* recvpkt fails: the neighbour is gone, or was never connected.
ListenerEnds(l) ==
  /\ listen[l] = "on" /\ calls[l] = <<>>
  /\ l[2] \notin conn[l[3]] \/ (stream[l] = <<>> /\ phase[l[2]] = "gone")
  /\ conn' = [conn EXCEPT ![l[3]] = @ \ {l[2]}]
  /\ listen' = [listen EXCEPT ![l] = "ended"]
  /\ UNCHANGED <<setup, sip, sip_conn, stream, rx, calls, out, sent, ends, history>>

----------------------------------------------------------------------------
(* waitSIP *)

SipConnects(n) ==
  /\ phase[n] = "up" /\ sip[n] = "none"
  /\ sip' = [sip EXCEPT ![n] = "up"]
  /\ sip_conn' = [sip_conn EXCEPT ![n] = TRUE]
  /\ UNCHANGED <<setup, conn, stream, rx, calls, listen, out, sent, ends, history>>

\* getpktToSend; a next node that is no neighbour gets nothing.
WaitSIPReads(n) ==
  /\ phase[n] = "up" /\ sip_conn[n] /\ out[n].to = {}
  /\ \E r \in Heard(Up(n)) :
       /\ Hears(Up(n), r)
       /\ LET next == Head(Got(Up(n), r))
              all == next = BROADCAST_NODEID
          IN  out' = IF Done(r)
                     THEN [out EXCEPT ![n] = [pkt |-> Tail(Got(Up(n), r)), all |-> all,
                                              to |-> IF all THEN Nbrs(n) ELSE Nbrs(n) \cap {next}]]
                     ELSE out
  /\ UNCHANGED <<setup, conn, sip, sip_conn, calls, listen, sent, ends, mixed>>

\* One neighbour is served, in a broadcast one after the other.  sendpkt to a
\* neighbour that is gone fails or is swallowed; only a broadcast that fails
\* gives the connection up.
SendTo(n, m) ==
  LET l == Link(n, m)
      put == /\ stream' = [stream EXCEPT ![l] = @ \o Framed(out[n].pkt)]
             /\ owe' = [owe EXCEPT ![l] = Append(@, out[n].pkt)]
             /\ UNCHANGED conn
      fails == /\ conn' = IF out[n].all THEN [conn EXCEPT ![n] = @ \ {m}] ELSE conn
               /\ UNCHANGED <<stream, owe>>
  IN
  /\ phase[n] = "up" /\ m \in out[n].to
  /\ \/ m \in conn[n] /\ phase[m] # "gone" /\ put
     \/ m \in conn[n] /\ phase[m] = "gone" /\ UNCHANGED <<stream, owe, conn>>
     \/ (m \notin conn[n] \/ phase[m] = "gone") /\ fails
  /\ out' = [out EXCEPT ![n] = IF @.to = {m} THEN Nothing ELSE [out[n] EXCEPT !.to = @ \ {m}]]
  /\ UNCHANGED <<setup, sip, sip_conn, rx, calls, listen, sent, ends, wrong, mixed>>

\* The SON process of n ends: what it has sent may still arrive or be lost.
Gone(n) ==
  LET into == {c \in Conns : c[3] = n}
      from == {c \in LinkConns : c[2] = n}
  IN
  /\ phase' = [phase EXCEPT ![n] = "gone"]
  /\ dial' = [dial EXCEPT ![n] = {}] /\ backlog' = [backlog EXCEPT ![n] = {}]
  /\ accepted' = [accepted EXCEPT ![n] = {}]
  /\ conn' = [conn EXCEPT ![n] = {}] /\ sip_conn' = [sip_conn EXCEPT ![n] = FALSE]
  /\ listen' = [l \in LinkConns |-> IF l[3] = n THEN "ended" ELSE listen[l]]
  /\ calls' = [t \in Threads |-> IF Dest(t)[3] = n THEN <<>> ELSE calls[t]]
  /\ out' = [out EXCEPT ![n] = Nothing]
  /\ \E lost \in SUBSET from :
       /\ stream' = [c \in Conns |-> IF c \in into \cup lost THEN <<>> ELSE stream[c]]
       /\ owe' = [c \in Conns |-> IF c \in into \cup lost THEN <<>> ELSE owe[c]]
  /\ rx' = [c \in Conns |-> IF c \in into THEN Receiver ELSE rx[c]]
  /\ UNCHANGED <<sip, sent, wrong, mixed>>

\* getpktToSend fails: waitSIP returns, and with it main.
WaitSIPReturns(n) ==
  /\ phase[n] = "up" /\ out[n].to = {} /\ sip[n] # "none"
  /\ ~sip_conn[n] \/ (sip[n] = "gone" /\ stream[Up(n)] = <<>>)
  /\ Gone(n)
  /\ UNCHANGED ends

Killed(n) ==
  /\ phase[n] \in {"setup", "up"} /\ n \in Ending /\ ends < MaxEnds
  /\ ends' = ends + 1
  /\ Gone(n)

----------------------------------------------------------------------------
(* The SIP processes *)

\* son_sendpkt: a broadcast of the daemon, a packet for one node of the others.
SipSends(n) ==
  /\ n \in Talking /\ phase[n] = "up" /\ sip[n] = "up" /\ sent < Len(Payloads)
  /\ sent' = sent + 1
  /\ \/ /\ calls[Daemon(n)] = <<>>
        /\ calls' = [calls EXCEPT ![Daemon(n)] =
                       FrameOf(<<BROADCAST_NODEID>> \o Payloads[sent'])]
     \/ /\ calls[Sender(n)] = <<>>
        /\ \E m \in Nbrs(n) :
             calls' = [calls EXCEPT ![Sender(n)] = FrameOf(<<m>> \o Payloads[sent'])]
  /\ UNCHANGED <<setup, conn, sip, sip_conn, stream, rx, listen, out, ends, history>>

SipCalls(t) ==
  /\ calls[t] # <<>> /\ sip[t[2]] = "up"
  /\ SendCall(t)
  /\ UNCHANGED <<setup, conn, sip, sip_conn, rx, listen, out, sent, ends, wrong>>

\* son_recvpkt.
SipReads(n) ==
  /\ sip[n] = "up"
  /\ \E r \in Heard(Down(n)) : Hears(Down(n), r)
  /\ UNCHANGED <<setup, conn, sip, sip_conn, calls, listen, out, sent, ends, mixed>>

SipEnds(n) ==
  /\ sip[n] = "up" /\ phase[n] = "up" /\ n \in Ending /\ ends < MaxEnds
  /\ ends' = ends + 1
  /\ sip' = [sip EXCEPT ![n] = "gone"]
  /\ calls' = [t \in Threads |-> IF t \in SipThreads /\ t[2] = n THEN <<>> ELSE calls[t]]
  /\ stream' = [stream EXCEPT ![Down(n)] = <<>>]
  /\ owe' = [owe EXCEPT ![Down(n)] = <<>>]
  /\ UNCHANGED <<setup, conn, sip_conn, rx, listen, out, sent, wrong, mixed>>

Listener(l) == ListenerReads(l) \/ ListenerForwards(l) \/ ListenerEnds(l)
WaitSIP(n) == WaitSIPReads(n) \/ (\E m \in Nbrs(n) : SendTo(n, m)) \/ WaitSIPReturns(n)

Next ==
  \/ \E n \in Nodes :
       \/ Start(n) \/ Join(n) \/ SipConnects(n) \/ WaitSIP(n) \/ Killed(n)
       \/ \E m \in Nbrs(n) : Dial(n, m) \/ AcceptNbr(n, m)
       \/ SipSends(n) \/ SipReads(n) \/ SipEnds(n)
  \/ \E l \in LinkConns : Listener(l)
  \/ \E t \in SipThreads : SipCalls(t)

\* Every process is started, its threads run and the SIP processes read.
Progress ==
  \/ \E n \in Nodes : \/ Start(n) \/ Join(n) \/ WaitSIP(n) \/ SipReads(n)
                      \/ \E m \in Nbrs(n) : Dial(n, m) \/ AcceptNbr(n, m)
  \/ \E l \in LinkConns : Listener(l)
  \/ \E t \in SipThreads : SipCalls(t)

Spec == Init /\ [][Next]_vars /\ WF_vars(Progress)

----------------------------------------------------------------------------

\* The shape of the state; what belongs to a process goes with it.
TypeOK ==
  /\ \A n \in Nodes :
       /\ phase[n] \in {"off", "setup", "up", "gone"} /\ sip[n] \in {"none", "up", "gone"}
       /\ conn[n] \subseteq Nbrs(n) /\ dial[n] \subseteq Small(n)
       /\ backlog[n] \cup accepted[n] \subseteq Big(n)
       /\ sip_conn[n] => phase[n] = "up" /\ sip[n] # "none"
       /\ out[n].to \subseteq Nbrs(n)
  /\ \A c \in Conns : rx[c].st \in {"PKTSTART1", "PKTSTART2", "PKTRECV", "PKTSTOP1", "smashed"}
  /\ \A l \in LinkConns : listen[l] = "on" => phase[l[3]] = "up"

\* Whatever comes out of a connection is what was put on it, whole and in order
\* (pkt.c), unless two threads have been at their calls at once; on the
\* connections between nodes, which only waitSIP writes, without exception.
FramesWhole == wrong \subseteq mixed /\ mixed \cap LinkConns = {}

\* "all connections to the neighbours are established" (line 296), and conn is
\* given up (lines 153, 231) only because a node has ended: as long as no
\* neighbour has ended, a node in waitSIP has all its connections.
ConnTruth ==
  \A n \in Nodes :
    phase[n] = "up" /\ (\A m \in Nbrs(n) : phase[m] # "gone") => conn[n] = Nbrs(n)

\* Things to be done: structures put on a connection whose two ends live and not
\* read (of a neighbour that has ended they may be lost: a failed broadcast takes
\* its connection from the listener, line 231);
\* neighbours that have ended and still have a connection in nt; nodes that are
\* in the set-up although no process has ended.
Unread == {c \in Conns : owe[c] # <<>> /\ phase[c[2]] # "gone" /\ phase[c[3]] # "gone"}
Unnoticed == {l \in LinkConns : phase[l[2]] = "gone" /\ l[2] \in conn[l[3]]}
Unready == {n \in Nodes : phase[n] # "up" /\ ends = 0}

\* Nobody waits for ever: the set-up ends although nodes wait for the bigger ones
\* and connect to the smaller ones (lines 79-94, 107-134, 294); what has been put
\* on a connection is read; the end of a neighbour is noticed (lines 151-154)
\* even when nothing is sent to it.  Unless a connection has been mixed.
Settles == <>[](mixed # {} \/ (Unread = {} /\ Unnoticed = {} /\ Unready = {}))

=============================================================================
