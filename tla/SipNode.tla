------------------------------- MODULE SipNode -------------------------------
(***************************************************************************)
(* One SIP process of lab11 (sip/sip.c) and its threads: pkthandler,       *)
(* routeupdate_daemon and main in waitSTCP, which share the tables of      *)
(* SipTables and the descriptors son_conn and stcp_conn; sip_stop runs     *)
(* within main when SIGINT comes.  SON, its packets and the STCP programs  *)
(* of the node are the environment.                                        *)
(*                                                                         *)
(* waitSTCP walks the hash chains without a lock, entry by entry, while    *)
(* pkthandler changes them: every access to what another thread may change *)
(* is a step.  The Makefile compiles without optimisation: stores keep     *)
(* their order, and a new entry is complete when it is linked.             *)
(* routingtable_mutex is taken by pkthandler alone and never contended.    *)
(***************************************************************************)
EXTENDS SipTables, FiniteSets

CONSTANTS Me,           \* topology_getMyNodeID()
          Updates,      \* bound: route updates that may come: [src, row], row being
                        \* the costs in the order of allIdList
          MaxPrograms,  \* bound: STCP programs that connect, one after the other
          None

ASSUME SipNodeAssumption ==
  /\ Contains(allIdList, Me) /\ NbList(Me) # <<>>
  /\ \A u \in Updates : /\ IndexOf(NbList(Me), u.src) # 0
                        /\ u.row \in [DOMAIN allIdList -> 0 .. INFINITE_COST]
  /\ MaxPrograms \in Nat

\* No thread is taken for None.
ASSUME NoneAssumption == None \notin {"h", "d"}

VARIABLES
  dv, routingtable, \* the tables
  dv_mutex,         \* the thread that holds it, or None
  son_conn, stcp_conn,
  open,             \* what each descriptor of the process stands for
  h,                \* pkthandler: pc, fd of the call, src and row of the update, index
  d,                \* routeupdate_daemon: pc, row copied so far, fd of the call
  w,                \* waitSTCP: pc, destination, entry of the chain, answer, fd
  sig,              \* sip_stop: "none", "closed" (its close is done), "done"
  sonUp, programUp, \* SON lives; the STCP program connected last lives
  programs,         \* STCP programs that have connected
  hop,              \* history: through whom the own cost of an ID was set last
  seen,             \* history: values of hop[w.dest] since the walk began
  crossed,          \* history: something for SON went to a program or came from one
  raced             \* history: a descriptor was given out while a thread was
                    \* between closing it and -1, or in a call with it

tables == <<dv, routingtable, hop>>
env == <<sonUp, programUp, programs>>
vars == <<tables, dv_mutex, son_conn, stcp_conn, open, h, d, w, sig, env, seen, crossed, raced>>

Ids == {allIdList[k] : k \in DOMAIN allIdList}
nct == nbrcosttable_create(Me)
NodeNum == Len(allIdList)

\* my_dv_entry and local_dv: the first row with the node's own ID.
OwnRow == dv[IndexOf(dv, Me)].dvEntry

\* Descriptors in the order in which they are given out: SON, the listening
\* socket, the programs.
Fds == 1 .. MaxPrograms + 2
Free == {fd \in Fds : open[fd] = "free"}
Lowest == CHOOSE fd \in Free : \A e \in Free : fd <= e
What(fd) == IF fd = -1 THEN "free" ELSE open[fd]

IsProgram(fd) == What(fd) = "program"

Init ==
  /\ dv = dvtable_create(Me) /\ routingtable = routingtable_create(Me)
  /\ dv_mutex = None
  /\ son_conn = 1 /\ stcp_conn = -1
  /\ open = [fd \in Fds |-> IF fd = 1 THEN "son" ELSE "free"]
  /\ h = [pc |-> "test", fd |-> -1, src |-> None, row |-> <<>>, i |-> 0]
  /\ d = [pc |-> "sleep", row |-> <<>>, fd |-> -1]
  /\ w = [pc |-> "sleep", dest |-> None, at |-> 0, next |-> -1, fd |-> -1]
  /\ sig = "none" /\ sonUp = TRUE /\ programUp = FALSE /\ programs = 0
  /\ hop = [id \in Ids |-> IF IndexOf(nct, id) = 0 THEN -1 ELSE id]
  /\ seen = {} /\ crossed = FALSE /\ raced = FALSE

\* close.
Closed(fd) == IF fd = -1 THEN open ELSE [open EXCEPT ![fd] = "free"]

\* son_sendpkt on fd, the results it may have.  A SON that has ended takes or
\* refuses what is sent.
Results(fd) ==
  {r \in {"ok", "fail"} : IF r = "ok" THEN What(fd) = "son" \/ IsProgram(fd)
                                      ELSE What(fd) # "son" \/ ~sonUp}
Crossing(fd) == crossed' = (crossed \/ IsProgram(fd))

----------------------------------------------------------------------------
(* pkthandler *)

\* The loop's condition, and the argument of son_recvpkt.
HandlerTests ==
  /\ h.pc = "test"
  /\ h' = IF son_conn = -1 THEN [h EXCEPT !.pc = "close"]
                           ELSE [h EXCEPT !.pc = "recv", !.fd = son_conn]
  /\ UNCHANGED <<tables, dv_mutex, son_conn, stcp_conn, open, d, w, sig, env, seen,
                 crossed, raced>>

\* A ROUTE_UPDATE comes.
HandlerReceivesUpdate ==
  /\ h.pc = "recv" /\ What(h.fd) = "son"
  /\ \E u \in Updates : h' = [h EXCEPT !.pc = "lock", !.src = u.src, !.row = u.row]
  /\ UNCHANGED <<tables, dv_mutex, son_conn, stcp_conn, open, d, w, sig, env, seen,
                 crossed, raced>>

\* A SIP packet comes: it goes to STCP, whatever becomes of it there, or back to
\* SON; a next hop of -1 is left to SON, and no result is looked at.
HandlerReceivesSip ==
  /\ h.pc = "recv" /\ What(h.fd) = "son"
  /\ \E dest \in Ids :
       IF dest = Me THEN UNCHANGED crossed
       ELSE Results(son_conn) # {} /\ Crossing(son_conn)
  /\ h' = [h EXCEPT !.pc = "test", !.fd = -1]
  /\ UNCHANGED <<tables, dv_mutex, son_conn, stcp_conn, open, d, w, sig, env, seen, raced>>

\* son_recvpkt fails, or reads from what the descriptor stands for by now.
HandlerLeaves ==
  /\ h.pc = "recv"
  /\ What(h.fd) # "son" \/ ~sonUp
  /\ Crossing(h.fd)
  /\ h' = [h EXCEPT !.pc = "close", !.fd = -1]
  /\ UNCHANGED <<tables, dv_mutex, son_conn, stcp_conn, open, d, w, sig, env, seen, raced>>

\* Mutant: the thread ends without having set son_conn.
HandlerClosesOnly ==
  /\ h.pc = "close"
  /\ open' = Closed(son_conn)
  /\ h' = [h EXCEPT !.pc = "done"]
  /\ UNCHANGED <<tables, dv_mutex, son_conn, stcp_conn, d, w, sig, env, seen, crossed, raced>>

HandlerCloses ==
  /\ h.pc = "close"
  /\ open' = Closed(son_conn)
  /\ h' = [h EXCEPT !.pc = "reset"]
  /\ UNCHANGED <<tables, dv_mutex, son_conn, stcp_conn, d, w, sig, env, seen, crossed, raced>>

HandlerResets ==
  /\ h.pc = "reset"
  /\ son_conn' = -1
  /\ h' = [h EXCEPT !.pc = "done"]
  /\ UNCHANGED <<tables, dv_mutex, stcp_conn, open, d, w, sig, env, seen, crossed, raced>>

\* The update: the row is stored under dv_mutex ...
HandlerStores ==
  /\ h.pc = "lock" /\ dv_mutex = None
  /\ dv_mutex' = "h"
  /\ dv' = dvtable_setrow(dv, h.src, h.row)
  /\ h' = [h EXCEPT !.pc = "relax", !.i = 1]
  /\ UNCHANGED <<routingtable, hop, son_conn, stcp_conn, open, d, w, sig, env, seen,
                 crossed, raced>>

\* Mutant: a destination that has a next hop keeps it.
RoutedOnce(dest) ==
  IF routingtable_getnextnode(routingtable, dest) = -1
  THEN routingtable_setnextnode(routingtable, dest, h.src) ELSE routingtable

\* The sender of the update becomes the next hop to dest.
Routed(dest) == routingtable_setnextnode(routingtable, dest, h.src)

\* ... one destination after the other gets a cheaper cost and a next hop ...
HandlerRelaxes ==
  LET dest == OwnRow[h.i].nodeID
      cost == nbrcosttable_getcost(nct, h.src) + dvtable_getcost(dv, h.src, dest)
      better == cost < OwnRow[h.i].cost
  IN
  /\ h.pc = "relax" /\ h.i <= NodeNum
  /\ dv' = IF better THEN dvtable_setcost(dv, Me, dest, cost) ELSE dv
  /\ routingtable' = IF better THEN Routed(dest) ELSE routingtable
  /\ hop' = IF better THEN [hop EXCEPT ![dest] = h.src] ELSE hop
  /\ seen' = IF w.pc = "walk" THEN seen \cup {hop'[w.dest]} ELSE seen
  /\ h' = [h EXCEPT !.i = @ + 1]
  /\ UNCHANGED <<dv_mutex, son_conn, stcp_conn, open, d, w, sig, env, crossed, raced>>

\* Mutant: the mutex is not released.
HandlerStays ==
  /\ h.pc = "relax" /\ h.i > NodeNum
  /\ h' = [h EXCEPT !.pc = "test", !.fd = -1, !.src = None, !.row = <<>>, !.i = 0]
  /\ UNCHANGED <<tables, dv_mutex, son_conn, stcp_conn, open, d, w, sig, env, seen,
                 crossed, raced>>

\* ... and the mutex is released.
HandlerUnlocks ==
  /\ h.pc = "relax" /\ h.i > NodeNum
  /\ dv_mutex' = None
  /\ h' = [h EXCEPT !.pc = "test", !.fd = -1, !.src = None, !.row = <<>>, !.i = 0]
  /\ UNCHANGED <<tables, son_conn, stcp_conn, open, d, w, sig, env, seen, crossed, raced>>

pkthandler ==
  \/ HandlerTests \/ HandlerReceivesUpdate \/ HandlerReceivesSip \/ HandlerLeaves
  \/ HandlerCloses \/ HandlerResets
  \/ HandlerStores \/ HandlerRelaxes \/ HandlerUnlocks

----------------------------------------------------------------------------
(* routeupdate_daemon *)

\* Mutant: the own row is copied without dv_mutex.
DaemonWakesUnlocked ==
  /\ d.pc = "sleep"
  /\ d' = [d EXCEPT !.pc = "copy"]
  /\ UNCHANGED <<tables, dv_mutex, son_conn, stcp_conn, open, h, w, sig, env, seen,
                 crossed, raced>>

DaemonWakes ==
  /\ d.pc = "sleep" /\ dv_mutex = None
  /\ dv_mutex' = "d"
  /\ d' = [d EXCEPT !.pc = "copy"]
  /\ UNCHANGED <<tables, son_conn, stcp_conn, open, h, w, sig, env, seen, crossed, raced>>

DaemonCopies ==
  /\ d.pc = "copy" /\ Len(d.row) < NodeNum
  /\ d' = [d EXCEPT !.row = Append(@, OwnRow[Len(@) + 1].cost)]
  /\ UNCHANGED <<tables, dv_mutex, son_conn, stcp_conn, open, h, w, sig, env, seen,
                 crossed, raced>>

DaemonUnlocks ==
  /\ d.pc = "copy" /\ Len(d.row) = NodeNum
  /\ dv_mutex' = None
  /\ d' = [d EXCEPT !.pc = "check"]
  /\ UNCHANGED <<tables, son_conn, stcp_conn, open, h, w, sig, env, seen, crossed, raced>>

\* son_conn # -1 and the argument of son_sendpkt; -1 is written over -1.
DaemonChecks ==
  /\ d.pc = "check"
  /\ d' = IF son_conn = -1 THEN [d EXCEPT !.pc = "sleep", !.row = <<>>]
                           ELSE [d EXCEPT !.pc = "send", !.fd = son_conn]
  /\ UNCHANGED <<tables, dv_mutex, son_conn, stcp_conn, open, h, w, sig, env, seen,
                 crossed, raced>>

DaemonSends ==
  /\ d.pc = "send"
  /\ \E r \in Results(d.fd) : son_conn' = IF r = "fail" THEN -1 ELSE son_conn
  /\ Crossing(d.fd)
  /\ d' = [d EXCEPT !.pc = "sleep", !.row = <<>>, !.fd = -1]
  /\ UNCHANGED <<tables, dv_mutex, stcp_conn, open, h, w, sig, env, seen, raced>>

routeupdate_daemon ==
  DaemonWakes \/ DaemonCopies \/ DaemonUnlocks \/ DaemonChecks \/ DaemonSends

----------------------------------------------------------------------------
(* main, which is in sip_stop from its close to its end *)

InMain(pc) == w.pc = pc /\ sig # "closed"

\* A descriptor for what; the threads that still mean another thing by it.
Opens(what) ==
  LET fd == Lowest
  IN  /\ open' = [open EXCEPT ![fd] = what]
      /\ raced' = (raced \/ (h.pc = "reset" /\ son_conn = fd)
                         \/ (h.pc = "recv" /\ h.fd = fd) \/ (d.pc = "send" /\ d.fd = fd))

\* The first SIP_WAITTIME seconds are over: the listening socket.
Listens ==
  /\ InMain("sleep")
  /\ Opens("listen")
  /\ w' = [w EXCEPT !.pc = "accept"]
  /\ UNCHANGED <<tables, dv_mutex, son_conn, stcp_conn, h, d, sig, env, seen, crossed>>

Accepts ==
  /\ InMain("accept") /\ programs < MaxPrograms /\ Free # {}
  /\ programs' = programs + 1 /\ programUp' = TRUE
  /\ Opens("program")
  /\ stcp_conn' = Lowest
  /\ w' = [w EXCEPT !.pc = "read"]
  /\ UNCHANGED <<tables, dv_mutex, son_conn, h, d, sig, sonUp, seen, crossed>>

\* getsegToSend brings a segment; the lookup of its destination begins.
ReadsSegment ==
  /\ InMain("read") /\ programUp /\ IsProgram(stcp_conn)
  /\ \E dest \in Ids :
       /\ w' = [w EXCEPT !.pc = "walk", !.dest = dest,
                         !.at = IF routingtable[makehash(dest)] = <<>> THEN 0 ELSE 1]
       /\ seen' = {hop[dest]}
  /\ UNCHANGED <<tables, dv_mutex, son_conn, stcp_conn, open, h, d, sig, env, crossed, raced>>

\* getsegToSend fails; the descriptor stays open.
ProgramLeft ==
  /\ InMain("read") /\ (~programUp \/ ~IsProgram(stcp_conn))
  /\ w' = [w EXCEPT !.pc = "accept"]
  /\ UNCHANGED <<tables, dv_mutex, son_conn, stcp_conn, open, h, d, sig, env, seen,
                 crossed, raced>>

\* Mutant: the last entry of a chain is not compared.
WalksToTheLast ==
  LET chain == routingtable[makehash(w.dest)]
  IN
  /\ InMain("walk")
  /\ w' = IF w.at = 0 THEN [w EXCEPT !.pc = "check", !.next = -1]
          ELSE IF chain[w.at].nodeID = w.dest \/ w.at = Len(chain)
          THEN [w EXCEPT !.pc = "check", !.next = chain[w.at].nextNodeID]
          ELSE [w EXCEPT !.at = @ + 1]
  /\ UNCHANGED <<tables, dv_mutex, son_conn, stcp_conn, open, h, d, sig, env, seen,
                 crossed, raced>>

\* routingtable_getnextnode, one entry; w.at = 0 is the NULL behind the last.
Walks ==
  LET chain == routingtable[makehash(w.dest)]
  IN
  /\ InMain("walk")
  /\ w' = IF w.at = 0 THEN [w EXCEPT !.pc = "check", !.next = -1]
          ELSE IF chain[w.at].nodeID = w.dest
          THEN [w EXCEPT !.pc = "check", !.next = chain[w.at].nextNodeID]
          ELSE [w EXCEPT !.at = IF @ < Len(chain) THEN @ + 1 ELSE 0]
  /\ UNCHANGED <<tables, dv_mutex, son_conn, stcp_conn, open, h, d, sig, env, seen,
                 crossed, raced>>

ToRead == [w EXCEPT !.pc = "read", !.dest = None, !.at = 0, !.next = -1, !.fd = -1]

Checks ==
  /\ InMain("check")
  /\ w' = IF son_conn = -1 THEN ToRead ELSE [w EXCEPT !.pc = "send", !.fd = son_conn]
  /\ seen' = IF son_conn = -1 THEN {} ELSE seen
  /\ UNCHANGED <<tables, dv_mutex, son_conn, stcp_conn, open, h, d, sig, env, crossed, raced>>

Sends ==
  /\ InMain("send")
  /\ \E r \in Results(w.fd) : son_conn' = IF r = "fail" THEN -1 ELSE son_conn
  /\ Crossing(w.fd)
  /\ w' = ToRead /\ seen' = {}
  /\ UNCHANGED <<tables, dv_mutex, stcp_conn, open, h, d, sig, env, raced>>

waitSTCP == Listens \/ Accepts \/ ReadsSegment \/ ProgramLeft \/ Walks \/ Checks \/ Sends

\* sip_stop: close, then -1; the process goes on.
StopCloses ==
  /\ sig = "none"
  /\ sig' = "closed"
  /\ open' = Closed(son_conn)
  /\ UNCHANGED <<tables, dv_mutex, son_conn, stcp_conn, h, d, w, env, seen, crossed, raced>>

\* Behind it accept and getsegToSend return with an error.
StopResets ==
  /\ sig = "closed"
  /\ sig' = "done" /\ son_conn' = -1
  /\ stcp_conn' = IF w.pc = "accept" THEN -1 ELSE stcp_conn
  /\ w' = IF w.pc = "read" THEN [w EXCEPT !.pc = "accept"] ELSE w
  /\ UNCHANGED <<tables, dv_mutex, open, h, d, env, seen, crossed, raced>>

----------------------------------------------------------------------------

SonEnds ==
  /\ sonUp /\ sonUp' = FALSE
  /\ UNCHANGED <<tables, dv_mutex, son_conn, stcp_conn, open, h, d, w, sig, programUp,
                 programs, seen, crossed, raced>>

ProgramEnds ==
  /\ programUp /\ programUp' = FALSE
  /\ UNCHANGED <<tables, dv_mutex, son_conn, stcp_conn, open, h, d, w, sig, sonUp,
                 programs, seen, crossed, raced>>

Next == \/ pkthandler \/ routeupdate_daemon \/ waitSTCP
        \/ StopCloses \/ StopResets \/ SonEnds \/ ProgramEnds

Spec == Init /\ [][Next]_vars

----------------------------------------------------------------------------

\* The shape of the state, and that dv_mutex is held exactly by the thread that
\* is in its section.
TypeOK ==
  /\ son_conn \in Fds \cup {-1} /\ stcp_conn \in Fds \cup {-1}
  /\ h.pc \in {"test", "recv", "lock", "relax", "close", "reset", "done"}
  /\ d.pc \in {"sleep", "copy", "check", "send"}
  /\ w.pc \in {"sleep", "accept", "read", "walk", "check", "send"}
  /\ w.at \in 0 .. Len(allIdList) /\ h.i \in 0 .. NodeNum + 1
  /\ dv_mutex = "h" <=> h.pc = "relax"
  /\ dv_mutex = "d" <=> d.pc = "copy"

\* The two tables tell the same story, whatever order updates come in and
\* although IDs share chains (routingtable.c:86-121, sip.c:168-184): the next hop
\* of a destination is the neighbour its cost was set through, there is one as
\* soon as there is a cost, and no destination has two entries.
TablesAgree ==
  /\ \A id \in Ids :
       /\ routingtable_getnextnode(routingtable, id) = hop[id]
       /\ hop[id] = -1 <=> id = Me \/ CostIn(OwnRow, id) >= INFINITE_COST
  /\ \A s \in DOMAIN routingtable : \A j, k \in DOMAIN routingtable[s] :
       routingtable[s][j].nodeID = routingtable[s][k].nodeID => j = k

\* A lookup that pkthandler's changes overtake (sip.c:272 takes no lock) still
\* answers with the next hop that was right at some moment since it began.
LookupSound == w.pc \in {"check", "send"} => w.next \in seen

\* The row that is broadcast is one the node had between two updates, never half
\* of one and half of the next (sip.c:108-116).
RowsWhole ==
  d.pc = "copy" => /\ h.pc # "relax"
                   /\ \A k \in DOMAIN d.row : d.row[k] = OwnRow[k].cost

\* What is for SON goes to SON: its descriptor, closed by one thread and given
\* out again to a program of the node, is used for SON only by a thread that was
\* at that moment in a call with it or about to write -1 (sip.c:117, 132,
\* 205-206, 213-214, 253, 274).
SonOnly == crossed => raced

=============================================================================
