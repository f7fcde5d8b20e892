--------------------------- MODULE TcbTableProofs ---------------------------
(***************************************************************************)
(* Theorems about TcbTable, for any number of clients, slots, sessions,    *)
(* DATA segments, attempts, killed programs and lost segments.             *)
(***************************************************************************)
EXTENDS TcbTable, TLAPS, FiniteSetTheorems, WellFoundedInduction

(* The values a state holds.                                               *)
Tcb == [client : Clients, expect : Nat, session : Nat,
        state : {"CLOSED", "LISTENING", "CONNECTED", "CLOSEWAIT"}]
Program == [pc : {"none", "connect", "talk", "disconnect"},
            state : {"CLOSED", "SYNSENT", "CONNECTED", "FINWAIT"},
            tries : Nat, next : Nat, unacked : BOOLEAN]
Request == [type : {"SYN", "DATA", "FIN"}, num : Nat]
Answer == [type : {"SYNACK", "DATAACK", "FINACK"}, num : Nat]

(* Variables range over these.                                             *)
Types ==
  /\ tcbtable \in [Slots -> Tcb \cup {None}]
  /\ close \in [Slots -> {"no", "grace", "wait", "closed"}]
  /\ app \in [Slots -> Nat]
  /\ stolen \in BOOLEAN
  /\ cli \in [Clients -> Program]
  /\ session \in [Clients -> Nat]
  /\ taken \in [Clients -> Nat]
  /\ toServer \in [Clients -> Seq(Request)]
  /\ toClient \in [Clients -> Seq(Answer)]
  /\ reused \subseteq Clients

(* Slot i holds the TCB of c.                                              *)
Holds(i, c) == tcbtable[i] # None /\ tcbtable[i].client = c

(* No two slots hold TCBs of one client.                                   *)
OneTcb == \A c \in Clients : \A i, j \in Slots : Holds(i, c) /\ Holds(j, c) => i = j

(* A TCB knows of no session that has not begun yet.                       *)
Sessions == \A c \in Clients : \A i \in Slots :
              Holds(i, c) => tcbtable[i].session <= session[c]

(* What accept and close have left of slot i.                              *)
Owned(i) ==
  /\ app[i] <= 1
  /\ app[i] = 1 => tcbtable[i] # None
  /\ app[i] = 0 => close[i] = "no"
  /\ app[i] = 1 /\ tcbtable[i].state = "CLOSED" => close[i] = "closed"
  /\ tcbtable[i] # None /\ tcbtable[i].state = "LISTENING" => close[i] \in {"no", "grace"}

(* A channel holds a segment of that type.                                 *)
Has(chan, type) == \E k \in 1 .. Len(chan) : chan[k].type = type

(* What a client program p knows, n of whose DATA have been taken.         *)
Knows(p, n) ==
  /\ p.pc = "connect" => p.next = 0 /\ p.state # "FINWAIT"
  /\ p.pc = "talk" => p.state = "CONNECTED"
  /\ p.pc = "disconnect" => p.state # "SYNSENT"
  /\ n <= p.next /\ p.next <= n + 1
  /\ p.unacked \/ n = p.next

(* Only a program that talks has something to send again.                  *)
Resends(p) == p.unacked => p.pc = "talk" /\ p.next > 0

(* What program p has on its way to the server: SYN, then DATA, then FIN.  *)
Requests(s, p) ==
  \A k \in 1 .. Len(s) :
    /\ s[k].type = "SYN" => s[k].num = 0 /\ \A j \in 1 .. k : s[j].type = "SYN"
    /\ s[k].type = "DATA" => s[k].num < p.next /\ p.pc # "connect"
    /\ s[k].type = "FIN" => p.pc = "disconnect"

(* What is on its way back to program p, n of whose DATA have been taken.  *)
Answers(s, p, n) ==
  \A k \in 1 .. Len(s) :
    /\ s[k].type = "DATAACK" => s[k].num <= n
    /\ s[k].type = "FINACK" => p.pc = "disconnect"

(* The server has answered the SYN, or the FIN, of the present session.    *)
Answered(p, s) == p.pc \in {"talk", "disconnect"} \/ p.state = "CONNECTED" \/ Has(s, "SYNACK")
Finished(p, s) == (p.pc = "disconnect" /\ p.state = "CLOSED") \/ Has(s, "FINACK")

(* The session has not been ended by its client.                           *)
Open(p) == p.pc \in {"connect", "talk"}

(* Slot i, which holds the TCB of c, whose program runs.                   *)
Current(i, c) == tcbtable[i].session = session[c]
SlotServes(i, c) ==
  /\ Answered(cli[c], toClient[c]) => Current(i, c)
  /\ Current(i, c) /\ tcbtable[i].state \in {"CONNECTED", "CLOSEWAIT"}
       => tcbtable[i].expect = taken[c]
  /\ Open(cli[c]) /\ Current(i, c) => tcbtable[i].state # "CLOSEWAIT"
  /\ Open(cli[c]) /\ c \notin reused /\ ~stolen /\ Current(i, c)
       /\ tcbtable[i].state = "CONNECTED" => close[i] \in {"no", "grace"}
  /\ Finished(cli[c], toClient[c]) => tcbtable[i].state # "CONNECTED"

(* What the table owes to client c, whose program runs.                    *)
TableServes(c) ==
  /\ \A i \in Slots : Holds(i, c) => SlotServes(i, c)
  /\ Open(cli[c]) /\ c \notin reused /\ Answered(cli[c], toClient[c])
       => \E i \in Slots : Holds(i, c) /\ tcbtable[i].state = "CONNECTED"

(* A client and everything that is about its present session.              *)
ClientWell(c) ==
  /\ Knows(cli[c], taken[c])
  /\ Requests(toServer[c], cli[c])
  /\ Has(toServer[c], "SYN") => taken[c] = 0
  /\ Answers(toClient[c], cli[c], taken[c])
  /\ Finished(cli[c], toClient[c]) => ~Has(toServer[c], "SYN")
  /\ TableServes(c)

(* The inductive invariant.                                                *)
IInv ==
  /\ Types /\ OneTcb /\ Sessions
  /\ ~stolen => \A i \in Slots : Owned(i)
  /\ \A c \in Clients : Resends(cli[c]) /\ (cli[c].pc # "none" => ClientWell(c))

-----------------------------------------------------------------------------
(* Channels: what Append and Tail do to what they hold.                    *)

(* Appending keeps what is there and adds one element at the end.          *)
LEMMA AppendElements ==
    ASSUME NEW T, NEW s \in Seq(T), NEW e \in T
    PROVE  /\ Append(s, e) \in Seq(T)
           /\ Len(Append(s, e)) = Len(s) + 1
           /\ \A k \in 1 .. Len(s) : Append(s, e)[k] = s[k]
           /\ Append(s, e)[Len(s) + 1] = e
  OBVIOUS

(* What is taken from the front of a channel was its first element.        *)
LEMMA TailElements ==
    ASSUME NEW T, NEW s \in Seq(T), s # <<>>
    PROVE  /\ Tail(s) \in Seq(T)
           /\ Len(s) \in Nat /\ Len(s) > 0
           /\ Len(Tail(s)) = Len(s) - 1
           /\ \A k \in 1 .. Len(s) - 1 : Tail(s)[k] = s[k + 1]
           /\ Head(s) = s[1] /\ Head(s) \in T
  OBVIOUS

(* A type is on a channel after an Append if it was, or has been added.    *)
LEMMA HasAppend ==
    ASSUME NEW T, NEW s \in Seq(T), NEW e \in T, NEW type, Has(Append(s, e), type)
    PROVE  Has(s, type) \/ e.type = type
<1>1. PICK k \in 1 .. Len(s) + 1 : Append(s, e)[k].type = type
  BY AppendElements DEF Has
<1>2. CASE k = Len(s) + 1
  BY <1>1, <1>2, AppendElements
<1>3. CASE k # Len(s) + 1
  <2>1. k \in 1 .. Len(s)
    BY <1>3
  <2> QED
    BY <1>1, <2>1, AppendElements DEF Has
<1> QED
  BY <1>2, <1>3

(* Nothing appears on a channel when its first element is taken.           *)
LEMMA HasTail ==
    ASSUME NEW T, NEW s \in Seq(T), s # <<>>, NEW type, Has(Tail(s), type)
    PROVE  Has(s, type)
<1>1. PICK k \in 1 .. Len(s) - 1 : Tail(s)[k].type = type
  BY TailElements DEF Has
<1>2. k + 1 \in 1 .. Len(s) /\ s[k + 1].type = type
  BY <1>1, TailElements
<1> QED
  BY <1>2 DEF Has

(* The requests that are left once the first one has been taken.           *)
LEMMA RequestsTail ==
    ASSUME NEW s \in Seq(Request), s # <<>>, NEW p, Requests(s, p)
    PROVE  Requests(Tail(s), p)
<1> DEFINE t == Tail(s)
<1> SUFFICES ASSUME NEW k \in 1 .. Len(t)
             PROVE  /\ t[k].type = "SYN" => t[k].num = 0 /\ \A j \in 1 .. k : t[j].type = "SYN"
                    /\ t[k].type = "DATA" => t[k].num < p.next /\ p.pc # "connect"
                    /\ t[k].type = "FIN" => p.pc = "disconnect"
  BY DEF Requests
<1>1. k + 1 \in 1 .. Len(s) /\ t[k] = s[k + 1]
  BY TailElements
<1>2. ASSUME NEW j \in 1 .. k
      PROVE  j + 1 \in 1 .. k + 1 /\ t[j] = s[j + 1]
  BY TailElements
<1> HIDE DEF t
<1> QED
  BY <1>1, <1>2 DEF Requests

(* SYN goes out while nothing but SYN is on the way, DATA and FIN after it. *)
LEMMA RequestsAppend ==
    ASSUME NEW s \in Seq(Request), NEW p, Requests(s, p), NEW e \in Request,
           e.type = "SYN" => p.pc = "connect" /\ e.num = 0,
           e.type = "DATA" => e.num < p.next /\ p.pc # "connect",
           e.type = "FIN" => p.pc = "disconnect"
    PROVE  Requests(Append(s, e), p)
<1> DEFINE t == Append(s, e)
<1>1. /\ t \in Seq(Request) /\ Len(t) = Len(s) + 1
      /\ t[Len(s) + 1] = e /\ \A k \in 1 .. Len(s) : t[k] = s[k]
  BY AppendElements
<1>2. e.type = "SYN" => \A j \in 1 .. Len(s) : s[j].type = "SYN"
  <2>1. \A j \in 1 .. Len(s) : s[j] \in Request
    OBVIOUS
  <2>2. \A j \in 1 .. Len(s) : s[j].type \in {"SYN", "DATA", "FIN"}
    BY <2>1 DEF Request
  <2> QED
    BY <2>2 DEF Requests
<1> HIDE DEF t
<1>3. ASSUME NEW k \in 1 .. Len(t)
      PROVE  /\ t[k].type = "SYN" => t[k].num = 0 /\ \A j \in 1 .. k : t[j].type = "SYN"
             /\ t[k].type = "DATA" => t[k].num < p.next /\ p.pc # "connect"
             /\ t[k].type = "FIN" => p.pc = "disconnect"
  <2>1. CASE k = Len(s) + 1
    BY <1>1, <1>2, <2>1
  <2>2. CASE k # Len(s) + 1
    <3>1. k \in 1 .. Len(s) /\ t[k] = s[k]
      BY <1>1, <2>2
    <3>2. \A j \in 1 .. k : t[j] = s[j]
      BY <1>1, <3>1
    <3> QED
      BY <3>1, <3>2 DEF Requests
  <2> QED
    BY <2>1, <2>2
<1> QED
  BY <1>3 DEF Requests, t

(* A SYN on the way means that nothing but SYN is in front of it.          *)
LEMMA FirstIsSyn ==
    ASSUME NEW s \in Seq(Request), NEW p, Requests(s, p), Has(s, "SYN")
    PROVE  Head(s).type = "SYN"
<1>1. PICK k \in 1 .. Len(s) : s[k].type = "SYN"
  BY DEF Has
<1>2. 1 \in 1 .. k /\ s # <<>>
  BY <1>1
<1> QED
  BY <1>1, <1>2, TailElements DEF Requests

(* What the first of the requests says of the program.                     *)
LEMMA FirstRequest ==
    ASSUME NEW s \in Seq(Request), s # <<>>, NEW p, Requests(s, p)
    PROVE  /\ Head(s) \in Request
           /\ Head(s).type = "SYN" => Head(s).num = 0 /\ Has(s, "SYN")
           /\ Head(s).type = "DATA" => Head(s).num < p.next /\ p.pc # "connect"
           /\ Head(s).type = "FIN" => p.pc = "disconnect"
<1>1. 1 \in 1 .. Len(s) /\ Head(s) = s[1] /\ Head(s) \in Request
  BY TailElements
<1> QED
  BY <1>1 DEF Requests, Has

(* The answers that are left once the first one has been taken.            *)
LEMMA AnswersTail ==
    ASSUME NEW s \in Seq(Answer), s # <<>>, NEW p, NEW n, Answers(s, p, n)
    PROVE  Answers(Tail(s), p, n)
<1>1. \A k \in 1 .. Len(Tail(s)) : k + 1 \in 1 .. Len(s) /\ Tail(s)[k] = s[k + 1]
  BY TailElements
<1> QED
  BY <1>1 DEF Answers

(* What is acknowledged has been taken; FINACK goes to who has sent FIN.   *)
LEMMA AnswersAppend ==
    ASSUME NEW s \in Seq(Answer), NEW p, NEW m \in Nat, NEW n \in Nat, m <= n,
           Answers(s, p, m), NEW e \in Answer,
           e.type = "DATAACK" => e.num <= n,
           e.type = "FINACK" => p.pc = "disconnect"
    PROVE  Answers(Append(s, e), p, n)
<1> DEFINE t == Append(s, e)
<1>1. /\ Len(t) = Len(s) + 1 /\ Len(s) \in Nat
      /\ t[Len(s) + 1] = e /\ \A k \in 1 .. Len(s) : t[k] = s[k]
  BY AppendElements
<1> HIDE DEF t
<1>2. ASSUME NEW k \in 1 .. Len(t)
      PROVE  /\ t[k].type = "DATAACK" => t[k].num <= n
             /\ t[k].type = "FINACK" => p.pc = "disconnect"
  <2>1. CASE k = Len(s) + 1
    BY <1>1, <2>1
  <2>2. CASE k # Len(s) + 1
    <3>1. k \in 1 .. Len(s) /\ t[k] = s[k] /\ s[k] \in Answer
      BY <1>1, <2>2
    <3>2. s[k].num \in Nat
      BY <3>1 DEF Answer
    <3> QED
      BY <3>1, <3>2 DEF Answers
  <2> QED
    BY <2>1, <2>2
<1> QED
  BY <1>2 DEF Answers, t

(* Requests stay in order while the program goes on.                       *)
LEMMA RequestsKept ==
    ASSUME NEW s \in Seq(Request), NEW p \in Program, NEW q \in Program,
           Requests(s, p), p.next <= q.next,
           q.pc = "connect" => p.pc = "connect",
           p.pc = "disconnect" => q.pc = "disconnect"
    PROVE  Requests(s, q)
<1>1. p.next \in Nat /\ q.next \in Nat
  BY DEF Program
<1>2. \A k \in 1 .. Len(s) : s[k] \in Request
  OBVIOUS
<1>3. \A k \in 1 .. Len(s) : s[k].num \in Nat
  BY <1>2 DEF Request
<1> QED
  BY <1>1, <1>3 DEF Requests

(* Answers fit the program that has gone on.                               *)
LEMMA AnswersKept ==
    ASSUME NEW s \in Seq(Answer), NEW p, NEW q, NEW n, Answers(s, p, n),
           p.pc = "disconnect" => q.pc = "disconnect"
    PROVE  Answers(s, q, n)
  BY DEF Answers

-----------------------------------------------------------------------------
(* Steps seen from one client.                                             *)

(* A client whose TCB is left alone loses nothing of the table when it     *)
(* takes no step that makes an answer out of none.                         *)
LEMMA TableKept ==
    ASSUME NEW c \in Clients, TableServes(c),
           UNCHANGED <<tcbtable, close, stolen, reused>>,
           session'[c] = session[c], taken'[c] = taken[c],
           Answered(cli'[c], toClient'[c]) => Answered(cli[c], toClient[c]),
           Finished(cli'[c], toClient'[c]) => Finished(cli[c], toClient[c]),
           Open(cli'[c]) => Open(cli[c])
    PROVE  TableServes(c)'
<1>1. ASSUME NEW i \in Slots, Holds(i, c)'
      PROVE  SlotServes(i, c)'
  <2>1. Holds(i, c) /\ SlotServes(i, c)
    BY <1>1 DEF Holds, TableServes
  <2> QED
    BY <2>1 DEF SlotServes, Current
<1>2. Open(cli'[c]) /\ c \notin reused' /\ Answered(cli'[c], toClient'[c])
        => \E i \in Slots : Holds(i, c)' /\ tcbtable'[i].state = "CONNECTED"
  BY DEF TableServes, Holds
<1> QED
  BY <1>1, <1>2 DEF TableServes

(* What a step of another client, or about its TCB, leaves alone.          *)
Untouched(d) ==
  /\ cli'[d] = cli[d] /\ session'[d] = session[d] /\ taken'[d] = taken[d]
  /\ toServer'[d] = toServer[d] /\ toClient'[d] = toClient[d]
  /\ d \in reused' <=> d \in reused
  /\ \A i \in Slots : /\ Holds(i, d)' <=> Holds(i, d)
                      /\ Holds(i, d) => tcbtable'[i] = tcbtable[i] /\ close'[i] = close[i]

(* A client that a step leaves alone is as well as it was.                 *)
LEMMA ClientKept ==
    ASSUME NEW d \in Clients, Untouched(d), stolen' = stolen, ClientWell(d)
    PROVE  ClientWell(d)'
<1>1. /\ cli'[d] = cli[d] /\ session'[d] = session[d] /\ taken'[d] = taken[d]
      /\ toServer'[d] = toServer[d] /\ toClient'[d] = toClient[d]
      /\ d \in reused' <=> d \in reused
  BY DEF Untouched
<1>2. ASSUME NEW i \in Slots, Holds(i, d)'
      PROVE  SlotServes(i, d)'
  <2>1. Holds(i, d) /\ tcbtable'[i] = tcbtable[i] /\ close'[i] = close[i]
    BY <1>2 DEF Untouched
  <2>2. SlotServes(i, d)
    BY <2>1 DEF ClientWell, TableServes
  <2> QED
    BY <1>1, <2>1, <2>2 DEF SlotServes, Current
<1>3. Open(cli[d]) /\ d \notin reused /\ Answered(cli[d], toClient[d])
        => \E i \in Slots : Holds(i, d)' /\ tcbtable'[i].state = "CONNECTED"
  <2> SUFFICES ASSUME Open(cli[d]) /\ d \notin reused /\ Answered(cli[d], toClient[d])
               PROVE  \E i \in Slots : Holds(i, d)' /\ tcbtable'[i].state = "CONNECTED"
    OBVIOUS
  <2>1. PICK i \in Slots : Holds(i, d) /\ tcbtable[i].state = "CONNECTED"
    BY DEF ClientWell, TableServes
  <2> QED
    BY <2>1 DEF Untouched
<1>4. TableServes(d)'
  BY <1>1, <1>2, <1>3 DEF TableServes
<1> QED
  BY <1>1, <1>4 DEF ClientWell

(* A step about client c keeps the invariant when it keeps the table whole, *)
(* c well and the others alone.                                            *)
LEMMA OneClient ==
    ASSUME IInv, NEW c \in Clients, stolen' = stolen,
           Types', OneTcb', Sessions',
           ~stolen => \A i \in Slots : Owned(i)',
           \A d \in Clients \ {c} : Untouched(d),
           Resends(cli'[c]),
           cli'[c].pc # "none" => ClientWell(c)'
    PROVE  IInv'
<1>1. ASSUME NEW d \in Clients
      PROVE  Resends(cli'[d]) /\ (cli'[d].pc # "none" => ClientWell(d)')
  <2>1. CASE d = c
    BY <2>1
  <2>2. CASE d # c
    <3>1. Untouched(d) /\ Resends(cli[d]) /\ (cli[d].pc # "none" => ClientWell(d))
      BY <2>2 DEF IInv
    <3>2. cli'[d] = cli[d]
      BY <3>1 DEF Untouched
    <3>3. CASE cli[d].pc # "none"
      BY <3>1, <3>2, <3>3, ClientKept
    <3> QED
      BY <3>1, <3>2, <3>3
  <2> QED
    BY <2>1, <2>2
<1> QED
  BY <1>1 DEF IInv

(* A step of the client program, or of a channel, leaves the table alone.  *)
LEMMA ProgramMoves ==
    ASSUME IInv, NEW c \in Clients, NEW p \in Program,
           cli' = [cli EXCEPT ![c] = p],
           UNCHANGED <<server, session>>,
           toServer' \in [Clients -> Seq(Request)],
           toClient' \in [Clients -> Seq(Answer)],
           \A d \in Clients \ {c} : toServer'[d] = toServer[d] /\ toClient'[d] = toClient[d],
           Resends(p),
           p.pc # "none" => ClientWell(c)'
    PROVE  IInv'
<1>1. Types /\ OneTcb /\ Sessions /\ (~stolen => \A i \in Slots : Owned(i))
  BY DEF IInv
<1>2. cli'[c] = p
  BY <1>1 DEF Types
<1>3. Types'
  BY <1>1 DEF Types, server
<1>4. OneTcb' /\ Sessions'
  BY <1>1 DEF OneTcb, Sessions, Holds, server
<1>5. ~stolen => \A i \in Slots : Owned(i)'
  BY <1>1 DEF Owned, server
<1>6. ASSUME NEW d \in Clients \ {c}
      PROVE  Untouched(d)
  <2>1. cli'[d] = cli[d] /\ d \in Clients
    BY <1>1 DEF Types
  <2> QED
    BY <2>1 DEF Untouched, Holds, server
<1>7. stolen' = stolen
  BY DEF server
<1> QED
  BY <1>2, <1>3, <1>4, <1>5, <1>6, <1>7, OneClient

-----------------------------------------------------------------------------
(* The steps of a client program.                                          *)

(* What holds of a client and of its channels.                             *)
LEMMA ClientTypes ==
    ASSUME Types, NEW c \in Clients
    PROVE  /\ cli[c] \in Program /\ session[c] \in Nat /\ taken[c] \in Nat
           /\ toServer[c] \in Seq(Request) /\ toClient[c] \in Seq(Answer)
  BY DEF Types

(* A program that goes on keeps the invariant when what it knows and what  *)
(* is on its way fit, and nothing looks answered that was not before.      *)
LEMMA ProgramGoesOn ==
    ASSUME IInv, NEW c \in Clients, NEW p \in Program,
           cli[c].pc # "none",
           cli' = [cli EXCEPT ![c] = p],
           UNCHANGED <<server, session>>,
           toServer' \in [Clients -> Seq(Request)],
           toClient' \in [Clients -> Seq(Answer)],
           \A d \in Clients \ {c} : toServer'[d] = toServer[d] /\ toClient'[d] = toClient[d],
           Resends(p), Knows(p, taken[c]),
           Requests(toServer'[c], p), Answers(toClient'[c], p, taken[c]),
           Has(toServer'[c], "SYN") => taken[c] = 0,
           Answered(p, toClient'[c]) => Answered(cli[c], toClient[c]),
           Finished(p, toClient'[c])
             => Finished(cli[c], toClient[c]) /\ ~Has(toServer'[c], "SYN"),
           Open(p) => Open(cli[c])
    PROVE  IInv'
<1>1. Types /\ ClientWell(c)
  BY DEF IInv
<1>2. cli'[c] = p
  BY <1>1 DEF Types
<1>3. UNCHANGED <<tcbtable, close, stolen, reused, taken>>
  BY DEF server
<1>4. TableServes(c)'
  BY <1>1, <1>2, <1>3, TableKept DEF ClientWell
<1>5. ClientWell(c)'
  BY <1>2, <1>3, <1>4 DEF ClientWell
<1> QED
  BY <1>5, ProgramMoves

(* A segment that program p sends at the end of what is on its way.        *)
LEMMA Sends ==
    ASSUME Types, NEW c \in Clients, NEW e \in Request,
           toServer' = [toServer EXCEPT ![c] = Append(toServer[c], e)]
    PROVE  /\ toServer' \in [Clients -> Seq(Request)]
           /\ toServer'[c] = Append(toServer[c], e)
           /\ \A d \in Clients \ {c} : toServer'[d] = toServer[d]
           /\ Has(toServer'[c], "SYN") => Has(toServer[c], "SYN") \/ e.type = "SYN"
<1>1. toServer[c] \in Seq(Request) /\ Append(toServer[c], e) \in Seq(Request)
  BY ClientTypes, AppendElements
<1>2. toServer'[c] = Append(toServer[c], e)
  BY DEF Types
<1> QED
  BY <1>1, <1>2, HasAppend DEF Types

(* An attempt with SYN: nothing but SYN has been sent yet.                 *)
LEMMA SendSynStep ==
    ASSUME IInv, NEW c \in Clients, SendSyn(c)
    PROVE  IInv'
<1> DEFINE p == [cli[c] EXCEPT !.tries = @ + 1, !.state = "SYNSENT"]
           e == [type |-> "SYN", num |-> cli[c].next]
<1>1. /\ cli[c].pc = "connect" /\ UNCHANGED <<session, toClient, server>>
      /\ Types /\ Resends(cli[c]) /\ ClientWell(c)
  BY DEF SendSyn, Attempt, IInv
<1>2. /\ cli[c] \in Program /\ cli[c].next \in Nat
      /\ toServer[c] \in Seq(Request) /\ toClient[c] \in Seq(Answer)
  BY <1>1, ClientTypes DEF Program
<1>3. /\ p \in Program /\ p.pc = "connect" /\ p.state = "SYNSENT"
      /\ p.next = cli[c].next /\ p.unacked = cli[c].unacked
  <2>1. cli[c].tries + 1 \in Nat
    BY <1>2 DEF Program
  <2>2. p \in Program
    BY <1>2, <2>1 DEF Program
  <2>3. p.pc = "connect" /\ p.state = "SYNSENT" /\ p.next = cli[c].next
    BY <1>1, <1>2 DEF Program
  <2>4. p.unacked = cli[c].unacked
    BY <1>2 DEF Program
  <2> QED
    BY <2>2, <2>3, <2>4
<1>4. cli' = [cli EXCEPT ![c] = p] /\ cli'[c] = p
  BY <1>1 DEF SendSyn, Attempt, Types
<1>5. e \in Request /\ e.type = "SYN" /\ e.num = cli[c].next
  BY <1>2 DEF Request
<1> HIDE DEF p
<1>6. toServer' = [toServer EXCEPT ![c] = Append(toServer[c], e)]
  BY <1>3, <1>4 DEF SendSyn, Attempt, ToServer, Seg
<1> HIDE DEF e
<1>7. cli[c].next = 0 /\ taken[c] = 0
  BY <1>1 DEF ClientWell, Knows, Resends
<1>8. Resends(p) /\ Knows(p, taken[c])
  BY <1>1, <1>3 DEF ClientWell, Resends, Knows
<1>9. Requests(toServer'[c], p)
  <2>1. Requests(toServer[c], p)
    BY <1>1, <1>2, <1>3, RequestsKept DEF ClientWell
  <2> QED
    BY <1>1, <1>2, <1>3, <1>5, <1>6, <1>7, <2>1, RequestsAppend, Sends
<1>10. Answers(toClient[c], p, taken[c])
  BY <1>1, <1>2, <1>3, AnswersKept DEF ClientWell
<1>11. ~Finished(p, toClient[c])
  BY <1>3, <1>10 DEF Finished, Has, Answers
<1>12. /\ Answered(p, toClient[c]) => Answered(cli[c], toClient[c])
       /\ Open(cli[c])
  BY <1>1, <1>3 DEF Answered, Open
<1>13. toClient' \in [Clients -> Seq(Answer)] /\ toClient' = toClient
  BY <1>1 DEF Types
<1> QED
  BY <1>1, <1>3, <1>4, <1>5, <1>6, <1>7, <1>8, <1>9, <1>10, <1>11, <1>12, <1>13,
     Sends, ProgramGoesOn

(* An attempt with FIN: everything has been acknowledged.                  *)
LEMMA SendFinStep ==
    ASSUME IInv, NEW c \in Clients, SendFin(c)
    PROVE  IInv'
<1> DEFINE p == [cli[c] EXCEPT !.tries = @ + 1, !.state = "FINWAIT"]
           e == [type |-> "FIN", num |-> cli[c].next]
<1>1. /\ cli[c].pc = "disconnect" /\ UNCHANGED <<session, toClient, server>>
      /\ Types /\ Resends(cli[c]) /\ ClientWell(c)
  BY DEF SendFin, Attempt, IInv
<1>2. /\ cli[c] \in Program /\ cli[c].next \in Nat
      /\ toServer[c] \in Seq(Request) /\ toClient[c] \in Seq(Answer)
  BY <1>1, ClientTypes DEF Program
<1>3. /\ p \in Program /\ p.pc = "disconnect" /\ p.state = "FINWAIT"
      /\ p.next = cli[c].next /\ p.unacked = cli[c].unacked
  <2>1. cli[c].tries + 1 \in Nat
    BY <1>2 DEF Program
  <2>2. p \in Program
    BY <1>2, <2>1 DEF Program
  <2>3. p.pc = "disconnect" /\ p.state = "FINWAIT" /\ p.next = cli[c].next
    BY <1>1, <1>2 DEF Program
  <2>4. p.unacked = cli[c].unacked
    BY <1>2 DEF Program
  <2> QED
    BY <2>2, <2>3, <2>4
<1>4. cli' = [cli EXCEPT ![c] = p] /\ cli'[c] = p
  BY <1>1 DEF SendFin, Attempt, Types
<1>5. e \in Request /\ e.type = "FIN" /\ e.num = cli[c].next
  BY <1>2 DEF Request
<1> HIDE DEF p
<1>6. toServer' = [toServer EXCEPT ![c] = Append(toServer[c], e)]
  BY <1>3, <1>4 DEF SendFin, Attempt, ToServer, Seg
<1> HIDE DEF e
<1>7. Has(toServer'[c], "SYN") => Has(toServer[c], "SYN")
  BY <1>1, <1>5, <1>6, Sends
<1>8. Resends(p) /\ Knows(p, taken[c])
  BY <1>1, <1>3 DEF ClientWell, Resends, Knows
<1>9. Requests(toServer'[c], p)
  <2>1. Requests(toServer[c], p)
    BY <1>1, <1>2, <1>3, RequestsKept DEF ClientWell
  <2> QED
    BY <1>1, <1>2, <1>3, <1>5, <1>6, <2>1, RequestsAppend, Sends
<1>10. Answers(toClient[c], p, taken[c])
  BY <1>1, <1>2, <1>3, AnswersKept DEF ClientWell
<1>11. Finished(p, toClient[c]) => Finished(cli[c], toClient[c])
  BY <1>3 DEF Finished
<1>12. Answered(cli[c], toClient[c]) /\ ~Open(p)
  BY <1>1, <1>3 DEF Answered, Open
<1>13. toClient' \in [Clients -> Seq(Answer)] /\ toClient' = toClient
  BY <1>1 DEF Types
<1>14. Finished(p, toClient[c]) => ~Has(toServer'[c], "SYN")
  BY <1>1, <1>7, <1>11 DEF ClientWell
<1>15. Has(toServer'[c], "SYN") => taken[c] = 0
  BY <1>1, <1>7 DEF ClientWell
<1> QED
  BY <1>1, <1>3, <1>4, <1>5, <1>6, <1>8, <1>9, <1>10, <1>11, <1>12, <1>13, <1>14,
     <1>15, Sends, ProgramGoesOn

(* stcp_client_connect returns 1: the handler has seen SYNACK.             *)
LEMMA ConnectedStep ==
    ASSUME IInv, NEW c \in Clients, Connected(c)
    PROVE  IInv'
<1> DEFINE p == [cli[c] EXCEPT !.pc = "talk", !.tries = 0]
<1>1. /\ cli[c].pc = "connect" /\ cli[c].state = "CONNECTED"
      /\ UNCHANGED <<session, toServer, toClient, server>>
      /\ Types /\ Resends(cli[c]) /\ ClientWell(c)
  BY DEF Connected, IInv
<1>2. /\ cli[c] \in Program /\ cli[c].next \in Nat
      /\ toServer[c] \in Seq(Request) /\ toClient[c] \in Seq(Answer)
  BY <1>1, ClientTypes DEF Program
<1>3. /\ p \in Program /\ p.pc = "talk" /\ p.state = "CONNECTED"
      /\ p.next = cli[c].next /\ p.unacked = cli[c].unacked
  <2>1. p \in Program
    BY <1>2 DEF Program
  <2>2. p.pc = "talk" /\ p.state = "CONNECTED" /\ p.next = cli[c].next
    BY <1>1, <1>2 DEF Program
  <2>3. p.unacked = cli[c].unacked
    BY <1>2 DEF Program
  <2> QED
    BY <2>1, <2>2, <2>3
<1>4. cli' = [cli EXCEPT ![c] = p]
  BY <1>1 DEF Connected, Types
<1> HIDE DEF p
<1>5. Resends(p) /\ Knows(p, taken[c])
  BY <1>1, <1>3 DEF ClientWell, Resends, Knows
<1>6. Requests(toServer[c], p)
  BY <1>1, <1>2, <1>3, RequestsKept DEF ClientWell
<1>7. Answers(toClient[c], p, taken[c])
  BY <1>1, <1>2, <1>3, AnswersKept DEF ClientWell
<1>8. Finished(p, toClient[c]) => Finished(cli[c], toClient[c])
  BY <1>3 DEF Finished
<1>9. Answered(cli[c], toClient[c]) /\ Open(cli[c])
  BY <1>1 DEF Answered, Open
<1>10. /\ toServer' \in [Clients -> Seq(Request)] /\ toServer' = toServer
       /\ toClient' \in [Clients -> Seq(Answer)] /\ toClient' = toClient
  BY <1>1 DEF Types
<1>11. /\ Finished(p, toClient[c]) => ~Has(toServer[c], "SYN")
       /\ Has(toServer[c], "SYN") => taken[c] = 0
  BY <1>1, <1>8 DEF ClientWell
<1> QED
  BY <1>1, <1>3, <1>4, <1>5, <1>6, <1>7, <1>8, <1>9, <1>10, <1>11, ProgramGoesOn

(* stcp_client_disconnect begins when nothing is unacknowledged.           *)
LEMMA DisconnectStep ==
    ASSUME IInv, NEW c \in Clients, Disconnect(c)
    PROVE  IInv'
<1> DEFINE p == [cli[c] EXCEPT !.pc = "disconnect"]
<1>1. /\ cli[c].pc = "talk" /\ ~cli[c].unacked
      /\ UNCHANGED <<session, toServer, toClient, server>>
      /\ Types /\ Resends(cli[c]) /\ ClientWell(c)
  BY DEF Disconnect, IInv
<1>2. /\ cli[c] \in Program /\ cli[c].next \in Nat
      /\ toServer[c] \in Seq(Request) /\ toClient[c] \in Seq(Answer)
  BY <1>1, ClientTypes DEF Program
<1>3. /\ p \in Program /\ p.pc = "disconnect" /\ p.state = cli[c].state
      /\ p.next = cli[c].next /\ ~p.unacked
  <2>1. p \in Program
    BY <1>2 DEF Program
  <2>2. p.pc = "disconnect" /\ p.state = cli[c].state /\ p.next = cli[c].next
    BY <1>1, <1>2 DEF Program
  <2>3. p.unacked = cli[c].unacked
    BY <1>2 DEF Program
  <2> QED
    BY <1>1, <2>1, <2>2, <2>3
<1>4. cli' = [cli EXCEPT ![c] = p]
  BY <1>1 DEF Disconnect, Types
<1> HIDE DEF p
<1>5. cli[c].state = "CONNECTED"
  BY <1>1 DEF ClientWell, Knows
<1>6. Resends(p) /\ Knows(p, taken[c])
  BY <1>1, <1>3, <1>5 DEF ClientWell, Resends, Knows
<1>7. Requests(toServer[c], p)
  BY <1>1, <1>2, <1>3, RequestsKept DEF ClientWell
<1>8. Answers(toClient[c], p, taken[c])
  BY <1>1, <1>2, <1>3, AnswersKept DEF ClientWell
<1>9. Finished(p, toClient[c]) => Finished(cli[c], toClient[c])
  BY <1>3, <1>5 DEF Finished
<1>10. Answered(cli[c], toClient[c]) /\ Open(cli[c])
  BY <1>1 DEF Answered, Open
<1>11. /\ toServer' \in [Clients -> Seq(Request)] /\ toServer' = toServer
       /\ toClient' \in [Clients -> Seq(Answer)] /\ toClient' = toClient
  BY <1>1 DEF Types
<1>12. /\ Finished(p, toClient[c]) => ~Has(toServer[c], "SYN")
       /\ Has(toServer[c], "SYN") => taken[c] = 0
  BY <1>1, <1>9 DEF ClientWell
<1> QED
  BY <1>1, <1>3, <1>4, <1>6, <1>7, <1>8, <1>9, <1>10, <1>11, <1>12, ProgramGoesOn

(* The next byte goes out: it has not been taken yet.                      *)
LEMMA SendStep ==
    ASSUME IInv, NEW c \in Clients, Send(c)
    PROVE  IInv'
<1> DEFINE p == [cli[c] EXCEPT !.next = @ + 1, !.unacked = TRUE]
           e == [type |-> "DATA", num |-> cli[c].next]
<1>1. /\ cli[c].pc = "talk" /\ ~cli[c].unacked
      /\ UNCHANGED <<session, toClient, server>>
      /\ Types /\ Resends(cli[c]) /\ ClientWell(c)
  BY DEF Send, IInv
<1>2. /\ cli[c] \in Program /\ cli[c].next \in Nat
      /\ toServer[c] \in Seq(Request) /\ toClient[c] \in Seq(Answer)
  BY <1>1, ClientTypes DEF Program
<1>3. /\ p \in Program /\ p.pc = "talk" /\ p.state = cli[c].state
      /\ p.next = cli[c].next + 1 /\ p.unacked
  <2>1. cli[c].next + 1 \in Nat
    BY <1>2
  <2>2. p \in Program
    BY <1>2, <2>1 DEF Program
  <2>3. p.pc = "talk" /\ p.state = cli[c].state /\ p.next = cli[c].next + 1
    BY <1>1, <1>2 DEF Program
  <2>4. p.unacked = TRUE
    BY <1>2 DEF Program
  <2> QED
    BY <2>2, <2>3, <2>4
<1>4. cli' = [cli EXCEPT ![c] = p]
  BY <1>1 DEF Send, Types
<1>5. e \in Request /\ e.type = "DATA" /\ e.num = cli[c].next
  BY <1>2 DEF Request
<1>6. toServer' = [toServer EXCEPT ![c] = Append(toServer[c], e)]
  BY DEF Send, Seg
<1> HIDE DEF p, e
<1>7. Has(toServer'[c], "SYN") => Has(toServer[c], "SYN")
  BY <1>1, <1>5, <1>6, Sends
<1>8. Resends(p) /\ Knows(p, taken[c])
  BY <1>1, <1>2, <1>3 DEF ClientWell, Resends, Knows
<1>9. Requests(toServer'[c], p)
  <2>1. Requests(toServer[c], p)
    <3>1. cli[c].next <= p.next
      BY <1>2, <1>3
    <3> QED
      BY <1>1, <1>2, <1>3, <3>1, RequestsKept DEF ClientWell
  <2>2. e.num < p.next /\ p.pc # "connect"
    BY <1>2, <1>3, <1>5
  <2> QED
    BY <1>1, <1>2, <1>3, <1>5, <1>6, <2>1, <2>2, RequestsAppend, Sends
<1>10. Answers(toClient[c], p, taken[c])
  BY <1>1, <1>2, <1>3, AnswersKept DEF ClientWell
<1>11. Finished(p, toClient[c]) => Finished(cli[c], toClient[c])
  BY <1>3 DEF Finished
<1>12. Answered(cli[c], toClient[c]) /\ Open(cli[c])
  BY <1>1 DEF Answered, Open
<1>13. toClient' \in [Clients -> Seq(Answer)] /\ toClient' = toClient
  BY <1>1 DEF Types
<1>14. /\ Finished(p, toClient[c]) => ~Has(toServer'[c], "SYN")
       /\ Has(toServer'[c], "SYN") => taken[c] = 0
  BY <1>1, <1>7, <1>11 DEF ClientWell
<1> QED
  BY <1>1, <1>3, <1>4, <1>5, <1>6, <1>8, <1>9, <1>10, <1>11, <1>12, <1>13, <1>14,
     Sends, ProgramGoesOn

(* The timer sends the last byte again, on an empty channel.               *)
LEMMA ResendStep ==
    ASSUME IInv, NEW c \in Clients, Resend(c)
    PROVE  IInv'
<1> DEFINE p == cli[c]
           e == [type |-> "DATA", num |-> cli[c].next - 1]
<1>1. /\ cli[c].unacked /\ toServer[c] = <<>>
      /\ UNCHANGED <<cli, session, toClient, server>>
      /\ Types /\ Resends(cli[c])
  BY DEF Resend, IInv
<1>2. p \in Program /\ p.next \in Nat /\ toClient[c] \in Seq(Answer)
  BY <1>1, ClientTypes DEF Program
<1>3. p.pc = "talk" /\ p.next > 0
  BY <1>1 DEF Resends
<1>4. ClientWell(c)
  BY <1>3 DEF IInv
<1>5. cli' = [cli EXCEPT ![c] = p]
  BY <1>1 DEF Types
<1>6. e \in Request /\ e.type = "DATA" /\ e.num = p.next - 1
  BY <1>2, <1>3 DEF Request
<1>7. toServer' = [toServer EXCEPT ![c] = <<e>>]
  BY DEF Resend, Seg
<1> HIDE DEF e
<1>8. /\ toServer' \in [Clients -> Seq(Request)]
      /\ toServer'[c] = <<e>>
      /\ \A d \in Clients \ {c} : toServer'[d] = toServer[d]
  BY <1>1, <1>6, <1>7 DEF Types
<1>9. Requests(<<e>>, p) /\ ~Has(<<e>>, "SYN")
  BY <1>2, <1>3, <1>6 DEF Requests, Has
<1>10. toClient' \in [Clients -> Seq(Answer)] /\ toClient' = toClient
  BY <1>1 DEF Types
<1>11. Resends(p) /\ Knows(p, taken[c]) /\ Answers(toClient[c], p, taken[c])
  BY <1>1, <1>4 DEF ClientWell
<1> HIDE DEF p
<1> QED
  BY <1>1, <1>2, <1>3, <1>5, <1>8, <1>9, <1>10, <1>11, ProgramGoesOn DEF p

(* A program that is not there: it has nothing to send again.              *)
LEMMA NoProgramType ==
    /\ NoProgram \in Program /\ NoProgram.pc = "none" /\ Resends(NoProgram)
  BY DEF NoProgram, Program, Resends

(* A program that ends, or is killed, leaves no present session behind.    *)
LEMMA EndStep ==
    ASSUME IInv, NEW c \in Clients, Ends(c) \/ Killed(c)
    PROVE  IInv'
<1>1. Types
  BY DEF IInv
<1>2. /\ cli' = [cli EXCEPT ![c] = NoProgram]
      /\ UNCHANGED <<session, toServer, toClient, server>>
  BY DEF Ends, Killed
<1>3. /\ toServer' \in [Clients -> Seq(Request)]
      /\ toClient' \in [Clients -> Seq(Answer)]
  BY <1>1, <1>2 DEF Types
<1> QED
  BY <1>2, <1>3, NoProgramType, ProgramMoves

(* What is left of a channel whose first segment has been taken.           *)
LEMMA RequestTaken ==
    ASSUME Types, NEW c \in Clients, toServer[c] # <<>>,
           toServer' = [toServer EXCEPT ![c] = Tail(@)]
    PROVE  /\ toServer' \in [Clients -> Seq(Request)]
           /\ toServer'[c] = Tail(toServer[c])
           /\ \A d \in Clients \ {c} : toServer'[d] = toServer[d]
           /\ \A t : Has(toServer'[c], t) => Has(toServer[c], t)
           /\ \A p : Requests(toServer[c], p) => Requests(toServer'[c], p)
<1>1. toServer[c] \in Seq(Request) /\ Tail(toServer[c]) \in Seq(Request)
  BY ClientTypes, TailElements
<1>2. toServer'[c] = Tail(toServer[c])
  BY DEF Types
<1>3. /\ toServer' \in [Clients -> Seq(Request)]
      /\ \A d \in Clients \ {c} : toServer'[d] = toServer[d]
  BY <1>1 DEF Types
<1>4. \A t : Has(toServer'[c], t) => Has(toServer[c], t)
  BY <1>1, <1>2, HasTail
<1>5. \A p : Requests(toServer[c], p) => Requests(toServer'[c], p)
  BY <1>1, <1>2, RequestsTail
<1> QED
  BY <1>2, <1>3, <1>4, <1>5

(* The same of the channel back.                                           *)
LEMMA AnswerTaken ==
    ASSUME Types, NEW c \in Clients, toClient[c] # <<>>,
           toClient' = [toClient EXCEPT ![c] = Tail(@)]
    PROVE  /\ toClient' \in [Clients -> Seq(Answer)]
           /\ toClient'[c] = Tail(toClient[c])
           /\ \A d \in Clients \ {c} : toClient'[d] = toClient[d]
           /\ \A t : Has(toClient'[c], t) => Has(toClient[c], t)
           /\ \A p, n : Answers(toClient[c], p, n) => Answers(toClient'[c], p, n)
<1>1. toClient[c] \in Seq(Answer) /\ Tail(toClient[c]) \in Seq(Answer)
  BY ClientTypes, TailElements
<1>2. toClient'[c] = Tail(toClient[c])
  BY DEF Types
<1>3. /\ toClient' \in [Clients -> Seq(Answer)]
      /\ \A d \in Clients \ {c} : toClient'[d] = toClient[d]
  BY <1>1 DEF Types
<1>4. \A t : Has(toClient'[c], t) => Has(toClient[c], t)
  BY <1>1, <1>2, HasTail
<1>5. \A p, n : Answers(toClient[c], p, n) => Answers(toClient'[c], p, n)
  BY <1>1, <1>2, AnswersTail
<1> QED
  BY <1>2, <1>3, <1>4, <1>5

(* A segment that is dropped, on either way, takes nothing that holds away. *)
LEMMA DropStep ==
    ASSUME IInv, NEW c \in Clients, UNCHANGED <<cli, session, server>>,
           \/ /\ toServer[c] # <<>> /\ toServer' = [toServer EXCEPT ![c] = Tail(@)]
              /\ toClient' = toClient
           \/ /\ toClient[c] # <<>> /\ toClient' = [toClient EXCEPT ![c] = Tail(@)]
              /\ toServer' = toServer
    PROVE  IInv'
<1>1. Types /\ Resends(cli[c]) /\ (cli[c].pc # "none" => ClientWell(c))
  BY DEF IInv
<1>2. cli[c] \in Program /\ cli' = [cli EXCEPT ![c] = cli[c]]
  BY <1>1 DEF Types
<1>3. /\ toServer' \in [Clients -> Seq(Request)]
      /\ toClient' \in [Clients -> Seq(Answer)]
      /\ \A d \in Clients \ {c} : toServer'[d] = toServer[d] /\ toClient'[d] = toClient[d]
      /\ \A t : Has(toServer'[c], t) => Has(toServer[c], t)
      /\ \A t : Has(toClient'[c], t) => Has(toClient[c], t)
      /\ \A p : Requests(toServer[c], p) => Requests(toServer'[c], p)
      /\ \A p, n : Answers(toClient[c], p, n) => Answers(toClient'[c], p, n)
  BY <1>1, RequestTaken, AnswerTaken DEF Types
<1>4. CASE cli[c].pc # "none"
  <2>1. /\ ClientWell(c)
        /\ Answered(cli[c], toClient'[c]) => Answered(cli[c], toClient[c])
        /\ Finished(cli[c], toClient'[c]) => Finished(cli[c], toClient[c])
    BY <1>1, <1>3, <1>4 DEF Answered, Finished
  <2>2. /\ Knows(cli[c], taken[c])
        /\ Requests(toServer'[c], cli[c]) /\ Answers(toClient'[c], cli[c], taken[c])
        /\ Has(toServer'[c], "SYN") => taken[c] = 0
        /\ Finished(cli[c], toClient'[c]) => ~Has(toServer'[c], "SYN")
    BY <1>3, <2>1 DEF ClientWell
  <2> QED
    BY <1>1, <1>2, <1>3, <1>4, <2>1, <2>2, ProgramGoesOn
<1>5. CASE cli[c].pc = "none"
  BY <1>1, <1>2, <1>3, <1>5, ProgramMoves
<1> QED
  BY <1>4, <1>5

(* sip_recvseg loses a segment.                                            *)
LEMMA LoseStep ==
    ASSUME IInv, NEW c \in Clients, Lose(c)
    PROVE  IInv'
  BY DropStep DEF Lose

(* seghandler of the client: SYNACK, DATAACK and FINACK say what they mean. *)
LEMMA ClientHandlesStep ==
    ASSUME IInv, NEW c \in Clients, ClientHandles(c)
    PROVE  IInv'
<1> DEFINE m == Head(toClient[c])
<1>1. /\ toClient[c] # <<>> /\ toClient' = [toClient EXCEPT ![c] = Tail(@)]
      /\ UNCHANGED <<session, toServer, server>>
      /\ Types /\ Resends(cli[c]) /\ (cli[c].pc # "none" => ClientWell(c))
  BY DEF ClientHandles, IInv
<1>2. /\ cli[c] \in Program /\ cli[c].next \in Nat /\ taken[c] \in Nat
      /\ toServer[c] \in Seq(Request) /\ toClient[c] \in Seq(Answer)
  BY <1>1, ClientTypes DEF Program
<1>3. /\ toClient' \in [Clients -> Seq(Answer)]
      /\ \A d \in Clients \ {c} : toClient'[d] = toClient[d]
      /\ \A t : Has(toClient'[c], t) => Has(toClient[c], t)
      /\ \A p, n : Answers(toClient[c], p, n) => Answers(toClient'[c], p, n)
  BY <1>1, AnswerTaken
<1>4. toServer' \in [Clients -> Seq(Request)] /\ toServer' = toServer
  BY <1>1 DEF Types
<1>5. 1 \in 1 .. Len(toClient[c]) /\ m = toClient[c][1] /\ m \in Answer
  BY <1>1, <1>2, TailElements
<1>6. Has(toClient[c], m.type)
  BY <1>5 DEF Has
<1>7. cli[c].pc # "none" => /\ m.type = "DATAACK" => m.num <= taken[c]
                            /\ m.type = "FINACK" => cli[c].pc = "disconnect"
  BY <1>1, <1>5 DEF ClientWell, Answers
<1>8. cli[c].pc = "connect" => cli[c].state # "FINWAIT" /\ ~cli[c].unacked
  BY <1>1 DEF ClientWell, Knows, Resends
<1> HIDE DEF m
<1>9. ASSUME NEW p \in Program, cli' = [cli EXCEPT ![c] = p],
             p.pc = cli[c].pc, p.next = cli[c].next, p.unacked => cli[c].unacked,
             p.state = "CONNECTED" => cli[c].state = "CONNECTED" \/ m.type = "SYNACK",
             p.state = "CONNECTED" \/ p.state = cli[c].state \/ m.type = "FINACK",
             p.state = "CLOSED" => cli[c].state = "CLOSED" \/ m.type = "FINACK",
             p.unacked \/ p.next = taken[c] \/ cli[c].pc = "none",
             p.pc = "talk" => p.state = "CONNECTED",
             p.pc = "connect" => p.state # "FINWAIT",
             p.pc = "disconnect" => p.state # "SYNSENT"
      PROVE  IInv'
  <2>1. Resends(p)
    BY <1>1, <1>9 DEF Resends
  <2>2. CASE cli[c].pc # "none"
    <3>1. ClientWell(c) /\ Knows(p, taken[c])
      BY <1>1, <1>9, <2>2 DEF ClientWell, Knows
    <3>2. Requests(toServer[c], p)
      BY <1>2, <1>9, <3>1, RequestsKept DEF ClientWell
    <3>3. Answers(toClient'[c], p, taken[c])
      BY <1>2, <1>3, <1>9, <3>1, AnswersKept DEF ClientWell
    <3>4. Answered(p, toClient'[c]) => Answered(cli[c], toClient[c])
      BY <1>3, <1>6, <1>9 DEF Answered
    <3>5. Finished(p, toClient'[c]) => Finished(cli[c], toClient[c])
      BY <1>3, <1>6, <1>9 DEF Finished
    <3>6. Open(p) => Open(cli[c])
      BY <1>9 DEF Open
    <3>7. /\ Has(toServer[c], "SYN") => taken[c] = 0
          /\ Finished(p, toClient'[c]) => ~Has(toServer[c], "SYN")
      BY <3>1, <3>5 DEF ClientWell
    <3> QED
      BY <1>1, <1>3, <1>4, <1>9, <2>1, <2>2, <3>1, <3>2, <3>3, <3>4, <3>5, <3>6, <3>7,
         ProgramGoesOn
  <2>3. CASE cli[c].pc = "none"
    BY <1>1, <1>3, <1>4, <1>9, <2>1, <2>3, ProgramMoves
  <2> QED
    BY <2>2, <2>3
<1>10. cli[c].pc # "none" =>
         /\ cli[c].unacked \/ cli[c].next = taken[c]
         /\ cli[c].pc = "talk" => cli[c].state = "CONNECTED"
         /\ cli[c].pc = "disconnect" => cli[c].state # "SYNSENT"
         /\ taken[c] <= cli[c].next
  BY <1>1 DEF ClientWell, Knows
<1>11. CASE cli[c].state = "SYNSENT" /\ m.type = "SYNACK" /\ m.num = cli[c].next
  <2> DEFINE p == [cli[c] EXCEPT !.state = "CONNECTED"]
  <2>1. /\ p \in Program /\ p.pc = cli[c].pc /\ p.next = cli[c].next
        /\ p.state = "CONNECTED"
    BY <1>2 DEF Program
  <2>2. p.unacked = cli[c].unacked
    BY <1>2 DEF Program
  <2>3. cli' = [cli EXCEPT ![c] = p]
    BY <1>11 DEF ClientHandles, m
  <2> HIDE DEF p
  <2> QED
    BY <1>9, <1>10, <1>11, <2>1, <2>2, <2>3
<1>12. CASE cli[c].state = "FINWAIT" /\ m.type = "FINACK" /\ m.num = cli[c].next
  <2> DEFINE p == [cli[c] EXCEPT !.state = "CLOSED"]
  <2>1. /\ p \in Program /\ p.pc = cli[c].pc /\ p.next = cli[c].next
        /\ p.state = "CLOSED"
    BY <1>2 DEF Program
  <2>2. p.unacked = cli[c].unacked
    BY <1>2 DEF Program
  <2>3. cli' = [cli EXCEPT ![c] = p]
    BY <1>12 DEF ClientHandles, m
  <2> HIDE DEF p
  <2> QED
    BY <1>7, <1>9, <1>10, <1>12, <2>1, <2>2, <2>3
<1>13. CASE cli[c].state \in {"CONNECTED", "FINWAIT"} /\ m.type = "DATAACK"
              /\ m.num = cli[c].next
  <2> DEFINE p == [cli[c] EXCEPT !.unacked = FALSE]
  <2>1. /\ p \in Program /\ p.pc = cli[c].pc /\ p.next = cli[c].next
        /\ p.state = cli[c].state
    BY <1>2 DEF Program
  <2>2. p.unacked = FALSE
    BY <1>2 DEF Program
  <2>3. cli' = [cli EXCEPT ![c] = p]
    BY <1>13 DEF ClientHandles, m
  <2>4. cli[c].pc # "none" => cli[c].next = taken[c]
    BY <1>2, <1>7, <1>10, <1>13
  <2> HIDE DEF p
  <2> QED
    BY <1>8, <1>9, <1>10, <1>13, <2>1, <2>2, <2>3, <2>4
<1>14. CASE cli' = [cli EXCEPT ![c] = cli[c]]
  BY <1>2, <1>8, <1>9, <1>10, <1>14
<1> QED
  BY <1>11, <1>12, <1>13, <1>14 DEF ClientHandles, m

(* A program that starts finds its channels empty and no present TCB.      *)
LEMMA SockStep ==
    ASSUME IInv, NEW c \in Clients, Sock(c)
    PROVE  IInv'
<1> DEFINE p == [NoProgram EXCEPT !.pc = "connect"]
<1>1. /\ Types /\ OneTcb /\ Sessions /\ (~stolen => \A i \in Slots : Owned(i))
      /\ toServer[c] = <<>> /\ toClient[c] = <<>>
      /\ cli' = [cli EXCEPT ![c] = p]
      /\ session' = [session EXCEPT ![c] = @ + 1]
      /\ taken' = [taken EXCEPT ![c] = 0] /\ reused' = reused \ {c}
      /\ UNCHANGED <<tcbtable, close, app, stolen, toServer, toClient, faults>>
  BY DEF Sock, IInv
<1>2. /\ p \in Program /\ p.pc = "connect" /\ p.state = "CLOSED" /\ p.next = 0
      /\ ~p.unacked
  BY DEF NoProgram, Program
<1> HIDE DEF p
<1>3. session[c] \in Nat /\ session[c] + 1 \in Nat
  BY <1>1, ClientTypes
<1>4. cli'[c] = p /\ taken'[c] = 0 /\ session'[c] = session[c] + 1
  BY <1>1 DEF Types
<1>5. Types'
  BY <1>1, <1>2, <1>3 DEF Types
<1>6. OneTcb'
  BY <1>1 DEF OneTcb, Holds
<1>7. ASSUME NEW i \in Slots, Holds(i, c)
      PROVE  tcbtable[i].session \in Nat /\ tcbtable[i].session <= session[c]
  <2>1. tcbtable[i] \in Tcb
    BY <1>1, <1>7 DEF Types, Holds
  <2> QED
    BY <1>1, <1>7, <2>1 DEF Sessions, Tcb
<1>8. ASSUME NEW i \in Slots, Holds(i, c)
      PROVE  tcbtable[i].session <= session[c] + 1 /\ tcbtable[i].session # session[c] + 1
  BY <1>3, <1>7, <1>8
<1>9. Sessions'
  <2> SUFFICES ASSUME NEW d \in Clients, NEW i \in Slots, Holds(i, d)
               PROVE  tcbtable[i].session <= session'[d]
    BY <1>1 DEF Sessions, Holds
  <2>1. CASE d = c
    BY <1>4, <1>8, <2>1
  <2>2. CASE d # c
    BY <1>1, <2>2 DEF Sessions, Types
  <2> QED
    BY <2>1, <2>2
<1>10. ~stolen => \A i \in Slots : Owned(i)'
  BY <1>1 DEF Owned
<1>11. ASSUME NEW d \in Clients \ {c}
       PROVE  Untouched(d)
  <2>1. /\ d \in Clients /\ d # c
        /\ cli'[d] = cli[d] /\ session'[d] = session[d] /\ taken'[d] = taken[d]
    BY <1>1 DEF Types
  <2> QED
    BY <1>1, <2>1 DEF Untouched, Holds
<1>12. Resends(p)
  BY <1>2 DEF Resends
<1>13. ClientWell(c)'
  <2>1. Len(toServer'[c]) = 0 /\ Len(toClient'[c]) = 0
    BY <1>1
  <2>2. /\ ~Answered(p, toClient'[c]) /\ ~Finished(p, toClient'[c])
        /\ ~Has(toServer'[c], "SYN")
    BY <1>2, <2>1 DEF Answered, Finished, Has
  <2>3. Requests(toServer'[c], p) /\ Answers(toClient'[c], p, taken'[c])
    BY <2>1 DEF Requests, Answers
  <2>4. Knows(p, taken'[c])
    BY <1>2, <1>4 DEF Knows
  <2>5. ASSUME NEW i \in Slots, Holds(i, c)'
        PROVE  ~Current(i, c)'
    BY <1>1, <1>4, <1>8, <2>5 DEF Holds, Current
  <2>6. TableServes(c)'
    BY <1>4, <2>2, <2>5 DEF TableServes, SlotServes
  <2> QED
    BY <1>4, <2>2, <2>3, <2>4, <2>6 DEF ClientWell
<1> QED
  BY <1>1, <1>4, <1>5, <1>6, <1>9, <1>10, <1>11, <1>12, <1>13, OneClient

-----------------------------------------------------------------------------
(* The steps of the server's seghandler.                                   *)

(* There is a least number in every set of numbers: a first free slot.     *)
LEMMA LeastNumber ==
    ASSUME NEW S \in SUBSET Nat, S # {}
    PROVE  \E x \in S : \A y \in S : x <= y
<1> DEFINE R == {ss \in Nat \X Nat : ss[1] < ss[2]}
<1>1. IsWellFoundedOn(R, Nat)
  BY NatLessThanWellFounded DEF OpToRel
<1>2. PICK x \in S : \A y \in S : ~(<<y, x>> \in R)
  BY <1>1, WFMin
<1>3. ASSUME NEW y \in S
      PROVE  x <= y
  <2>1. x \in Nat /\ y \in Nat
    OBVIOUS
  <2>2. ~(y < x)
    BY <1>2, <2>1
  <2> HIDE DEF R
  <2> QED
    BY <2>1, <2>2
<1> QED
  BY <1>3

(* Writing the TCB of c, into its slot or into a free one if it had none,  *)
(* keeps one TCB to a client and touches no other client.                  *)
LEMMA OneSlot ==
    ASSUME Types, OneTcb, NEW c \in Clients, NEW i \in Slots, NEW t \in Tcb,
           t.client = c,
           Holds(i, c) \/ (tcbtable[i] = None /\ \A j \in Slots : ~Holds(j, c)),
           tcbtable' = [tcbtable EXCEPT ![i] = t]
    PROVE  /\ tcbtable' \in [Slots -> Tcb \cup {None}] /\ OneTcb'
           /\ tcbtable'[i] = t /\ Holds(i, c)'
           /\ \A j \in Slots : j # i => tcbtable'[j] = tcbtable[j]
           /\ \A j \in Slots : Holds(j, c)' => j = i
           /\ \A d \in Clients \ {c} : \A j \in Slots :
                /\ Holds(j, d)' <=> Holds(j, d)
                /\ Holds(j, d) => tcbtable'[j] = tcbtable[j]
<1>1. tcbtable' \in [Slots -> Tcb \cup {None}] /\ tcbtable'[i] = t
  BY DEF Types
<1>2. \A j \in Slots : j # i => tcbtable'[j] = tcbtable[j]
  BY DEF Types
<1>3. Holds(i, c)'
  <2>1. t # None
    BY NoneAssumption DEF Tcb
  <2> QED
    BY <1>1, <2>1 DEF Holds
<1>4. \A j \in Slots : Holds(j, c)' => j = i
  <2> SUFFICES ASSUME NEW j \in Slots, Holds(j, c)', j # i PROVE FALSE
    OBVIOUS
  <2>1. Holds(j, c)
    BY <1>2 DEF Holds
  <2> QED
    BY <2>1 DEF OneTcb
<1>5. ASSUME NEW d \in Clients \ {c}, NEW j \in Slots
      PROVE  /\ Holds(j, d)' <=> Holds(j, d)
             /\ Holds(j, d) => tcbtable'[j] = tcbtable[j]
  <2>1. CASE j = i
    <3>1. ~Holds(i, d)
      BY <1>5 DEF Holds
    <3>2. ~Holds(i, d)'
      BY <1>1, <1>5 DEF Holds
    <3> QED
      BY <2>1, <3>1, <3>2
  <2>2. CASE j # i
    BY <1>2, <2>2 DEF Holds
  <2> QED
    BY <2>1, <2>2
<1>6. OneTcb'
  <2> SUFFICES ASSUME NEW d \in Clients, NEW j \in Slots, NEW k \in Slots,
                      Holds(j, d)', Holds(k, d)'
               PROVE  j = k
    BY DEF OneTcb
  <2>1. CASE d = c
    BY <1>4, <2>1
  <2>2. CASE d # c
    BY <1>5, <2>2 DEF OneTcb
  <2> QED
    BY <2>1, <2>2
<1> QED
  BY <1>1, <1>2, <1>3, <1>4, <1>5, <1>6

(* A handler that writes the TCB of c keeps the invariant when what it     *)
(* writes suits the slot, the session and the client.                      *)
LEMMA HandlerWrites ==
    ASSUME IInv, NEW c \in Clients, NEW i \in Slots, NEW t \in Tcb,
           t.client = c, t.session <= session[c],
           Holds(i, c) \/ (tcbtable[i] = None /\ \A j \in Slots : ~Holds(j, c)),
           tcbtable' = [tcbtable EXCEPT ![i] = t],
           UNCHANGED <<close, app, stolen, cli, session>>,
           toServer' \in [Clients -> Seq(Request)],
           toClient' \in [Clients -> Seq(Answer)],
           taken' \in [Clients -> Nat],
           reused \ {c} = reused' \ {c}, reused' \subseteq Clients,
           \A d \in Clients \ {c} : /\ toServer'[d] = toServer[d] /\ toClient'[d] = toClient[d]
                                    /\ taken'[d] = taken[d],
           ~stolen => Owned(i)',
           cli[c].pc # "none" => ClientWell(c)'
    PROVE  IInv'
<1>1. /\ Types /\ OneTcb /\ Sessions /\ (~stolen => \A j \in Slots : Owned(j))
      /\ Resends(cli[c])
  BY DEF IInv
<1>2. /\ tcbtable' \in [Slots -> Tcb \cup {None}] /\ OneTcb'
      /\ tcbtable'[i] = t /\ Holds(i, c)'
      /\ \A j \in Slots : j # i => tcbtable'[j] = tcbtable[j]
      /\ \A j \in Slots : Holds(j, c)' => j = i
      /\ \A d \in Clients \ {c} : \A j \in Slots :
           /\ Holds(j, d)' <=> Holds(j, d)
           /\ Holds(j, d) => tcbtable'[j] = tcbtable[j]
  BY <1>1, OneSlot
<1>3. Types'
  BY <1>1, <1>2 DEF Types
<1>4. Sessions'
  <2> SUFFICES ASSUME NEW d \in Clients, NEW j \in Slots, Holds(j, d)'
               PROVE  tcbtable'[j].session <= session[d]
    BY DEF Sessions
  <2>1. CASE d = c
    BY <1>2, <2>1
  <2>2. CASE d # c
    BY <1>1, <1>2, <2>2 DEF Sessions
  <2> QED
    BY <2>1, <2>2
<1>5. ASSUME ~stolen, NEW j \in Slots
      PROVE  Owned(j)'
  <2>1. CASE j = i
    BY <1>5, <2>1
  <2>2. CASE j # i
    <3>1. tcbtable'[j] = tcbtable[j] /\ Owned(j)
      BY <1>1, <1>2, <1>5, <2>2
    <3> QED
      BY <3>1 DEF Owned
  <2> QED
    BY <2>1, <2>2
<1>6. ASSUME NEW d \in Clients \ {c}
      PROVE  Untouched(d)
  BY <1>2 DEF Untouched
<1> QED
  BY <1>1, <1>2, <1>3, <1>4, <1>5, <1>6, OneClient

(* The table serves c when its one slot does.                              *)
LEMMA OneSlotServes ==
    ASSUME NEW c \in Clients, NEW i \in Slots, Holds(i, c)',
           \A j \in Slots : Holds(j, c)' => j = i,
           SlotServes(i, c)',
           Open(cli'[c]) /\ c \notin reused' /\ Answered(cli'[c], toClient'[c])
             => tcbtable'[i].state = "CONNECTED"
    PROVE  TableServes(c)'
  BY DEF TableServes

(* A client that is answered with e.                                       *)
LEMMA Replies ==
    ASSUME Types, NEW c \in Clients, NEW e \in Answer,
           toClient' = [toClient EXCEPT ![c] = Append(@, e)]
    PROVE  /\ toClient' \in [Clients -> Seq(Answer)]
           /\ toClient'[c] = Append(toClient[c], e)
           /\ \A d \in Clients \ {c} : toClient'[d] = toClient[d]
           /\ \A t : Has(toClient'[c], t) => Has(toClient[c], t) \/ e.type = t
<1>1. toClient[c] \in Seq(Answer) /\ Append(toClient[c], e) \in Seq(Answer)
  BY ClientTypes, AppendElements
<1>2. toClient'[c] = Append(toClient[c], e)
  BY DEF Types
<1>3. \A t : Has(toClient'[c], t) => Has(toClient[c], t) \/ e.type = t
  BY <1>1, <1>2, HasAppend
<1> QED
  BY <1>1, <1>2, <1>3 DEF Types

(* A segment of an unknown client makes a TCB in CLOSED, if a slot is free, *)
(* and is dropped.                                                         *)
LEMMA NewTcbStep ==
    ASSUME IInv, NEW c \in Clients, NewTcb(c)
    PROVE  IInv'
<1> DEFINE free == {i \in Slots : tcbtable[i] = None}
           first == CHOOSE i \in free : \A j \in free : i <= j
           t == [client |-> c, state |-> "CLOSED",
                 expect |-> Head(toServer[c]).num, session |-> session[c]]
<1>1. /\ Types /\ (~stolen => \A i \in Slots : Owned(i))
      /\ (cli[c].pc # "none" => ClientWell(c))
      /\ toServer[c] # <<>> /\ toServer' = [toServer EXCEPT ![c] = Tail(@)]
      /\ UNCHANGED <<close, app, stolen, taken, reused, cli, session, toClient, faults>>
  BY DEF NewTcb, Handles, IInv
<1>2. \A j \in Slots : ~Holds(j, c)
  BY DEF NewTcb, Unknown, SlotsOf, Holds
<1>3. CASE free = {}
  <2>1. tcbtable' = tcbtable
    BY <1>3 DEF NewTcb
  <2> QED
    BY <1>1, <2>1, DropStep DEF server
<1>4. CASE free # {}
  <2>1. first \in free
    <3>1. free \in SUBSET Nat
      BY TcbTableAssumption DEF Slots
    <3> HIDE DEF free
    <3> QED
      BY <1>4, <3>1, LeastNumber
  <2>2. tcbtable' = [tcbtable EXCEPT ![first] = t]
    BY <1>4 DEF NewTcb
  <2>3. PICK i \in Slots : tcbtable[i] = None /\ tcbtable' = [tcbtable EXCEPT ![i] = t]
    BY <2>1, <2>2
  <2> HIDE DEF first, free
  <2>4. /\ toServer[c] \in Seq(Request) /\ toClient[c] \in Seq(Answer)
        /\ cli[c] \in Program /\ session[c] \in Nat
    BY <1>1, ClientTypes
  <2>5. Head(toServer[c]) \in Request
    BY <1>1, <2>4, TailElements
  <2>6. /\ t \in Tcb /\ t.client = c /\ t.state = "CLOSED" /\ t.session = session[c]
    BY <2>4, <2>5 DEF Tcb, Request
  <2> HIDE DEF t
  <2>7. /\ tcbtable'[i] = t /\ Holds(i, c)'
        /\ \A j \in Slots : Holds(j, c)' => j = i
    BY <1>1, <1>2, <2>3, <2>6, OneSlot DEF IInv
  <2>8. /\ toServer' \in [Clients -> Seq(Request)]
        /\ \A d \in Clients \ {c} : toServer'[d] = toServer[d]
        /\ \A type : Has(toServer'[c], type) => Has(toServer[c], type)
        /\ \A p : Requests(toServer[c], p) => Requests(toServer'[c], p)
    BY <1>1, RequestTaken
  <2>9. ASSUME ~stolen
        PROVE  Owned(i)'
    <3>1. Owned(i) /\ app[i] \in Nat
      BY <1>1, <2>3, <2>9 DEF Types
    <3>2. app[i] = 0 /\ close[i] = "no"
      BY <2>3, <3>1 DEF Owned
    <3> QED
      BY <1>1, <2>6, <2>7, <3>2 DEF Owned
  <2>10. ASSUME cli[c].pc # "none"
         PROVE  ClientWell(c)'
    <3>1. SlotServes(i, c)'
      BY <1>1, <2>6, <2>7 DEF SlotServes, Current
    <3>2. ~(Open(cli[c]) /\ c \notin reused /\ Answered(cli[c], toClient[c]))
      BY <1>1, <1>2, <2>10 DEF ClientWell, TableServes
    <3>3. TableServes(c)'
      BY <1>1, <2>3, <2>7, <3>1, <3>2, OneSlotServes
    <3> QED
      BY <1>1, <2>8, <2>10, <3>3 DEF ClientWell
  <2>11. toClient' \in [Clients -> Seq(Answer)] /\ taken' \in [Clients -> Nat]
         /\ reused' \subseteq Clients /\ t.session <= session[c]
    BY <1>1, <2>4, <2>6 DEF Types
  <2> QED
    BY <1>1, <1>2, <2>3, <2>6, <2>8, <2>9, <2>10, <2>11, HandlerWrites
<1> QED
  BY <1>3, <1>4

(* SYN: the connection starts anew, with the number of the SYN.            *)
LEMMA HandleSynStep ==
    ASSUME IInv, NEW c \in Clients, NEW i \in Slots, Holds(i, c), HandleSyn(i, c)
    PROVE  IInv'
<1> DEFINE m == Head(toServer[c])
           t == [tcbtable[i] EXCEPT !.state = "CONNECTED", !.session = session[c],
                                    !.expect = m.num]
           e == [type |-> "SYNACK", num |-> m.num]
<1>1. /\ Types /\ OneTcb /\ (~stolen => \A j \in Slots : Owned(j))
      /\ (cli[c].pc # "none" => ClientWell(c))
      /\ toServer[c] # <<>> /\ toServer' = [toServer EXCEPT ![c] = Tail(@)]
      /\ m.type = "SYN" /\ tcbtable[i].state \in {"LISTENING", "CONNECTED", "CLOSEWAIT"}
      /\ reused' = IF tcbtable[i].state # "LISTENING" /\ tcbtable[i].session # session[c]
                   THEN reused \cup {c} ELSE reused
      /\ toClient' = [toClient EXCEPT ![c] = Append(@, e)]
      /\ UNCHANGED <<close, app, stolen, taken, cli, session, faults>>
  BY DEF HandleSyn, Handles, Reply, Seg, IInv
<1>2. /\ toServer[c] \in Seq(Request) /\ toClient[c] \in Seq(Answer)
      /\ cli[c] \in Program /\ session[c] \in Nat /\ taken[c] \in Nat
  BY <1>1, ClientTypes
<1>3. m \in Request /\ m.num \in Nat
  <2>1. m \in Request
    BY <1>1, <1>2, TailElements
  <2> QED
    BY <2>1 DEF Request
<1>4. tcbtable[i] \in Tcb /\ tcbtable[i].client = c
  BY <1>1 DEF Types, Holds
<1>5. /\ t \in Tcb /\ t.client = c /\ t.state = "CONNECTED" /\ t.session = session[c]
      /\ t.expect = m.num
  BY <1>2, <1>3, <1>4 DEF Tcb
<1>6. e \in Answer /\ e.type = "SYNACK"
  BY <1>3 DEF Answer
<1>7. tcbtable' = [tcbtable EXCEPT ![i] = t]
  BY <1>4 DEF HandleSyn
<1> HIDE DEF m, t, e
<1>8. /\ tcbtable'[i] = t /\ Holds(i, c)'
      /\ \A j \in Slots : Holds(j, c)' => j = i
  BY <1>1, <1>5, <1>7, OneSlot
<1>9. /\ toServer' \in [Clients -> Seq(Request)]
      /\ \A d \in Clients \ {c} : toServer'[d] = toServer[d]
      /\ \A type : Has(toServer'[c], type) => Has(toServer[c], type)
      /\ \A p : Requests(toServer[c], p) => Requests(toServer'[c], p)
  BY <1>1, RequestTaken
<1>10. /\ toClient' \in [Clients -> Seq(Answer)]
       /\ toClient'[c] = Append(toClient[c], e)
       /\ \A d \in Clients \ {c} : toClient'[d] = toClient[d]
       /\ \A type : Has(toClient'[c], type) => Has(toClient[c], type) \/ e.type = type
  BY <1>1, <1>6, Replies
<1>11. ASSUME ~stolen
       PROVE  Owned(i)'
  BY <1>1, <1>4, <1>5, <1>8, <1>11 DEF Owned, Holds
<1>12. ASSUME cli[c].pc # "none"
       PROVE  ClientWell(c)'
  <2>1. ClientWell(c) /\ SlotServes(i, c)
    BY <1>1, <1>12 DEF ClientWell, TableServes
  <2>2. Has(toServer[c], "SYN") /\ m.num = 0
    BY <1>1, <1>2, <2>1, FirstRequest DEF ClientWell, m
  <2>3. taken[c] = 0 /\ ~Finished(cli[c], toClient[c])
    BY <2>1, <2>2 DEF ClientWell
  <2>4. ~Finished(cli[c], toClient'[c])
    BY <1>6, <1>10, <2>3 DEF Finished
  <2>5. Answers(toClient'[c], cli[c], taken[c])
    <3>1. taken[c] <= taken[c] /\ Answers(toClient[c], cli[c], taken[c])
      BY <1>2, <2>1 DEF ClientWell
    <3>2. e.type # "DATAACK" /\ e.type # "FINACK"
      BY <1>6
    <3> QED
      BY <1>2, <1>6, <1>10, <3>1, <3>2, AnswersAppend
  <2>6. ASSUME Open(cli[c]), c \notin reused', ~stolen
        PROVE  close[i] \in {"no", "grace"}
    <3>1. CASE tcbtable[i].state = "LISTENING"
      BY <1>1, <2>6, <3>1 DEF Owned, Holds
    <3>2. CASE tcbtable[i].state # "LISTENING"
      <4>1. Current(i, c) /\ c \notin reused
        BY <1>1, <2>6, <3>2 DEF Current
      <4> QED
        BY <1>1, <2>1, <2>6, <3>2, <4>1 DEF SlotServes
    <3> QED
      BY <3>1, <3>2
  <2>7. SlotServes(i, c)'
    BY <1>1, <1>5, <1>8, <2>2, <2>3, <2>4, <2>6 DEF SlotServes, Current
  <2>8. TableServes(c)'
    BY <1>1, <1>5, <1>8, <2>7, OneSlotServes
  <2> QED
    BY <1>1, <1>9, <2>1, <2>3, <2>4, <2>5, <2>8 DEF ClientWell
<1>13. /\ taken' \in [Clients -> Nat] /\ reused' \subseteq Clients
       /\ reused \ {c} = reused' \ {c} /\ t.session <= session[c]
       /\ \A d \in Clients \ {c} : taken'[d] = taken[d]
  BY <1>1, <1>2, <1>5 DEF Types
<1> QED
  BY <1>1, <1>5, <1>7, <1>9, <1>10, <1>11, <1>12, <1>13, HandlerWrites

(* FIN: what comes from then on is not of this connection.                 *)
LEMMA HandleFinStep ==
    ASSUME IInv, NEW c \in Clients, NEW i \in Slots, Holds(i, c), HandleFin(i, c)
    PROVE  IInv'
<1> DEFINE m == Head(toServer[c])
           t == [tcbtable[i] EXCEPT !.state = "CLOSEWAIT"]
           e == [type |-> "FINACK", num |-> tcbtable[i].expect]
<1>1. /\ Types /\ OneTcb /\ Sessions /\ (~stolen => \A j \in Slots : Owned(j))
      /\ (cli[c].pc # "none" => ClientWell(c))
      /\ toServer[c] # <<>> /\ toServer' = [toServer EXCEPT ![c] = Tail(@)]
      /\ m.type = "FIN" /\ tcbtable[i].state \in {"CONNECTED", "CLOSEWAIT"}
      /\ toClient' = [toClient EXCEPT ![c] = Append(@, e)]
      /\ UNCHANGED <<close, app, stolen, taken, reused, cli, session, faults>>
  BY DEF HandleFin, Handles, FinFits, Reply, Seg, IInv
<1>2. /\ toServer[c] \in Seq(Request) /\ toClient[c] \in Seq(Answer)
      /\ cli[c] \in Program /\ session[c] \in Nat /\ taken[c] \in Nat
  BY <1>1, ClientTypes
<1>3. /\ tcbtable[i] \in Tcb /\ tcbtable[i].client = c /\ tcbtable[i].expect \in Nat
      /\ tcbtable[i].session <= session[c]
  BY <1>1 DEF Types, Holds, Sessions, Tcb
<1>4. /\ t \in Tcb /\ t.client = c /\ t.state = "CLOSEWAIT"
      /\ t.session = tcbtable[i].session /\ t.expect = tcbtable[i].expect
  BY <1>3 DEF Tcb
<1>5. e \in Answer /\ e.type = "FINACK"
  BY <1>3 DEF Answer
<1>6. tcbtable' = [tcbtable EXCEPT ![i] = t]
  BY <1>3 DEF HandleFin
<1> HIDE DEF m, t, e
<1>7. /\ tcbtable'[i] = t /\ Holds(i, c)'
      /\ \A j \in Slots : Holds(j, c)' => j = i
  BY <1>1, <1>4, <1>6, OneSlot
<1>8. /\ toServer' \in [Clients -> Seq(Request)]
      /\ \A d \in Clients \ {c} : toServer'[d] = toServer[d]
      /\ \A type : Has(toServer'[c], type) => Has(toServer[c], type)
      /\ \A p : Requests(toServer[c], p) => Requests(toServer'[c], p)
  BY <1>1, RequestTaken
<1>9. /\ toClient' \in [Clients -> Seq(Answer)]
      /\ toClient'[c] = Append(toClient[c], e)
      /\ \A d \in Clients \ {c} : toClient'[d] = toClient[d]
  BY <1>1, <1>5, Replies
<1>10. ASSUME ~stolen
       PROVE  Owned(i)'
  BY <1>1, <1>3, <1>4, <1>7, <1>10 DEF Owned, Holds
<1>11. ASSUME cli[c].pc # "none"
       PROVE  ClientWell(c)'
  <2>1. ClientWell(c) /\ SlotServes(i, c)
    BY <1>1, <1>11 DEF ClientWell, TableServes
  <2>2. cli[c].pc = "disconnect"
    BY <1>1, <1>2, <2>1, FirstRequest DEF ClientWell, m
  <2>3. ~Open(cli[c]) /\ Answered(cli[c], toClient[c])
    BY <2>2 DEF Open, Answered
  <2>4. ~Has(toServer[c], "SYN")
    BY <1>1, <1>2, <2>1, FirstIsSyn DEF ClientWell, m
  <2>5. Answers(toClient'[c], cli[c], taken[c])
    BY <1>2, <1>5, <1>9, <2>1, <2>2, AnswersAppend DEF ClientWell
  <2>6. SlotServes(i, c)'
    BY <1>1, <1>4, <1>7, <2>1, <2>3 DEF SlotServes, Current
  <2>7. TableServes(c)'
    BY <1>1, <1>7, <2>3, <2>6, OneSlotServes
  <2> QED
    BY <1>1, <1>8, <2>1, <2>4, <2>5, <2>7 DEF ClientWell
<1>12. taken' \in [Clients -> Nat] /\ reused' \subseteq Clients
  BY <1>1 DEF Types
<1> QED
  BY <1>1, <1>3, <1>4, <1>6, <1>8, <1>9, <1>10, <1>11, <1>12, HandlerWrites

(* DATA: taken when it is the next, and not twice.                         *)
LEMMA HandleDataStep ==
    ASSUME IInv, NEW c \in Clients, NEW i \in Slots, Holds(i, c), HandleData(i, c)
    PROVE  IInv'
<1> DEFINE m == Head(toServer[c])
           fits == tcbtable[i].expect = m.num
           t == IF fits THEN [tcbtable[i] EXCEPT !.expect = @ + 1] ELSE tcbtable[i]
           n == IF fits THEN taken[c] + 1 ELSE taken[c]
           e == [type |-> "DATAACK", num |-> t.expect]
<1>1. /\ Types /\ OneTcb /\ Sessions /\ (~stolen => \A j \in Slots : Owned(j))
      /\ (cli[c].pc # "none" => ClientWell(c))
      /\ toServer[c] # <<>> /\ toServer' = [toServer EXCEPT ![c] = Tail(@)]
      /\ m.type = "DATA" /\ tcbtable[i].state \in {"CONNECTED", "CLOSEWAIT"}
      /\ UNCHANGED <<close, app, stolen, reused, cli, session, faults>>
  BY DEF HandleData, Handles, IInv
<1>2. /\ toServer[c] \in Seq(Request) /\ toClient[c] \in Seq(Answer)
      /\ cli[c] \in Program /\ cli[c].next \in Nat
      /\ session[c] \in Nat /\ taken[c] \in Nat
  BY <1>1, ClientTypes DEF Program
<1>3. /\ tcbtable[i] \in Tcb /\ tcbtable[i].client = c /\ tcbtable[i].expect \in Nat
      /\ tcbtable[i].session <= session[c]
  BY <1>1 DEF Types, Holds, Sessions, Tcb
<1>4. /\ t \in Tcb /\ t.client = c /\ t.state = tcbtable[i].state
      /\ t.session = tcbtable[i].session
      /\ t.expect = IF fits THEN tcbtable[i].expect + 1 ELSE tcbtable[i].expect
  BY <1>3 DEF Tcb
<1>5. tcbtable' = [tcbtable EXCEPT ![i] = t]
  BY <1>1, <1>3 DEF HandleData, DataFits, Types
<1>6. taken' = [taken EXCEPT ![c] = n]
  BY <1>1 DEF HandleData, DataFits, Types
<1>7. tcbtable'[i] = t
  BY <1>1, <1>5 DEF Types
<1>8. e \in Answer /\ e.type = "DATAACK" /\ e.num = t.expect
  BY <1>4 DEF Answer, Tcb
<1>9. toClient' = [toClient EXCEPT ![c] = Append(@, e)]
  BY <1>7 DEF HandleData, Reply, Seg
<1>10. n \in Nat /\ taken[c] <= n /\ taken'[c] = n
  BY <1>1, <1>2, <1>6 DEF Types
<1> HIDE DEF t, e
<1>11. /\ Holds(i, c)' /\ \A j \in Slots : Holds(j, c)' => j = i
  BY <1>1, <1>4, <1>5, OneSlot
<1>12. /\ toServer' \in [Clients -> Seq(Request)]
       /\ \A d \in Clients \ {c} : toServer'[d] = toServer[d]
       /\ \A type : Has(toServer'[c], type) => Has(toServer[c], type)
       /\ \A p : Requests(toServer[c], p) => Requests(toServer'[c], p)
  BY <1>1, RequestTaken
<1>13. /\ toClient' \in [Clients -> Seq(Answer)]
       /\ toClient'[c] = Append(toClient[c], e)
       /\ \A d \in Clients \ {c} : toClient'[d] = toClient[d]
       /\ \A type : Has(toClient'[c], type) => Has(toClient[c], type) \/ e.type = type
  BY <1>1, <1>8, <1>9, Replies
<1>14. ASSUME ~stolen
       PROVE  Owned(i)'
  BY <1>1, <1>3, <1>4, <1>7, <1>11, <1>14 DEF Owned, Holds
<1>15. ASSUME cli[c].pc # "none"
       PROVE  ClientWell(c)'
  <2>1. ClientWell(c) /\ SlotServes(i, c)
    BY <1>1, <1>15 DEF ClientWell, TableServes
  <2>2. m.num < cli[c].next /\ cli[c].pc # "connect"
    BY <1>1, <1>2, <2>1, FirstRequest DEF ClientWell
  <2>3. Answered(cli[c], toClient[c])
    BY <1>2, <1>15, <2>2 DEF Answered, Program
  <2>4. tcbtable[i].expect = taken[c] /\ Current(i, c)
    BY <1>1, <2>1, <2>3 DEF SlotServes
  <2>5. t.expect = n
    BY <1>4, <2>4
  <2>6. Knows(cli[c], n)
    BY <1>2, <1>10, <2>1, <2>2, <2>4 DEF ClientWell, Knows
  <2>7. ~Has(toServer[c], "SYN")
    BY <1>1, <1>2, <2>1, FirstIsSyn DEF ClientWell
  <2> HIDE DEF n, m, fits
  <2>8. Answers(toClient'[c], cli[c], n)
    BY <1>2, <1>8, <1>10, <1>13, <2>1, <2>5, AnswersAppend DEF ClientWell
  <2>9. Finished(cli[c], toClient'[c]) => Finished(cli[c], toClient[c])
    BY <1>8, <1>13 DEF Finished
  <2>10. SlotServes(i, c)'
    BY <1>1, <1>4, <1>7, <1>10, <2>1, <2>4, <2>5, <2>9 DEF SlotServes, Current
  <2>11. Open(cli[c]) /\ c \notin reused => tcbtable[i].state = "CONNECTED"
    BY <1>1, <2>1, <2>3 DEF ClientWell, TableServes, OneTcb
  <2>12. TableServes(c)'
    BY <1>1, <1>4, <1>7, <1>11, <2>10, <2>11, OneSlotServes
  <2> QED
    BY <1>1, <1>10, <1>12, <2>1, <2>6, <2>7, <2>8, <2>9, <2>12 DEF ClientWell
<1>16. /\ taken' \in [Clients -> Nat] /\ reused' \subseteq Clients
       /\ \A d \in Clients \ {c} : taken'[d] = taken[d]
       /\ t.session <= session[c]
  BY <1>1, <1>3, <1>4, <1>6, <1>10 DEF Types
<1> HIDE DEF m, fits, n
<1>17. /\ t \in Tcb /\ t.client = c
       /\ UNCHANGED <<close, app, stolen, cli, session>> /\ reused' = reused
  BY <1>1, <1>4
<1>18. /\ toServer' \in [Clients -> Seq(Request)] /\ toClient' \in [Clients -> Seq(Answer)]
       /\ \A d \in Clients \ {c} : /\ toServer'[d] = toServer[d] /\ toClient'[d] = toClient[d]
                                   /\ taken'[d] = taken[d]
  BY <1>12, <1>13, <1>16
<1> QED
  BY <1>5, <1>14, <1>15, <1>16, <1>17, <1>18, HandlerWrites

(* seghandler of the server, whatever it does with a segment.              *)
LEMMA ServerHandlesStep ==
    ASSUME IInv, NEW c \in Clients, ServerHandles(c)
    PROVE  IInv'
<1>1. CASE NewTcb(c)
  BY <1>1, NewTcbStep
<1>2. CASE \E i \in SlotsOf(c) : HandleSyn(i, c) \/ HandleFin(i, c) \/ HandleData(i, c)
                                 \/ Ignore(i, c)
  <2>1. PICK i \in SlotsOf(c) : HandleSyn(i, c) \/ HandleFin(i, c) \/ HandleData(i, c)
                                \/ Ignore(i, c)
    BY <1>2
  <2>2. i \in Slots /\ Holds(i, c)
    BY <2>1 DEF SlotsOf, Holds
  <2>3. CASE Ignore(i, c)
    BY <2>3, DropStep DEF Ignore, Handles
  <2> QED
    BY <2>1, <2>2, <2>3, HandleSynStep, HandleFinStep, HandleDataStep
<1> QED
  BY <1>1, <1>2 DEF ServerHandles

-----------------------------------------------------------------------------
(* The steps of the server program.                                        *)

(* The program touches one slot: it may empty it, or take the state of its *)
(* TCB down, and while accept and close keep apart it leaves a connection  *)
(* alone that nobody closes.                                               *)
LEMMA SlotMoves ==
    ASSUME IInv, NEW i \in Slots, ~stolen,
           UNCHANGED <<taken, reused, cli, session, toServer, toClient>>,
           \A j \in Slots \ {i} : tcbtable'[j] = tcbtable[j] /\ close'[j] = close[j]
                                  /\ app'[j] = app[j],
           tcbtable' \in [Slots -> Tcb \cup {None}],
           close' \in [Slots -> {"no", "grace", "wait", "closed"}],
           app' \in [Slots -> Nat], stolen' \in BOOLEAN,
           tcbtable'[i] # None =>
             /\ tcbtable[i] # None
             /\ tcbtable'[i].client = tcbtable[i].client
             /\ tcbtable'[i].session = tcbtable[i].session
             /\ tcbtable'[i].expect = tcbtable[i].expect
             /\ tcbtable'[i].state = tcbtable[i].state
                  \/ tcbtable'[i].state \in {"CLOSED", "LISTENING"}
             /\ tcbtable'[i].state = "CONNECTED" => close'[i] \in {"no", "grace"},
           tcbtable[i] # None /\ tcbtable[i].state = "CONNECTED" /\ close[i] \in {"no", "grace"}
             => tcbtable'[i] = tcbtable[i],
           ~stolen' => Owned(i)'
    PROVE  IInv'
<1>1. Types /\ OneTcb /\ Sessions /\ \A j \in Slots : Owned(j)
  BY DEF IInv
<1>2. Types'
  BY <1>1 DEF Types
<1>3. ASSUME NEW d \in Clients, NEW j \in Slots, Holds(j, d)'
      PROVE  /\ Holds(j, d)
             /\ tcbtable'[j].session = tcbtable[j].session
             /\ tcbtable'[j].expect = tcbtable[j].expect
             /\ tcbtable'[j].state = tcbtable[j].state
                  \/ tcbtable'[j].state \in {"CLOSED", "LISTENING"}
             /\ \/ tcbtable'[j].state = "CONNECTED" => close'[j] \in {"no", "grace"}
                \/ close'[j] = close[j]
  <2>1. CASE j = i
    BY <1>3, <2>1 DEF Holds
  <2>2. CASE j # i
    BY <1>3, <2>2 DEF Holds
  <2> QED
    BY <2>1, <2>2
<1>4. OneTcb'
  BY <1>1, <1>3 DEF OneTcb
<1>5. Sessions'
  BY <1>1, <1>3 DEF Sessions
<1>6. ASSUME ~stolen', NEW j \in Slots
      PROVE  Owned(j)'
  <2>1. CASE j # i
    BY <1>1, <2>1 DEF Owned
  <2> QED
    BY <1>6, <2>1
<1>7. ASSUME NEW d \in Clients, cli[d].pc # "none"
      PROVE  ClientWell(d)'
  <2>1. ClientWell(d)
    BY <1>7 DEF IInv
  <2>2. ASSUME NEW j \in Slots, Holds(j, d)'
        PROVE  SlotServes(j, d)'
    <3>1. /\ SlotServes(j, d) /\ (Current(j, d)' <=> Current(j, d))
      BY <1>3, <2>1, <2>2 DEF ClientWell, TableServes, Current
    <3> QED
      BY <1>3, <2>2, <3>1 DEF SlotServes
  <2>3. ASSUME Open(cli[d]), d \notin reused, Answered(cli[d], toClient[d])
        PROVE  \E j \in Slots : Holds(j, d)' /\ tcbtable'[j].state = "CONNECTED"
    <3>1. PICK j \in Slots : Holds(j, d) /\ tcbtable[j].state = "CONNECTED"
      BY <2>1, <2>3 DEF ClientWell, TableServes
    <3>2. SlotServes(j, d)
      BY <2>1, <3>1 DEF ClientWell, TableServes
    <3>3. close[j] \in {"no", "grace"}
      BY <2>3, <3>1, <3>2 DEF SlotServes
    <3>4. tcbtable'[j] = tcbtable[j]
      BY <3>1, <3>3 DEF Holds
    <3> QED
      BY <3>1, <3>4 DEF Holds
  <2>4. TableServes(d)'
    BY <2>2, <2>3 DEF TableServes
  <2> QED
    BY <2>1, <2>4 DEF ClientWell
<1>8. \A d \in Clients : Resends(cli'[d]) /\ (cli'[d].pc # "none" => ClientWell(d)')
  BY <1>7 DEF IInv
<1> QED
  BY <1>2, <1>4, <1>5, <1>6, <1>8 DEF IInv

(* accept takes a TCB in CLOSED; unless a close is half done it is nobody's. *)
LEMMA AcceptStep ==
    ASSUME IInv, NEW i \in Slots, Accept(i)
    PROVE  IInv'
<1> DEFINE t == [tcbtable[i] EXCEPT !.state = "LISTENING"]
<1>1. /\ Types /\ Owned(i) /\ ~stolen
      /\ tcbtable[i] # None /\ tcbtable[i].state = "CLOSED"
      /\ app' = [app EXCEPT ![i] = @ + 1]
      /\ stolen' = (close[i] = "closed")
      /\ UNCHANGED <<close, taken, reused, cli, session, toServer, toClient>>
  BY DEF Accept, Acceptable, IInv
<1>2. tcbtable[i] \in Tcb /\ app[i] \in Nat
  BY <1>1 DEF Types
<1>3. /\ t \in Tcb /\ t.state = "LISTENING" /\ t.client = tcbtable[i].client
      /\ t.session = tcbtable[i].session /\ t.expect = tcbtable[i].expect
  BY <1>2 DEF Tcb
<1>4. tcbtable' = [tcbtable EXCEPT ![i] = t]
  BY <1>2 DEF Accept
<1> HIDE DEF t
<1>5. /\ tcbtable' \in [Slots -> Tcb \cup {None}] /\ tcbtable'[i] = t
      /\ app' \in [Slots -> Nat] /\ app'[i] = app[i] + 1
      /\ \A j \in Slots \ {i} : tcbtable'[j] = tcbtable[j] /\ app'[j] = app[j]
  BY <1>1, <1>2, <1>3, <1>4 DEF Types
<1>6. t # None
  BY <1>3, NoneAssumption DEF Tcb
<1>7. ASSUME ~stolen'
      PROVE  Owned(i)'
  <2>1. app[i] = 0 /\ close[i] = "no"
    <3>1. app[i] # 1
      BY <1>1, <1>7 DEF Owned
    <3> QED
      BY <1>1, <1>2, <3>1 DEF Owned
  <2> QED
    BY <1>1, <1>3, <1>5, <1>6, <2>1 DEF Owned
<1>8. close' \in [Slots -> {"no", "grace", "wait", "closed"}] /\ stolen' \in BOOLEAN
  BY <1>1 DEF Types
<1> QED
  BY <1>1, <1>3, <1>5, <1>7, <1>8, SlotMoves

(* close goes on only with what is not, or no longer, connected.           *)
LEMMA CloseStep ==
    ASSUME IInv, NEW i \in Slots, Close(i)
    PROVE  IInv'
<1>1. /\ Types /\ Owned(i) /\ ~stolen
      /\ UNCHANGED <<stolen, taken, reused, cli, session, toServer, toClient>>
  BY DEF Close, Closing, IInv
<1>2. /\ app[i] \in Nat /\ close[i] \in {"no", "grace", "wait", "closed"}
      /\ tcbtable[i] # None => tcbtable[i] \in Tcb
  BY <1>1 DEF Types
<1>3. app[i] = 1 /\ tcbtable[i] # None
  <2>1. app[i] # 0
    BY <1>1 DEF Close, Closing, Owned
  <2> QED
    BY <1>1, <1>2, <2>1 DEF Owned
<1>4. PICK to \in {"no", "grace", "wait", "closed"} : close' = [close EXCEPT ![i] = to]
  BY DEF Close, Closing
<1>5. /\ close' \in [Slots -> {"no", "grace", "wait", "closed"}] /\ close'[i] = to
      /\ \A j \in Slots \ {i} : close'[j] = close[j]
  BY <1>1, <1>4 DEF Types
<1>6. CASE tcbtable' = tcbtable /\ app' = app /\ close[i] \in {"no", "grace"}
           /\ to = (IF MayClose(i) THEN "wait" ELSE "grace")
  <2>1. tcbtable[i].state # "CLOSED"
    BY <1>1, <1>3, <1>6 DEF Owned
  <2>2. Owned(i)'
    BY <1>1, <1>3, <1>5, <1>6, <2>1 DEF Owned, MayClose
  <2>3. /\ tcbtable' \in [Slots -> Tcb \cup {None}] /\ app' \in [Slots -> Nat]
        /\ stolen' \in BOOLEAN
    BY <1>1, <1>6 DEF Types
  <2>4. tcbtable[i].state = "CONNECTED" => to \in {"no", "grace"}
    BY <1>6 DEF MayClose
  <2> QED
    BY <1>1, <1>3, <1>5, <1>6, <2>2, <2>3, <2>4, SlotMoves
<1>7. CASE tcbtable' = tcbtable /\ app' = [app EXCEPT ![i] = @ - 1] /\ to = "no"
  <2>1. /\ tcbtable' \in [Slots -> Tcb \cup {None}] /\ app' \in [Slots -> Nat]
        /\ stolen' \in BOOLEAN /\ app'[i] = 0
        /\ \A j \in Slots \ {i} : app'[j] = app[j]
    BY <1>1, <1>3, <1>7 DEF Types
  <2>2. Owned(i)'
    BY <1>5, <1>7, <2>1 DEF Owned
  <2> QED
    BY <1>1, <1>3, <1>5, <1>7, <2>1, <2>2, SlotMoves
<1>8. CASE close[i] = "wait" /\ to = "closed" /\ app' = app
           /\ tcbtable' = [tcbtable EXCEPT ![i].state = "CLOSED"]
  <2> DEFINE t == [tcbtable[i] EXCEPT !.state = "CLOSED"]
  <2>1. /\ t \in Tcb /\ t.state = "CLOSED" /\ t.client = tcbtable[i].client
        /\ t.session = tcbtable[i].session /\ t.expect = tcbtable[i].expect
    BY <1>2, <1>3 DEF Tcb
  <2>2. tcbtable' = [tcbtable EXCEPT ![i] = t]
    BY <1>8
  <2> HIDE DEF t
  <2>3. t # None
    BY <2>1, NoneAssumption DEF Tcb
  <2>4. /\ tcbtable' \in [Slots -> Tcb \cup {None}] /\ app' \in [Slots -> Nat]
        /\ stolen' \in BOOLEAN /\ tcbtable'[i] = t
        /\ \A j \in Slots \ {i} : tcbtable'[j] = tcbtable[j]
    BY <1>1, <1>8, <2>1, <2>2 DEF Types
  <2>5. Owned(i)'
    BY <1>3, <1>5, <1>8, <2>1, <2>3, <2>4 DEF Owned
  <2> QED
    BY <1>1, <1>3, <1>5, <1>8, <2>1, <2>4, <2>5, SlotMoves
<1>9. CASE close[i] = "closed" /\ to = "no" /\ app' = [app EXCEPT ![i] = @ - 1]
           /\ tcbtable' = [tcbtable EXCEPT ![i] = None]
  <2>1. /\ tcbtable' \in [Slots -> Tcb \cup {None}] /\ app' \in [Slots -> Nat]
        /\ stolen' \in BOOLEAN /\ tcbtable'[i] = None /\ app'[i] = 0
        /\ \A j \in Slots \ {i} : tcbtable'[j] = tcbtable[j] /\ app'[j] = app[j]
    BY <1>1, <1>3, <1>9 DEF Types
  <2>2. Owned(i)'
    BY <1>5, <1>9, <2>1 DEF Owned
  <2> QED
    BY <1>1, <1>5, <1>9, <2>1, <2>2, SlotMoves
<1>10. close' = [close EXCEPT ![i] = to] /\ close'[i] = to
  BY <1>4, <1>5
<1> QED
  BY <1>5, <1>6, <1>7, <1>8, <1>9, <1>10 DEF Close, Closing

-----------------------------------------------------------------------------
(* The invariant holds, and what follows from it.                          *)

(* Nothing is there yet.                                                   *)
LEMMA InvariantInit ==
    ASSUME Init
    PROVE  IInv
<1>1. Types
  <2>1. <<>> \in Seq(Request) /\ <<>> \in Seq(Answer)
    OBVIOUS
  <2>2. toServer \in [Clients -> Seq(Request)] /\ toClient \in [Clients -> Seq(Answer)]
    BY <2>1 DEF Init
  <2>3. cli \in [Clients -> Program]
    BY NoProgramType DEF Init
  <2>4. /\ tcbtable \in [Slots -> Tcb \cup {None}]
        /\ close \in [Slots -> {"no", "grace", "wait", "closed"}]
        /\ app \in [Slots -> Nat] /\ stolen \in BOOLEAN /\ reused \subseteq Clients
    BY DEF Init
  <2>5. session \in [Clients -> Nat] /\ taken \in [Clients -> Nat]
    BY DEF Init
  <2> QED
    BY <2>2, <2>3, <2>4, <2>5 DEF Types
<1>2. \A c \in Clients : \A i \in Slots : ~Holds(i, c)
  BY DEF Init, Holds
<1>3. OneTcb /\ Sessions
  BY <1>2 DEF OneTcb, Sessions
<1>4. \A i \in Slots : Owned(i)
  BY DEF Init, Owned
<1>5. \A c \in Clients : Resends(cli[c]) /\ cli[c].pc = "none"
  BY NoProgramType DEF Init
<1> QED
  BY <1>1, <1>3, <1>4, <1>5 DEF IInv

(* Every step keeps the invariant.                                         *)
LEMMA InvariantStep ==
    ASSUME IInv, [Next]_vars
    PROVE  IInv'
<1>1. CASE UNCHANGED vars
  <2>1. Types' /\ OneTcb' /\ Sessions' /\ (~stolen' => \A i \in Slots : Owned(i)')
    BY <1>1 DEF IInv, Types, OneTcb, Sessions, Holds, Owned, vars, server
  <2>2. ASSUME NEW c \in Clients
        PROVE  Resends(cli'[c]) /\ (cli'[c].pc # "none" => ClientWell(c)')
    <3>1. Untouched(c) /\ stolen' = stolen /\ cli' = cli
      BY <1>1 DEF Untouched, Holds, vars, server
    <3> QED
      BY <3>1, ClientKept DEF IInv
  <2> QED
    BY <2>1, <2>2 DEF IInv
<1>2. ASSUME NEW c \in Clients,
             \/ Sock(c) \/ SendSyn(c) \/ Connected(c) \/ Send(c) \/ Resend(c)
             \/ Disconnect(c) \/ SendFin(c) \/ Ends(c) \/ Killed(c)
             \/ ClientHandles(c) \/ ServerHandles(c) \/ Lose(c)
      PROVE  IInv'
  BY <1>2, SockStep, SendSynStep, ConnectedStep, SendStep, ResendStep, DisconnectStep,
     SendFinStep, EndStep, ClientHandlesStep, ServerHandlesStep, LoseStep
<1>3. ASSUME NEW i \in Slots, Accept(i) \/ Close(i)
      PROVE  IInv'
  BY <1>3, AcceptStep, CloseStep
<1> QED
  BY <1>1, <1>2, <1>3 DEF Next

(* The inductive invariant holds in every reachable state.                 *)
THEOREM Invariant == Spec => []IInv
<1>1. Init => IInv
  BY InvariantInit
<1>2. IInv /\ [Next]_vars => IInv'
  BY InvariantStep
<1> QED
  BY <1>1, <1>2, PTL DEF Spec

(* The table holds TCBs and NULL, and never two TCBs of one client: what   *)
(* seghandler finds by node and port is the only one (lines 261-306).      *)
THEOREM TypeCorrect == Spec => []TypeOK
<1>1. ASSUME IInv
      PROVE  TypeOK
  <2>1. Types /\ OneTcb
    BY <1>1 DEF IInv
  <2>2. ASSUME NEW i \in Slots
        PROVE  /\ tcbtable[i] # None => tcbtable[i].state \in States
               /\ close[i] \in {"no", "grace", "wait", "closed"} /\ app[i] \in Nat
    <3>1. tcbtable[i] # None => tcbtable[i] \in Tcb
      BY <2>1 DEF Types
    <3> QED
      BY <2>1, <3>1 DEF Types, Tcb, States
  <2>3. ASSUME NEW c \in Clients
        PROVE  cli[c].state \in States
    <3>1. cli[c] \in Program
      BY <2>1 DEF Types
    <3> QED
      BY <3>1 DEF Program, States
  <2>4. ASSUME NEW c \in Clients
        PROVE  Cardinality(SlotsOf(c)) <= 1
    <3>1. CASE SlotsOf(c) = {}
      BY <3>1, FS_EmptySet
    <3>2. CASE SlotsOf(c) # {}
      <4>1. PICK i : i \in SlotsOf(c)
        BY <3>2
      <4>2. SlotsOf(c) = {i}
        BY <2>1, <4>1 DEF SlotsOf, OneTcb, Holds
      <4>3. Cardinality({i}) = 1
        BY FS_Singleton
      <4> QED
        BY <4>2, <4>3
    <3> QED
      BY <3>1, <3>2
  <2> QED
    BY <2>2, <2>3, <2>4 DEF TypeOK
<1> QED
  BY <1>1, Invariant, PTL

(* While accept has not taken a TCB out of a close that is half done, a    *)
(* socket that it has returned is one session's and keeps its TCB until    *)
(* that session closes it (lines 78 and 216-226).                          *)
THEOREM SlotOwned == Spec => []OwnSlot
<1>1. IInv => OwnSlot
  BY DEF IInv, Owned, OwnSlot
<1> QED
  BY <1>1, Invariant, PTL

(* A client whose connect has returned 1 has a TCB in CONNECTED until it   *)
(* disconnects, unless it met its own earlier session's (lines 337-348).   *)
THEOREM ClientServed == Spec => []Served
<1>1. ASSUME IInv, NEW c \in Clients, cli[c].pc = "talk", c \notin reused
      PROVE  \E i \in SlotsOf(c) : tcbtable[i].state = "CONNECTED"
  <2>1. TableServes(c)
    BY <1>1 DEF IInv, ClientWell
  <2>2. \E i \in Slots : Holds(i, c) /\ tcbtable[i].state = "CONNECTED"
    BY <1>1, <2>1 DEF TableServes, Open, Answered
  <2> QED
    BY <2>2 DEF SlotsOf, Holds
<1>2. IInv => Served
  BY <1>1 DEF Served
<1> QED
  BY <1>2, Invariant, PTL

(* What a client holds for acknowledged has been put into a receive buffer *)
(* once, and what it has not sent has not.                                 *)
THEOREM AckedIsTaken == Spec => []AckedTaken
<1>1. ASSUME IInv, NEW c \in Clients, cli[c].pc \in {"talk", "disconnect"}
      PROVE  taken[c] \in (IF cli[c].unacked THEN {cli[c].next - 1, cli[c].next}
                                             ELSE {cli[c].next})
  <2>1. Types /\ Knows(cli[c], taken[c])
    BY <1>1 DEF IInv, ClientWell
  <2>2. cli[c] \in Program /\ taken[c] \in Nat
    BY <2>1, ClientTypes
  <2>3. cli[c].next \in Nat
    BY <2>2 DEF Program
  <2> QED
    BY <2>1, <2>2, <2>3 DEF Knows
<1>2. IInv => AckedTaken
  BY <1>1 DEF AckedTaken
<1> QED
  BY <1>2, Invariant, PTL

(* When disconnect has returned 1 the server does not hold the client for  *)
(* connected any more.                                                     *)
THEOREM FinIsAgreed == Spec => []FinAgreed
<1>1. ASSUME IInv, NEW c \in Clients, cli[c].pc = "disconnect", cli[c].state = "CLOSED",
             NEW i \in SlotsOf(c)
      PROVE  tcbtable[i].state # "CONNECTED"
  <2>1. TableServes(c)
    BY <1>1 DEF IInv, ClientWell
  <2>2. i \in Slots /\ Holds(i, c) /\ Finished(cli[c], toClient[c])
    BY <1>1 DEF SlotsOf, Holds, Finished
  <2> QED
    BY <2>1, <2>2 DEF TableServes, SlotServes
<1>2. IInv => FinAgreed
  BY <1>1 DEF FinAgreed
<1> QED
  BY <1>2, Invariant, PTL
=============================================================================
