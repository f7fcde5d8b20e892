------------------------------- MODULE ImRoom -------------------------------
(***************************************************************************)
(* The instant-messaging room of lab11: IM_server.c, with one GetTask and  *)
(* one GiveTask thread per user and the main thread that accepts them, and *)
(* IM_client.c, with its SendTask and RecvTask.  The same server over TCP  *)
(* is lab03/IM_server.c.                                                   *)
(*                                                                         *)
(* The server threads share one mutex (lock), the condition variable       *)
(* has_message, one message buffer and the list of users.  Taking the      *)
(* mutex is a step of its own, the rest of a critical section and its      *)
(* unlock are one step: whatever unlocks the mutex while another thread    *)
(* holds it (main does, after every accept) is seen in between.            *)
(***************************************************************************)
EXTENDS Integers, Sequences, FiniteSets

CONSTANTS Users,      \* connections of clients, each accepted once
          Names,      \* names a client may enter
          LISTENQ,    \* slots of a user's ring of friends
          MaxTyped,   \* bound: lines typed by all clients together
          Seated,     \* <<user, name>> pairs: who is in the room from the start
          None        \* NULL

ASSUME RoomAssumption ==
  /\ IsFiniteSet(Users) /\ None \notin Users
  /\ LISTENQ \in Nat \ {0}
  /\ MaxTyped \in Nat
  /\ Seated \in Seq(Users \X Names)
  /\ \A i, j \in DOMAIN Seated :
       i # j => Seated[i][1] # Seated[j][1] /\ Seated[i][2] # Seated[j][2]

\* No thread is taken for None.
ASSUME NoneAssumption == None \notin Users \X {"get", "give"}

VARIABLES
  lock,       \* the thread that holds the mutex, or None
  broken,     \* history: the mutex was unlocked while another thread held it
  main,       \* main thread: "accept", or "unlock" after the threads started
  room,       \* the list from head on
  userCount, count,
  msgbuf,     \* [no, kind]: number and first character of the message
  msgid,      \* the user who caused it
  usr,        \* USER structures: state (0: not there), name, fri, fcount
  get,        \* GetTask threads: pc, line read (op, arg), list head read for a login
  give,       \* GiveTask threads: program counter
  toClient,   \* what has been sent to each client and not been read
  cli,        \* clients: state and fname
  typed,      \* lines typed so far
  owed,       \* history: users the message was meant for who lack it
  got,        \* history: number of the last message each user was given
  asked,      \* history: <<m, n>> when the user named m asked the one named n
  lost        \* history: a ring has overwritten the entry of another user

vars == <<lock, broken, main, room, userCount, count, msgbuf, msgid, usr, get,
          give, toClient, cli, typed, owed, got, asked, lost>>
clients == <<cli, typed>>

Slots == 0 .. LISTENQ - 1
Idle == [pc |-> "recv", op |-> "none", arg |-> None, p |-> None]
NoUser == [state |-> 0, name |-> None, fri |-> [i \in Slots |-> None], fcount |-> 0]
Getter(u) == <<u, "get">>
Giver(u) == <<u, "give">>

\* stcp_server_send: a message put into u's socket.  RecvTask only prints what
\* is no request, so such a message is kept only while SendTask reads the socket.
Sent(u, kind, from) ==
  IF cli[u].state \in {"name", "reply"} \/ (cli[u].state = "talk" /\ kind = "$")
  THEN [toClient EXCEPT ![u] = Append(@, [kind |-> kind, from |-> from])]
  ELSE toClient

\* pthread_cond_broadcast: every thread in the wait set becomes runnable.
Broadcast == [u \in Users |-> IF give[u] = "waiting" THEN "woken" ELSE give[u]]

\* Mutant: the mutex is not looked at.
MutexNotTaken == TRUE

\* The mutex can be taken.
MutexFree == lock = None

\* The mutex is released whoever holds it; thread is the one that should.
UnlockBy(thread) == /\ lock' = None
                    /\ broken' = (broken \/ lock \notin {None, thread})

InRoom == {room[i] : i \in DOMAIN room}

\* Users who count as present: in the list and not quitting.
Present == {u \in InRoom : usr[u].state # 4}

\* The first user of that name from head on; None if there is no such user.
Find(name) ==
  LET hits == {i \in DOMAIN room : usr[room[i]].name = name}
  IN  IF hits = {} THEN None ELSE room[CHOOSE i \in hits : \A j \in hits : i <= j]

\* The users of Seated have logged in and wait for messages: the room between
\* two messages.  With Seated = <<>> this is the start of the program.
Init ==
  LET seat(u) == {i \in DOMAIN Seated : Seated[i][1] = u}
      seated(u) == seat(u) # {}
      name(u) == Seated[CHOOSE i \in seat(u) : TRUE][2]
  IN
  /\ lock = None /\ broken = FALSE /\ main = "accept"
  /\ room = [i \in DOMAIN Seated |-> Seated[i][1]]
  /\ userCount = Len(Seated) /\ count = 0
  /\ msgbuf = [no |-> 0, kind |-> "none"] /\ msgid = None
  /\ usr = [u \in Users |-> IF seated(u)
                             THEN [NoUser EXCEPT !.state = 2, !.name = name(u)]
                             ELSE NoUser]
  /\ get = [u \in Users |-> [Idle EXCEPT !.pc = IF seated(u) THEN "recv" ELSE "none"]]
  /\ give = [u \in Users |-> IF seated(u) THEN "waiting" ELSE "none"]
  /\ toClient = [u \in Users |-> <<>>]
  /\ cli = [u \in Users |-> [state |-> IF seated(u) THEN "talk" ELSE "name",
                             fname |-> None]]
  /\ typed = 0 /\ owed = {} /\ got = [u \in Users |-> 0]
  /\ asked = {} /\ lost = FALSE

----------------------------------------------------------------------------
(* main of the server *)

Accept(u) ==
  /\ main = "accept" /\ get[u].pc = "none"
  /\ usr' = [usr EXCEPT ![u] = [NoUser EXCEPT !.state = 1]]
  /\ get' = [get EXCEPT ![u].pc = "recv"]
  /\ give' = [give EXCEPT ![u] = "loop"]
  /\ main' = "unlock"
  /\ UNCHANGED <<lock, broken, room, userCount, count, msgbuf, msgid, toClient,
                 owed, got, asked, lost, clients>>

\* pthread_mutex_unlock(&lock) by a thread that never locked it.
MainUnlock ==
  /\ main = "unlock"
  /\ UnlockBy(None)
  /\ main' = "accept"
  /\ UNCHANGED <<room, userCount, count, msgbuf, msgid, usr, get, give, toClient,
                 owed, got, asked, lost, clients>>

----------------------------------------------------------------------------
(* GetTask: reads a line of the client and acts upon it *)

\* GetTask reads line op/arg of its client: one round of the loop up to the
\* point where the mutex is needed.  A line that the state does not allow and a
\* request to oneself are dropped; 4 before the login ends the thread.
Read(u, op, arg) ==
  LET acts == \/ usr[u].state = 1 /\ op = "1"
              \/ usr[u].state = 2 /\ op # "1" /\ ~(op = "$" /\ arg = usr[u].name)
      ends == usr[u].state = 1 /\ op = "4"
  IN
  /\ get[u].pc = "recv" /\ typed < MaxTyped
  /\ typed' = typed + 1
  /\ get' = [get EXCEPT ![u] =
               CASE acts -> [pc |-> "enter", op |-> op, arg |-> arg,
                             p |-> IF op = "1" /\ room # <<>> THEN Head(room) ELSE None]
                 [] ends -> [Idle EXCEPT !.pc = "done"]
                 [] OTHER -> Idle]
  /\ usr' = [usr EXCEPT ![u].name = IF acts /\ op = "1" THEN arg ELSE @,
                        ![u].state = IF ends THEN 5 ELSE @]
  /\ UNCHANGED <<lock, broken, main, room, userCount, count, msgbuf, msgid, give,
                 owed, got, asked, lost>>

\* Mutant: off by one.
MayEnterEarly(u) == get[u].op \in {"1", "2", "4"} => count <= 1

\* Whoever is about to write the buffer tries until count is 0.
MayEnter(u) == get[u].op \in {"1", "2", "4"} => count <= 0

\* Takes the mutex.
Enter(u) ==
  /\ get[u].pc = "enter" /\ MutexFree /\ MayEnter(u)
  /\ lock' = Getter(u)
  /\ get' = [get EXCEPT ![u].pc = "section"]
  /\ UNCHANGED <<broken, main, room, userCount, count, msgbuf, msgid, usr, give,
                 toClient, owed, got, asked, lost, clients>>

\* Mutant: off by one, whoever speaks is counted with the others.
PostToAll(u, kind, n) ==
  /\ count' = n + 1
  /\ msgbuf' = [no |-> msgbuf.no + 1, kind |-> kind]
  /\ msgid' = u
  /\ give' = Broadcast
  /\ owed' = Present \ {u}

\* Writes the buffer and wakes the waiters; n users are to take the message.
Post(u, kind, n) ==
  /\ count' = n
  /\ msgbuf' = [no |-> msgbuf.no + 1, kind |-> kind]
  /\ msgid' = u
  /\ give' = Broadcast
  /\ owed' = Present \ {u}

InSection(u, op) == get[u].pc = "section" /\ get[u].op = op
LeaveTo(u, pc) == /\ get' = [get EXCEPT ![u] = [Idle EXCEPT !.pc = pc]]
                  /\ UnlockBy(Getter(u))

\* The users a login compares its name with: the list from p on, p read before
\* the wait.  When p has been freed meanwhile the walk may find anything.
SeenFrom(p) == {room[j] : j \in {k \in DOMAIN room :
                                   \E i \in 1 .. k : room[i] = p}}
NameTaken(u) == \E v \in SeenFrom(get[u].p) : usr[v].name = usr[u].name
Dangling(p) == p # None /\ p \notin InRoom

LogIn(u) ==
  /\ InSection(u, "1")
  /\ ~NameTaken(u) \/ Dangling(get[u].p)
  /\ Post(u, "&", userCount)
  /\ room' = <<u>> \o room
  /\ userCount' = userCount + 1
  /\ usr' = [usr EXCEPT ![u].fcount = 0]
  /\ LeaveTo(u, "loggedIn")
  /\ UNCHANGED <<main, toClient, got, asked, lost, clients>>

\* After the section: the state is set first, the client told afterwards.
Welcome(u) ==
  /\ \/ /\ get[u].pc = "loggedIn"
        /\ usr' = [usr EXCEPT ![u].state = 2]
        /\ get' = [get EXCEPT ![u].pc = "welcome"]
        /\ UNCHANGED toClient
     \/ /\ get[u].pc = "welcome"
        /\ toClient' = Sent(u, "2", None)
        /\ get' = [get EXCEPT ![u].pc = "recv"]
        /\ UNCHANGED usr
  /\ UNCHANGED <<lock, broken, main, room, userCount, count, msgbuf, msgid, give,
                 owed, got, asked, lost, clients>>

\* The name is in use: the mutex is released in the loop ...
NameUsed(u) ==
  /\ InSection(u, "1")
  /\ NameTaken(u) \/ Dangling(get[u].p)
  /\ LeaveTo(u, "used")
  /\ UNCHANGED <<main, room, userCount, count, msgbuf, msgid, usr, give, toClient,
                 owed, got, asked, lost, clients>>

\* ... and again behind it, before the client is told.
UnlockAgain(u) ==
  /\ get[u].pc = "used"
  /\ UnlockBy(None)
  /\ toClient' = Sent(u, "1", None)
  /\ get' = [get EXCEPT ![u].pc = "recv"]
  /\ UNCHANGED <<main, room, userCount, count, msgbuf, msgid, usr, give, owed, got,
                 asked, lost, clients>>

Say(u) ==
  /\ InSection(u, "2")
  /\ Post(u, "2", userCount - 1)
  /\ LeaveTo(u, "recv")
  /\ UNCHANGED <<main, room, userCount, usr, toClient, got, asked, lost, clients>>

\* '3': the list of users; '!': the list of friends, read through fri.
ListUsers(u) ==
  /\ InSection(u, "3")
  /\ toClient' = Sent(u, "3", None)
  /\ LeaveTo(u, "recv")
  /\ UNCHANGED <<main, room, userCount, count, msgbuf, msgid, usr, give, owed, got,
                 asked, lost, clients>>

ListFriends(u) ==
  /\ InSection(u, "!")
  /\ toClient' = Sent(u, "!", None)
  /\ LeaveTo(u, "recv")
  /\ UNCHANGED <<main, room, userCount, count, msgbuf, msgid, usr, give, owed, got,
                 asked, lost, clients>>

\* '@': a line for one user.
Whisper(u) ==
  LET q == Find(get[u].arg)
  IN
  /\ InSection(u, "@")
  /\ toClient' = IF q = None THEN toClient ELSE Sent(q, "2", usr[u].name)
  /\ LeaveTo(u, "recv")
  /\ UNCHANGED <<main, room, userCount, count, msgbuf, msgid, usr, give, owed, got,
                 asked, lost, clients>>

\* '$': u asks q to be friends, unless q is in u's ring already.
Befriend(u) ==
  LET q == Find(get[u].arg)
      ask == q # None /\ \A i \in Slots : usr[u].fri[i] # q
  IN
  /\ InSection(u, "$")
  /\ toClient' = IF ask THEN Sent(q, "$", usr[u].name) ELSE toClient
  /\ asked' = IF ask THEN asked \cup {<<usr[u].name, usr[q].name>>} ELSE asked
  /\ LeaveTo(u, "recv")
  /\ UNCHANGED <<main, room, userCount, count, msgbuf, msgid, usr, give, owed, got,
                 lost, clients>>

\* One entry more in u's ring.
Linked(us, u, q) ==
  [us EXCEPT ![u].fri[us[u].fcount] = q, ![u].fcount = (@ + 1) % LISTENQ]

\* ... which takes the place of another user's.
Overwrites(us, u, q) == us[u].fri[us[u].fcount] \notin {None, q}

\* 'y' or 'n': u answers q; a yes enters each into the other's ring.
Answer(u) ==
  LET op == get[u].op
      q == Find(get[u].arg)
      yes == q # None /\ op = "y"
      half == Linked(usr, q, u)
  IN
  /\ get[u].pc = "section" /\ op \in {"y", "n"}
  /\ usr' = IF yes THEN Linked(half, u, q) ELSE usr
  /\ lost' = (lost \/ (yes /\ (Overwrites(usr, q, u) \/ Overwrites(half, u, q))))
  /\ toClient' = IF q = None THEN toClient ELSE Sent(q, op, usr[u].name)
  /\ LeaveTo(u, "recv")
  /\ UNCHANGED <<main, room, userCount, count, msgbuf, msgid, give, owed, got,
                 asked, clients>>

Quit(u) ==
  /\ InSection(u, "4")
  /\ userCount' = userCount - 1
  /\ usr' = [usr EXCEPT ![u].state = 4]
  /\ Post(u, "@", userCount')
  /\ LeaveTo(u, "done")
  /\ UNCHANGED <<main, room, toClient, got, asked, lost, clients>>

GetTask(u) ==
  \/ Enter(u)
  \/ LogIn(u) \/ Welcome(u) \/ NameUsed(u) \/ UnlockAgain(u)
  \/ Say(u) \/ ListUsers(u) \/ ListFriends(u) \/ Whisper(u)
  \/ Befriend(u) \/ Answer(u) \/ Quit(u)

----------------------------------------------------------------------------
(* GiveTask: passes the messages on to the client *)

\* Reads the state; 4 and 5 answer 'q', 5 frees the user at once.
Look(u) ==
  LET s == usr[u].state
  IN
  /\ give[u] = "loop" /\ s \in {2, 4, 5}
  /\ give' = [give EXCEPT ![u] = CASE s = 2 -> "toWait" [] s = 4 -> "toFree"
                                   [] OTHER -> "done"]
  /\ toClient' = IF s = 2 THEN toClient ELSE Sent(u, "q", None)
  /\ usr' = IF s = 5 THEN [usr EXCEPT ![u] = NoUser] ELSE usr
  /\ UNCHANGED <<lock, broken, main, room, userCount, count, msgbuf, msgid, get,
                 owed, got, asked, lost, clients>>

\* lock and pthread_cond_wait, which releases it: no condition is tested first.
Wait(u) ==
  /\ give[u] = "toWait" /\ MutexFree
  /\ give' = [give EXCEPT ![u] = "waiting"]
  /\ UNCHANGED <<lock, broken, main, room, userCount, count, msgbuf, msgid, usr,
                 get, toClient, owed, got, asked, lost, clients>>

\* The wait returns, or the mutex is taken to free the user.
Wake(u) ==
  /\ give[u] \in {"woken", "toFree"} /\ MutexFree
  /\ lock' = Giver(u)
  /\ give' = [give EXCEPT ![u] = IF @ = "woken" THEN "deliver" ELSE "free"]
  /\ UNCHANGED <<broken, main, room, userCount, count, msgbuf, msgid, usr, get,
                 toClient, owed, got, asked, lost, clients>>

Deliver(u) ==
  /\ give[u] = "deliver"
  /\ IF msgid # u
     THEN /\ toClient' = Sent(u, msgbuf.kind, None)
          /\ count' = count - 1
          /\ owed' = owed \ {u}
          /\ got' = [got EXCEPT ![u] = msgbuf.no]
     ELSE UNCHANGED <<toClient, count, owed, got>>
  /\ give' = [give EXCEPT ![u] = "loop"]
  /\ UnlockBy(Giver(u))
  /\ UNCHANGED <<main, room, userCount, msgbuf, msgid, usr, get, asked, lost, clients>>

\* Mutant: only the entry where v would put its next friend.
CutNext(v, u) == [i \in Slots |-> IF i = usr[v].fcount /\ usr[v].fri[i] = u THEN None
                                   ELSE usr[v].fri[i]]

\* v's ring without u.
Cut(v, u) == [i \in Slots |-> IF usr[v].fri[i] = u THEN None ELSE usr[v].fri[i]]

\* The list without u, which is in it once.
Unlinked(u) ==
  LET k == CHOOSE i \in DOMAIN room : room[i] = u
  IN  [i \in 1 .. Len(room) - 1 |-> room[IF i < k THEN i ELSE i + 1]]

\* Takes u out of its friends' rings and out of the list, and frees it.
Free(u) ==
  LET friends == {usr[u].fri[i] : i \in Slots} \ {None}
  IN
  /\ give[u] = "free"
  /\ usr' = [v \in Users |-> IF v = u THEN NoUser
                             ELSE IF v \in friends THEN [usr[v] EXCEPT !.fri = Cut(v, u)]
                             ELSE usr[v]]
  /\ room' = Unlinked(u)
  /\ give' = [give EXCEPT ![u] = "done"]
  /\ UnlockBy(Giver(u))
  /\ UNCHANGED <<main, userCount, count, msgbuf, msgid, get, toClient, owed, got,
                 asked, lost, clients>>

GiveTask(u) == Look(u) \/ Wait(u) \/ Wake(u) \/ Deliver(u) \/ Free(u)

----------------------------------------------------------------------------
(* The client *)

serverSide == <<lock, broken, main, room, userCount, count, msgbuf, msgid, usr, get,
                give, owed, got, asked, lost>>

(* GetTask reads a line in the step that types it: nothing but that thread *)
(* looks at the line, so typing it earlier makes no difference.            *)

\* SendTask in state 1 ("name") enters a name and waits for the answer.
EnterName(u) ==
  /\ cli[u].state = "name"
  /\ \E n \in Names : Read(u, "1", n)
  /\ cli' = [cli EXCEPT ![u].state = "reply"]
  /\ UNCHANGED toClient

\* The next message is taken for the answer, whatever it is.
Reply(u) ==
  /\ cli[u].state = "reply" /\ toClient[u] # <<>>
  /\ cli' = [cli EXCEPT ![u].state = IF Head(toClient[u]).kind = "2" THEN "talk" ELSE "name"]
  /\ toClient' = [toClient EXCEPT ![u] = Tail(@)]
  /\ UNCHANGED <<typed, serverSide>>

\* SendTask in state 2 ("talk"); 'y' and 'n' are sent only when someone asked.
Type(u) ==
  /\ cli[u].state = "talk"
  /\ \/ \E op \in {"2", "3", "!"} : Read(u, op, None)
     \/ \E op \in {"@", "$"}, n \in Names : Read(u, op, n)
     \/ /\ cli[u].fname # None
        /\ \E op \in {"y", "n"} : Read(u, op, cli[u].fname)
  /\ UNCHANGED <<cli, toClient>>

TypeQuit(u) ==
  /\ cli[u].state \in {"name", "talk"}
  /\ Read(u, "4", None)
  /\ cli' = [cli EXCEPT ![u].state = "quit"]
  /\ UNCHANGED toClient

\* RecvTask: a request leaves its sender's name in fname, the rest is printed.
Receive(u) ==
  /\ cli[u].state \in {"talk", "quit"} /\ toClient[u] # <<>>
  /\ LET m == Head(toClient[u])
     IN  cli' = [cli EXCEPT ![u].fname = IF m.kind = "$" THEN m.from ELSE @]
  /\ toClient' = [toClient EXCEPT ![u] = Tail(@)]
  /\ UNCHANGED <<typed, serverSide>>

Client(u) == EnterName(u) \/ Reply(u) \/ Type(u) \/ TypeQuit(u) \/ Receive(u)

\* Bound: what happens after the mutex was taken away from its holder is not
\* followed.
Next == /\ ~broken
        /\ \/ MainUnlock
           \/ \E u \in Users : Accept(u) \/ GetTask(u) \/ GiveTask(u) \/ Client(u)

Spec == Init /\ [][Next]_vars

----------------------------------------------------------------------------

GetPc == {"none", "recv", "enter", "section", "loggedIn", "welcome", "used", "done"}
GivePc == {"none", "loop", "toWait", "waiting", "woken", "deliver", "toFree", "free", "done"}

\* The shape of the state, and that a section of GetTask or GiveTask runs with
\* the mutex until somebody has taken it away (comments /*lock*/, lines 34-40).
TypeOK ==
  /\ lock \in {None} \cup (Users \X {"get", "give"})
  /\ \A u \in Users : /\ usr[u].state \in {0, 1, 2, 4, 5} /\ usr[u].fcount \in Slots
                      /\ get[u].pc \in GetPc /\ give[u] \in GivePc
  /\ Cardinality(InRoom) = Len(room)
  /\ ~broken => \A u \in Users : /\ get[u].pc = "section" <=> lock = Getter(u)
                                 /\ give[u] \in {"deliver", "free"} <=> lock = Giver(u)

\* userCount is the number of users in the list who have not quit, whatever
\* order logins, quits and the freeing of quitters come in (lines 95, 289), and
\* senders wait for no more users than still lack the message: count never
\* exceeds their number, and as long as nobody has quit it is their number
\* (lines 94, 140, 293 and 333).
NobodyQuit == \A u \in Users : usr[u].state # 4 /\ give[u] # "done"
CountIsOwed ==
  ~broken => /\ userCount = Cardinality(Present)
             /\ count <= Cardinality(owed)
             /\ NobodyQuit => count = Cardinality(owed)

\* "wait for all user get the old msg then update" (lines 69, 128, 278): as long
\* as nobody has quit, a message is replaced only when all have it; and a user is
\* given each message at most once, in the order of the messages: between two
\* wake-ups of its GiveTask a new message has been written.
OldMessageTaken ==
  [][ ~broken =>
        /\ msgbuf' # msgbuf /\ NobodyQuit => owed = {}
        /\ \A u \in Users : give[u] = "deliver" /\ give'[u] = "loop" /\ msgid # u
                             => got[u] < got'[u] ]_vars

FriendsOf(u) == {usr[u].fri[i] : i \in Slots} \ {None}

\* Friendship is mutual and never names a user that has been freed (lines
\* 242-245, 343-355), as long as no ring has had to overwrite an entry; and two
\* users are friends only after one has asked the other, by name: the server takes
\* any 'y', it is fname of the client (line 104) that keeps it honest.
Friendship ==
  ~broken /\ ~lost => \A u \in Users : \A v \in FriendsOf(u) :
     /\ u \in FriendsOf(v)
     /\ asked \cap {<<usr[u].name, usr[v].name>>, <<usr[v].name, usr[u].name>>} # {}

\* "count who can take this message" (line 38): while senders wait, somebody is
\* still to take the message.
SomebodyTakes ==
  count > 0 => \E u \in Users : give[u] \in {"woken", "deliver"}

=============================================================================
