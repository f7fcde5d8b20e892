----------------------------- MODULE ImRoomProofs -----------------------------
(***************************************************************************)
(* Theorems about ImRoom, for any number of users, names and lines typed.  *)
(***************************************************************************)
EXTENDS ImRoom, TLAPS, FiniteSetTheorems

(* Every structure keeps its fields.                                       *)
UserShape(r) ==
    r = [state |-> r.state, name |-> r.name, fri |-> r.fri, fcount |-> r.fcount]
LineShape(r) == r = [pc |-> r.pc, op |-> r.op, arg |-> r.arg, p |-> r.p]

Shapes ==
    /\ usr = [u \in Users |-> usr[u]] /\ \A u \in Users : UserShape(usr[u])
    /\ get = [u \in Users |-> get[u]] /\ \A u \in Users : LineShape(get[u])
    /\ give \in [Users -> GivePc]
    /\ \A u \in Users : usr[u].fcount \in Slots

(* The list: nobody is in it twice.                                        *)
ListWell ==
    /\ room \in Seq(Users)
    /\ \A i, j \in DOMAIN room : room[i] = room[j] => i = j

(* Where the two threads of user u are, at pc with the line op and at giv, *)
(* when its state is st and in is the set of users in the list.            *)
Place(u, pc, op, giv, st, in) ==
    /\ pc \in GetPc /\ st \in {0, 1, 2, 4, 5}
    /\ pc = "none" => st = 0 /\ u \notin in
    /\ pc = "none" <=> giv = "none"
    /\ pc \in {"enter", "section"} => IF op = "1" THEN st = 1 /\ u \notin in ELSE st = 2
    /\ pc = "used" => st = 1 /\ u \notin in
    /\ pc = "loggedIn" => st = 1 /\ u \in in
    /\ pc = "welcome" => st = 2
    /\ pc = "recv" => st = 2 \/ (st = 1 /\ u \notin in)
    /\ pc = "done" => st \in {0, 4, 5}
    /\ st \in {2, 4} => u \in in
    /\ st \in {0, 5} => u \notin in
    /\ giv \in {"toWait", "waiting", "woken", "deliver"} => st \in {2, 4}
    /\ giv \in {"toFree", "free"} => st = 4
    /\ pc = "done" /\ st = 0 <=> giv = "done"

Places == \A u \in Users : Place(u, get[u].pc, get[u].op, give[u], usr[u].state, InRoom)

(* The mutex, until it has been taken from its holder.                     *)
Mutex ==
    /\ lock \in {None} \cup (Users \X {"get", "give"}) /\ broken \in BOOLEAN
    /\ ~broken => \A u \in Users : /\ get[u].pc = "section" <=> lock = Getter(u)
                                   /\ give[u] \in {"deliver", "free"} <=> lock = Giver(u)

(* Nobody writes the buffer before count is 0.                             *)
Writers ==
    ~broken => \A u \in Users : get[u].pc = "section" /\ get[u].op \in {"1", "2", "4"}
                                  => count <= 0

(* The counters and who is still to take the message.                      *)
Counters ==
    /\ count \in Int /\ owed \in SUBSET Users
    /\ userCount = Cardinality(Present)
    /\ count <= Cardinality(owed)
    /\ NobodyQuit => count = Cardinality(owed)

Takers ==
    /\ msgbuf.no \in Nat /\ got \in [Users -> Nat]
    /\ \A u \in Users :
         /\ got[u] <= msgbuf.no
         /\ give[u] \in {"woken", "deliver"} /\ msgid # u =>
              got[u] < msgbuf.no /\ (NobodyQuit => u \in owed)

(* The inductive invariant.                                                *)
IInv == Shapes /\ ListWell /\ Places /\ Mutex /\ Writers /\ Counters /\ Takers

-----------------------------------------------------------------------------
(* Structures.                                                             *)

(* A set of numbers has a smallest one.                                    *)
LEMMA SmallestOne ==
    ASSUME NEW S \in SUBSET Nat, S # {}
    PROVE  \E n \in S : \A m \in S : n <= m
<1> DEFINE R == {ss \in Nat \X Nat : ss[1] < ss[2]}
<1>1. IsWellFoundedOn(R, Nat)
  BY NatLessThanWellFounded DEF OpToRel
<1>2. PICK n \in S : \A m \in S : ~(<<m, n>> \in R)
  BY <1>1, WFMin
<1>3. ASSUME NEW m \in S
      PROVE  n <= m
  <2>1. n \in Nat /\ m \in Nat
    OBVIOUS
  <2>2. ~(m < n)
    BY <1>2, <2>1
  <2> QED
    BY <2>1, <2>2
<1> QED
  BY <1>3

(* A user found by name is in the list, and has it.                        *)
LEMMA FindIs ==
    ASSUME ListWell, NEW name
    PROVE  LET q == Find(name)
           IN  q = None \/ (q \in Users /\ q \in InRoom /\ usr[q].name = name)
<1> DEFINE q == Find(name)
           hits == {i \in DOMAIN room : usr[room[i]].name = name}
           k == CHOOSE i \in hits : \A j \in hits : i <= j
<1>1. CASE hits = {}
  BY <1>1 DEF Find
<1>2. CASE hits # {}
  <2>1. q = room[k]
    BY <1>2 DEF Find
  <2>2. \E i \in hits : \A j \in hits : i <= j
    <3>1. DOMAIN room \in SUBSET Nat
      BY DEF ListWell
    <3>2. hits \in SUBSET Nat /\ hits # {}
      BY <1>2, <3>1
    <3> HIDE DEF hits
    <3> QED
      BY <3>2, SmallestOne
  <2>3. k \in DOMAIN room /\ usr[room[k]].name = name
    BY <2>2
  <2> HIDE DEF k, hits, q
  <2>4. q \in Users /\ q \in InRoom /\ usr[q].name = name
    BY <2>1, <2>3 DEF ListWell, InRoom
  <2> QED
    BY <2>4 DEF q
<1> QED
  BY <1>1, <1>2

(* A user's structure with another state keeps the other fields.           *)
LEMMA StateField ==
    ASSUME NEW r, UserShape(r), NEW x
    PROVE  /\ UserShape([r EXCEPT !.state = x]) /\ [r EXCEPT !.state = x].state = x
           /\ [r EXCEPT !.state = x].fcount = r.fcount
  BY DEF UserShape

(* ... with another name.                                                  *)
LEMMA NameField ==
    ASSUME NEW r, UserShape(r), NEW x
    PROVE  /\ UserShape([r EXCEPT !.name = x]) /\ [r EXCEPT !.name = x].name = x
           /\ [r EXCEPT !.name = x].state = r.state
           /\ [r EXCEPT !.name = x].fcount = r.fcount
  BY DEF UserShape

(* ... with another slot for the next friend.                              *)
LEMMA NextField ==
    ASSUME NEW r, UserShape(r), NEW x
    PROVE  /\ UserShape([r EXCEPT !.fcount = x]) /\ [r EXCEPT !.fcount = x].fcount = x
           /\ [r EXCEPT !.fcount = x].state = r.state
  BY DEF UserShape

(* ... with another ring.                                                  *)
LEMMA RingField ==
    ASSUME NEW r, UserShape(r), NEW x
    PROVE  /\ UserShape([r EXCEPT !.fri = x]) /\ [r EXCEPT !.fri = x].fri = x
           /\ [r EXCEPT !.fri = x].state = r.state
           /\ [r EXCEPT !.fri = x].fcount = r.fcount
  BY DEF UserShape

(* ... or two, as when a line is read.                                     *)
NameAndState(r, name, state) == [r EXCEPT !.name = name, !.state = state]

(* Its name and its state are changed, and nothing else is.                *)
LEMMA TwoUserFields ==
    ASSUME NEW r, UserShape(r), NEW x, NEW y
    PROVE  /\ UserShape(NameAndState(r, x, y))
           /\ NameAndState(r, x, y).state = y
           /\ NameAndState(r, x, y).fcount = r.fcount
<1> DEFINE s == [r EXCEPT !.name = x]
<1>1. UserShape(s) /\ s.state = r.state /\ s.fcount = r.fcount
  BY NameField
<1>2. NameAndState(r, x, y) = [s EXCEPT !.state = y]
  BY Zenon DEF NameAndState
<1> HIDE DEF s
<1>3. /\ UserShape([s EXCEPT !.state = y]) /\ [s EXCEPT !.state = y].state = y
      /\ [s EXCEPT !.state = y].fcount = s.fcount
  BY <1>1, StateField
<1> QED
  BY <1>1, <1>2, <1>3

(* A thread's line with its program counter changed.                       *)
LEMMA LineFields ==
    ASSUME NEW l, LineShape(l), NEW x
    PROVE  LET m == [l EXCEPT !.pc = x]
           IN  LineShape(m) /\ m.pc = x /\ m.op = l.op
  BY DEF LineShape

(* A function on the users with one value changed.                         *)
LEMMA OneChanged ==
    ASSUME NEW f, f = [v \in Users |-> f[v]], NEW u \in Users, NEW e, NEW g,
           g = [f EXCEPT ![u] = e]
    PROVE  /\ g = [v \in Users |-> g[v]] /\ g[u] = e
           /\ \A v \in Users : v # u => g[v] = f[v]
  OBVIOUS

(* GetTask's line of user u becomes l.                                     *)
LineSet(u, l) ==
    /\ get' = [v \in Users |-> get'[v]] /\ \A v \in Users : LineShape(get'[v])
    /\ get'[u] = l
    /\ \A v \in Users : v # u => get'[v] = get[v]

(* GetTask moves to another place.                                         *)
LEMMA SetsPc ==
    ASSUME Shapes, NEW u \in Users, NEW x, get' = [get EXCEPT ![u].pc = x]
    PROVE  LineSet(u, [get[u] EXCEPT !.pc = x])
<1>1. get = [v \in Users |-> get[v]] /\ \A v \in Users : LineShape(get[v])
  BY DEF Shapes
<1>2. get' = [v \in Users |-> get'[v]]
  BY <1>1
<1>3. get'[u] = [get[u] EXCEPT !.pc = x] /\ \A v \in Users : v # u => get'[v] = get[v]
  BY <1>1
<1>4. LineShape([get[u] EXCEPT !.pc = x])
  BY <1>1, LineFields
<1> QED
  BY <1>1, <1>2, <1>3, <1>4, Zenon DEF LineSet

(* GetTask's line is replaced.                                             *)
LEMMA SetsLine ==
    ASSUME Shapes, NEW u \in Users, NEW l, LineShape(l), get' = [get EXCEPT ![u] = l]
    PROVE  LineSet(u, l)
<1>1. get = [v \in Users |-> get[v]] /\ \A v \in Users : LineShape(get[v])
  BY DEF Shapes
<1>2. get' = [v \in Users |-> get'[v]]
  BY <1>1
<1>3. get'[u] = l /\ \A v \in Users : v # u => get'[v] = get[v]
  BY <1>1
<1> QED
  BY <1>1, <1>2, <1>3, Zenon DEF LineSet

(* GiveTask's place of user u becomes x.                                   *)
GiveSet(u, x) ==
    /\ give' \in [Users -> GivePc] /\ give'[u] = x
    /\ \A v \in Users : v # u => give'[v] = give[v]

(* GiveTask moves to another place.                                        *)
LEMMA SetsGive ==
    ASSUME Shapes, NEW u \in Users, NEW x \in GivePc, give' = [give EXCEPT ![u] = x]
    PROVE  GiveSet(u, x)
  BY DEF Shapes, GiveSet

(* The structure of user u becomes r.                                      *)
UserSet(u, r) ==
    /\ usr' = [v \in Users |-> usr'[v]] /\ \A v \in Users : UserShape(usr'[v])
    /\ usr'[u] = r
    /\ \A v \in Users : v # u => usr'[v] = usr[v]

(* The structure of one user is replaced.                                  *)
LEMMA SetsUser ==
    ASSUME Shapes, NEW u \in Users, NEW r, UserShape(r), usr' = [usr EXCEPT ![u] = r]
    PROVE  UserSet(u, r)
<1>1. usr = [v \in Users |-> usr[v]] /\ \A v \in Users : UserShape(usr[v])
  BY DEF Shapes
<1>2. usr' = [v \in Users |-> usr'[v]]
  BY <1>1
<1>3. usr'[u] = r /\ \A v \in Users : v # u => usr'[v] = usr[v]
  BY <1>1
<1> QED
  BY <1>1, <1>2, <1>3, Zenon DEF UserSet

(* What changes keeps its shape.                                           *)
LEMMA ShapesKept ==
    ASSUME Shapes, NEW u \in Users,
           get' = get \/ (\E l : LineSet(u, l)),
           give' = give \/ (\E x : GiveSet(u, x)),
           usr' = usr \/ (\E r : UserSet(u, r) /\ r.fcount \in Slots)
    PROVE  Shapes'
<1>1. get' = [v \in Users |-> get'[v]] /\ \A v \in Users : LineShape(get'[v])
  BY DEF Shapes, LineSet
<1>2. give' \in [Users -> GivePc]
  BY DEF Shapes, GiveSet
<1>3. usr' = [v \in Users |-> usr'[v]] /\ \A v \in Users : UserShape(usr'[v])
  BY DEF Shapes, UserSet
<1>4. \A v \in Users : usr'[v].fcount \in Slots
  BY DEF Shapes, UserSet
<1> QED
  BY <1>1, <1>2, <1>3, <1>4 DEF Shapes

(* A new structure, and the slots of its ring.                             *)
LEMMA NewUser ==
    /\ UserShape(NoUser) /\ NoUser.state = 0 /\ NoUser.fcount = 0
    /\ 0 \in Slots
    /\ \A i \in Slots : (i + 1) % LISTENQ \in Slots
<1>1. UserShape(NoUser) /\ NoUser.state = 0 /\ NoUser.fcount = 0
  BY DEF UserShape, NoUser
<1>2. LISTENQ \in Nat /\ LISTENQ # 0
  BY RoomAssumption
<1> QED
  BY <1>1, <1>2 DEF Slots

(* A line without a field is one.                                          *)
LEMMA IdleShape ==
    ASSUME NEW x
    PROVE  /\ LineShape([Idle EXCEPT !.pc = x]) /\ [Idle EXCEPT !.pc = x].pc = x
           /\ LineShape(Idle) /\ Idle.pc = "recv"
  BY DEF Idle, LineShape

-----------------------------------------------------------------------------
(* The mutex.                                                              *)

(* Threads are told apart.                                                 *)
LEMMA ThreadsDiffer ==
    ASSUME NEW u \in Users, NEW v \in Users
    PROVE  /\ Getter(u) # None /\ Giver(u) # None /\ Getter(u) # Giver(v)
           /\ Getter(u) = Getter(v) => u = v
           /\ Giver(u) = Giver(v) => u = v
           /\ Getter(u) \in Users \X {"get", "give"} /\ Giver(u) \in Users \X {"get", "give"}
  BY NoneAssumption DEF Getter, Giver

(* The mutex is neither taken nor released.                                *)
LEMMA MutexStays ==
    ASSUME Mutex, lock' = lock, broken' = broken,
           \A v \in Users : /\ get'[v].pc = "section" <=> get[v].pc = "section"
                            /\ give'[v] \in {"deliver", "free"} <=> give[v] \in {"deliver", "free"}
    PROVE  Mutex'
  BY DEF Mutex

(* It is released in the name of t.                                        *)
LEMMA MutexReleased ==
    ASSUME Mutex, NEW t, UnlockBy(t),
           \A v \in Users :
             /\ get'[v].pc = "section" => get[v].pc = "section" /\ Getter(v) # t
             /\ give'[v] \in {"deliver", "free"} =>
                  give[v] \in {"deliver", "free"} /\ Giver(v) # t
    PROVE  Mutex'
<1>1. lock' = None /\ broken' = (broken \/ lock \notin {None, t})
  BY DEF UnlockBy
<1>2. lock' \in {None} \cup (Users \X {"get", "give"}) /\ broken' \in BOOLEAN
  BY <1>1 DEF Mutex
<1>3. ASSUME ~broken', NEW v \in Users
      PROVE  /\ get'[v].pc = "section" <=> lock' = Getter(v)
             /\ give'[v] \in {"deliver", "free"} <=> lock' = Giver(v)
  <2>1. ~broken /\ lock \in {None, t}
    BY <1>1, <1>3
  <2>2. /\ get[v].pc = "section" => lock = Getter(v)
        /\ give[v] \in {"deliver", "free"} => lock = Giver(v)
    BY <2>1 DEF Mutex
  <2>3. Getter(v) # None /\ Giver(v) # None
    BY ThreadsDiffer
  <2>4. get'[v].pc # "section"
    BY <2>1, <2>2, <2>3
  <2>5. give'[v] \notin {"deliver", "free"}
    BY <2>1, <2>2, <2>3
  <2> QED
    BY <1>1, <2>3, <2>4, <2>5
<1> QED
  BY <1>2, <1>3 DEF Mutex

(* Thread t takes it.                                                      *)
LEMMA MutexTaken ==
    ASSUME Mutex, NEW t \in Users \X {"get", "give"}, MutexFree, lock' = t,
           broken' = broken,
           \A v \in Users :
             /\ get'[v].pc = "section" <=> get[v].pc = "section" \/ Getter(v) = t
             /\ give'[v] \in {"deliver", "free"} <=>
                  give[v] \in {"deliver", "free"} \/ Giver(v) = t
    PROVE  Mutex'
<1>1. lock = None
  BY DEF MutexFree
<1>2. ASSUME ~broken, NEW v \in Users
      PROVE  /\ get'[v].pc = "section" <=> lock' = Getter(v)
             /\ give'[v] \in {"deliver", "free"} <=> lock' = Giver(v)
  <2>1. Getter(v) # None /\ Giver(v) # None
    BY ThreadsDiffer
  <2>2. get[v].pc # "section" /\ give[v] \notin {"deliver", "free"}
    BY <1>1, <1>2, <2>1 DEF Mutex
  <2> QED
    BY <2>2
<1> QED
  BY <1>1, <1>2 DEF Mutex

-----------------------------------------------------------------------------
(* Steps that leave the message, the list and the counters alone.          *)

(* The invariant is kept when every user is at a place it may be at.       *)
LEMMA QuietStep ==
    ASSUME IInv, UNCHANGED <<room, userCount, count, msgbuf, msgid, owed, got>>,
           Shapes', Mutex',
           \A v \in Users :
             /\ Place(v, get'[v].pc, get'[v].op, give'[v], usr'[v].state, InRoom)
             /\ usr'[v].state = 4 <=> usr[v].state = 4
             /\ give[v] = "done" => give'[v] = "done"
             /\ give'[v] \in {"woken", "deliver"} => give[v] \in {"woken", "deliver"}
             /\ get'[v].pc = "section" => \/ get[v].pc = "section" /\ get'[v].op = get[v].op
                                          \/ get'[v].op \in {"1", "2", "4"} => count <= 0,
           broken => broken'
    PROVE  IInv'
<1>1. InRoom' = InRoom
  BY DEF InRoom
<1>2. InRoom \subseteq Users
  BY DEF IInv, ListWell, InRoom
<1>3. Present' = Present
  BY <1>1, <1>2 DEF Present
<1>4. NobodyQuit' => NobodyQuit
  BY DEF NobodyQuit
<1>5. ListWell'
  BY DEF IInv, ListWell
<1>6. Places'
  BY <1>1 DEF Places
<1>7. Writers'
  BY DEF IInv, Writers
<1>8. Counters'
  BY <1>3, <1>4 DEF IInv, Counters
<1>9. Takers'
  BY <1>4 DEF IInv, Takers
<1> QED
  BY <1>5, <1>6, <1>7, <1>8, <1>9 DEF IInv

(* main accepts a client, or releases the mutex that it never took.        *)
LEMMA MainStep ==
    ASSUME IInv, MainUnlock \/ \E u \in Users : Accept(u)
    PROVE  IInv'
<1>1. Shapes /\ Places /\ Mutex
  BY DEF IInv
<1>2. CASE MainUnlock
  <2>1. /\ UnlockBy(None) /\ usr' = usr /\ get' = get /\ give' = give
        /\ UNCHANGED <<room, userCount, count, msgbuf, msgid, owed, got>>
    BY <1>2 DEF MainUnlock
  <2>2. Mutex'
    <3>1. \A v \in Users : Getter(v) # None /\ Giver(v) # None
      BY ThreadsDiffer
    <3> QED
      BY <1>1, <2>1, <3>1, MutexReleased
  <2>3. Shapes'
    BY <1>1, <2>1 DEF Shapes
  <2>4. broken => broken'
    BY <2>1 DEF UnlockBy
  <2> QED
    BY <1>1, <2>1, <2>2, <2>3, <2>4, QuietStep DEF Places
<1>3. ASSUME NEW u \in Users, Accept(u)
      PROVE  IInv'
  <2> DEFINE r == [NoUser EXCEPT !.state = 1]
  <2> DEFINE l == [get[u] EXCEPT !.pc = "recv"]
  <2>1. /\ lock' = lock /\ broken' = broken /\ get[u].pc = "none"
        /\ usr' = [usr EXCEPT ![u] = r] /\ get' = [get EXCEPT ![u].pc = "recv"]
        /\ give' = [give EXCEPT ![u] = "loop"]
        /\ UNCHANGED <<room, userCount, count, msgbuf, msgid, owed, got>>
    BY <1>3 DEF Accept
  <2>2. UserShape(r) /\ r.state = 1 /\ r.fcount = 0 /\ 0 \in Slots
    BY NewUser, StateField
  <2>3. LineSet(u, l) /\ l.pc = "recv"
    BY <1>1, <2>1, SetsPc, LineFields DEF Shapes
  <2> HIDE DEF r, l
  <2>4. UserSet(u, r)
    BY <1>1, <2>1, <2>2, SetsUser
  <2>5. GiveSet(u, "loop")
    BY <1>1, <2>1, SetsGive DEF GivePc
  <2>6. Shapes'
    BY <1>1, <2>2, <2>3, <2>4, <2>5, ShapesKept
  <2>7. Place(u, "none", get[u].op, give[u], usr[u].state, InRoom)
    BY <1>1, <2>1 DEF Places
  <2>8. give[u] = "none" /\ usr[u].state = 0 /\ u \notin InRoom
    BY <2>7 DEF Place
  <2>9. /\ get'[u].pc = "recv" /\ give'[u] = "loop" /\ usr'[u].state = 1
        /\ \A v \in Users : v # u => get'[v] = get[v] /\ give'[v] = give[v] /\ usr'[v] = usr[v]
    BY <2>2, <2>3, <2>4, <2>5 DEF LineSet, GiveSet, UserSet
  <2>10. Mutex'
    BY <1>1, <2>1, <2>8, <2>9, MutexStays
  <2>11. Place(u, get'[u].pc, get'[u].op, give'[u], usr'[u].state, InRoom)
    BY <2>8, <2>9 DEF Place, GetPc
  <2>12. \A v \in Users : v # u => Place(v, get'[v].pc, get'[v].op, give'[v], usr'[v].state, InRoom)
    BY <1>1, <2>9 DEF Places
  <2> QED
    BY <2>1, <2>6, <2>8, <2>9, <2>10, <2>11, <2>12, QuietStep
<1> QED
  BY <1>2, <1>3

-----------------------------------------------------------------------------
(* The steps of GetTask that leave the message alone.                      *)

(* A step that changes user u's line, and of the users at most u.          *)
LEMMA GetterQuiet ==
    ASSUME IInv, NEW u \in Users, NEW l, NEW r, LineSet(u, l),
           UNCHANGED <<room, userCount, count, msgbuf, msgid, give, owed, got>>,
           Mutex', broken => broken',
           UserSet(u, r), r.fcount \in Slots, r.state = 4 <=> usr[u].state = 4,
           Place(u, l.pc, l.op, give[u], r.state, InRoom),
           l.pc = "section" => \/ get[u].pc = "section" /\ l.op = get[u].op
                               \/ l.op \in {"1", "2", "4"} => count <= 0
    PROVE  IInv'
<1>1. Shapes /\ Places
  BY DEF IInv
<1>2. Shapes'
  BY <1>1, ShapesKept
<1>3. /\ get'[u] = l /\ usr'[u] = r
      /\ \A v \in Users : v # u => get'[v] = get[v] /\ usr'[v] = usr[v]
  BY DEF LineSet, UserSet
<1>4. \A v \in Users : Place(v, get'[v].pc, get'[v].op, give'[v], usr'[v].state, InRoom)
  <2>1. Place(u, get'[u].pc, get'[u].op, give'[u], usr'[u].state, InRoom)
    BY <1>3
  <2>2. \A v \in Users : v # u => Place(v, get'[v].pc, get'[v].op, give'[v], usr'[v].state, InRoom)
    BY <1>1, <1>3 DEF Places
  <2> QED
    BY <2>1, <2>2
<1> QED
  BY <1>2, <1>3, <1>4, QuietStep

(* The users stay as they are.                                             *)
LEMMA SameUser ==
    ASSUME Shapes, NEW u \in Users, usr' = usr
    PROVE  UserSet(u, usr[u]) /\ usr[u].fcount \in Slots
  BY DEF Shapes, UserSet

(* A line is read.                                                         *)
LEMMA ReadStep ==
    ASSUME IInv, NEW u \in Users, NEW op, NEW arg, Read(u, op, arg)
    PROVE  IInv'
<1> DEFINE acts == \/ usr[u].state = 1 /\ op = "1"
                   \/ usr[u].state = 2 /\ op # "1" /\ ~(op = "$" /\ arg = usr[u].name)
           ends == usr[u].state = 1 /\ op = "4"
           full == [pc |-> "enter", op |-> op, arg |-> arg,
                    p |-> IF op = "1" /\ room # <<>> THEN Head(room) ELSE None]
           l == CASE acts -> full
                  [] ends -> [Idle EXCEPT !.pc = "done"]
                  [] OTHER -> Idle
           name == IF acts /\ op = "1" THEN arg ELSE usr[u].name
           state == IF ends THEN 5 ELSE usr[u].state
           r == NameAndState(usr[u], name, state)
<1>1. Shapes /\ Places /\ Mutex
  BY DEF IInv
<1>2. /\ get[u].pc = "recv" /\ get' = [get EXCEPT ![u] = l]
      /\ usr' = [usr EXCEPT ![u].name = IF acts /\ op = "1" THEN arg ELSE @,
                            ![u].state = IF ends THEN 5 ELSE @]
      /\ lock' = lock /\ broken' = broken /\ give' = give
      /\ UNCHANGED <<room, userCount, count, msgbuf, msgid, give, owed, got>>
  BY DEF Read
<1>3. LineShape(full) /\ full.pc = "enter" /\ full.op = op
  BY DEF LineShape
<1>4. /\ LineShape(l)
      /\ \/ acts /\ l.pc = "enter" /\ l.op = op
         \/ ends /\ ~acts /\ l.pc = "done"
         \/ ~ends /\ ~acts /\ l.pc = "recv"
  <2>1. CASE acts
    BY <1>3, <2>1
  <2>2. CASE ~acts /\ ends
    BY <2>2, IdleShape
  <2>3. CASE ~acts /\ ~ends
    BY <2>3, IdleShape
  <2> QED
    BY <2>1, <2>2, <2>3
<1>5. UserShape(usr[u]) /\ usr[u].fcount \in Slots
  BY <1>1 DEF Shapes
<1>6. usr' = [usr EXCEPT ![u] = r]
  BY <1>1, <1>2 DEF Shapes, NameAndState
<1>7. /\ UserShape(r) /\ r.fcount = usr[u].fcount
      /\ r.state = IF ends THEN 5 ELSE usr[u].state
  <2>1. r.state = state /\ UserShape(r) /\ r.fcount = usr[u].fcount
    BY <1>5, TwoUserFields
  <2> QED
    BY <2>1
<1>9. Place(u, "recv", get[u].op, give[u], usr[u].state, InRoom)
  BY <1>1, <1>2 DEF Places
<1>10. usr[u].state = 2 \/ (usr[u].state = 1 /\ u \notin InRoom)
  BY <1>9 DEF Place
<1>11. Place(u, l.pc, l.op, give[u], r.state, InRoom)
  <2>1. CASE acts
    BY <1>4, <1>7, <1>9, <1>10, <2>1 DEF Place, GetPc
  <2>2. CASE ~acts /\ ends
    BY <1>4, <1>7, <1>9, <1>10, <2>2 DEF Place, GetPc
  <2>3. CASE ~acts /\ ~ends
    BY <1>4, <1>7, <1>9, <1>10, <2>3 DEF Place, GetPc
  <2> QED
    BY <2>1, <2>2, <2>3
<1>12. r.state = 4 <=> usr[u].state = 4
  BY <1>7, <1>10
<1>13. l.pc # "section"
  BY <1>4
<1> HIDE DEF l, r, full, acts, ends
<1>14. LineSet(u, l)
  BY <1>1, <1>2, <1>4, SetsLine
<1>15. UserSet(u, r)
  BY <1>1, <1>6, <1>7, SetsUser
<1>16. Mutex'
  <2>1. \A v \in Users : get'[v].pc = "section" <=> get[v].pc = "section"
    BY <1>2, <1>13, <1>14 DEF LineSet
  <2> QED
    BY <1>1, <1>2, <2>1, MutexStays
<1> QED
  BY <1>2, <1>5, <1>7, <1>11, <1>12, <1>13, <1>14, <1>15, <1>16, GetterQuiet

(* The mutex is taken.                                                     *)
LEMMA EnterStep ==
    ASSUME IInv, NEW u \in Users, Enter(u)
    PROVE  IInv'
<1> DEFINE l == [get[u] EXCEPT !.pc = "section"]
<1>1. Shapes /\ Places /\ Mutex
  BY DEF IInv
<1>2. /\ get[u].pc = "enter" /\ MutexFree /\ (get[u].op \in {"1", "2", "4"} => count <= 0)
      /\ lock' = Getter(u) /\ broken' = broken /\ get' = [get EXCEPT ![u].pc = "section"]
      /\ give' = give /\ usr' = usr
      /\ UNCHANGED <<room, userCount, count, msgbuf, msgid, give, owed, got>>
  BY DEF Enter, MayEnter
<1>3. LineSet(u, l) /\ l.pc = "section" /\ l.op = get[u].op
  BY <1>1, <1>2, SetsPc, LineFields DEF Shapes
<1> HIDE DEF l
<1>4. Place(u, "enter", get[u].op, give[u], usr[u].state, InRoom)
  BY <1>1, <1>2 DEF Places
<1>5. Place(u, l.pc, l.op, give[u], usr[u].state, InRoom)
  BY <1>3, <1>4 DEF Place, GetPc
<1>6. Mutex'
  <2>1. /\ Getter(u) \in Users \X {"get", "give"}
        /\ \A v \in Users : Getter(v) = Getter(u) <=> v = u
        /\ \A v \in Users : Giver(v) # Getter(u)
    BY ThreadsDiffer
  <2>2. \A v \in Users : get'[v].pc = "section" <=> get[v].pc = "section" \/ v = u
    BY <1>3 DEF LineSet
  <2> QED
    BY <1>1, <1>2, <2>1, <2>2, MutexTaken
<1>7. UserSet(u, usr[u]) /\ usr[u].fcount \in Slots
  BY <1>1, <1>2, SameUser
<1> QED
  BY <1>2, <1>3, <1>5, <1>6, <1>7, GetterQuiet

(* A section ends in pc, with the mutex released.                          *)
LEMMA Leaves ==
    ASSUME IInv, NEW u \in Users, NEW pc \in {"used", "recv", "loggedIn", "done"},
           get[u].pc = "section", LeaveTo(u, pc)
    PROVE  /\ LineSet(u, [Idle EXCEPT !.pc = pc])
           /\ [Idle EXCEPT !.pc = pc].pc = pc
           /\ \A v \in Users : get'[v].pc = "section" => get[v].pc = "section" /\ v # u
           /\ UnlockBy(Getter(u)) /\ (broken => broken')
<1>1. Shapes
  BY DEF IInv
<1>2. get' = [get EXCEPT ![u] = [Idle EXCEPT !.pc = pc]] /\ UnlockBy(Getter(u))
  BY DEF LeaveTo
<1>3. LineShape([Idle EXCEPT !.pc = pc]) /\ [Idle EXCEPT !.pc = pc].pc = pc
  BY IdleShape
<1>4. LineSet(u, [Idle EXCEPT !.pc = pc])
  BY <1>1, <1>2, <1>3, SetsLine
<1>5. \A v \in Users : get'[v].pc = "section" => get[v].pc = "section" /\ v # u
  BY <1>3, <1>4 DEF LineSet
<1>6. broken => broken'
  BY <1>2 DEF UnlockBy
<1> QED
  BY <1>2, <1>3, <1>4, <1>5, <1>6

(* ... and then the mutex is as it should be, if GiveTask stays.           *)
LEMMA LeavesMutex ==
    ASSUME Mutex, NEW u \in Users, UnlockBy(Getter(u)),
           \A v \in Users : get'[v].pc = "section" => get[v].pc = "section" /\ v # u,
           \A v \in Users : give'[v] \in {"deliver", "free"} => give[v] \in {"deliver", "free"}
    PROVE  Mutex'
<1>1. /\ \A v \in Users : Getter(v) = Getter(u) <=> v = u
      /\ \A v \in Users : Giver(v) # Getter(u)
  BY ThreadsDiffer
<1> QED
  BY <1>1, MutexReleased

(* A section that changes nothing but what is sent ends, or the name is    *)
(* found in use.                                                           *)
LEMMA PlainSectionStep ==
    ASSUME IInv, NEW u \in Users,
           NameUsed(u) \/ ListUsers(u) \/ ListFriends(u) \/ Whisper(u) \/ Befriend(u)
    PROVE  IInv'
<1> DEFINE pc == IF get[u].op = "1" THEN "used" ELSE "recv"
           l == [Idle EXCEPT !.pc = pc]
<1>1. Shapes /\ Places /\ Mutex
  BY DEF IInv
<1>2. /\ get[u].pc = "section" /\ LeaveTo(u, pc)
      /\ give' = give /\ usr' = usr
      /\ UNCHANGED <<room, userCount, count, msgbuf, msgid, give, owed, got>>
  BY DEF NameUsed, ListUsers, ListFriends, Whisper, Befriend, InSection
<1>3. pc \in {"used", "recv", "loggedIn", "done"}
  OBVIOUS
<1>4. \/ get[u].op = "1" /\ pc = "used"
      \/ get[u].op # "1" /\ pc = "recv"
  OBVIOUS
<1> HIDE DEF pc
<1>5. /\ LineSet(u, l) /\ l.pc = pc
      /\ \A v \in Users : get'[v].pc = "section" => get[v].pc = "section" /\ v # u
      /\ UnlockBy(Getter(u)) /\ (broken => broken')
  BY <1>2, <1>3, Leaves
<1> HIDE DEF l
<1>6. Mutex'
  BY <1>1, <1>2, <1>5, LeavesMutex
<1>7. Place(u, "section", get[u].op, give[u], usr[u].state, InRoom)
  BY <1>1, <1>2 DEF Places
<1>8. Place(u, l.pc, l.op, give[u], usr[u].state, InRoom)
  BY <1>4, <1>5, <1>7 DEF Place, GetPc
<1>9. UserSet(u, usr[u]) /\ usr[u].fcount \in Slots
  BY <1>1, <1>2, SameUser
<1>10. l.pc # "section"
  BY <1>3, <1>5
<1> QED
  BY <1>2, <1>5, <1>6, <1>8, <1>9, <1>10, GetterQuiet

(* The mutex is released a second time.                                    *)
LEMMA UnlockAgainStep ==
    ASSUME IInv, NEW u \in Users, UnlockAgain(u)
    PROVE  IInv'
<1> DEFINE l == [get[u] EXCEPT !.pc = "recv"]
<1>1. Shapes /\ Places /\ Mutex
  BY DEF IInv
<1>2. /\ get[u].pc = "used" /\ UnlockBy(None) /\ get' = [get EXCEPT ![u].pc = "recv"]
      /\ give' = give /\ usr' = usr
      /\ UNCHANGED <<room, userCount, count, msgbuf, msgid, give, owed, got>>
  BY DEF UnlockAgain
<1>3. LineSet(u, l) /\ l.pc = "recv"
  BY <1>1, <1>2, SetsPc, LineFields DEF Shapes
<1> HIDE DEF l
<1>4. Place(u, "used", get[u].op, give[u], usr[u].state, InRoom)
  BY <1>1, <1>2 DEF Places
<1>5. Place(u, l.pc, l.op, give[u], usr[u].state, InRoom)
  BY <1>3, <1>4 DEF Place, GetPc
<1>6. Mutex' /\ (broken => broken')
  <2>1. \A v \in Users : Getter(v) # None /\ Giver(v) # None
    BY ThreadsDiffer
  <2>2. \A v \in Users : get'[v].pc = "section" => get[v].pc = "section"
    BY <1>3 DEF LineSet
  <2>3. Mutex'
    BY <1>1, <1>2, <2>1, <2>2, MutexReleased
  <2>4. broken => broken'
    BY <1>2 DEF UnlockBy
  <2> QED
    BY <2>3, <2>4
<1>7. UserSet(u, usr[u]) /\ usr[u].fcount \in Slots
  BY <1>1, <1>2, SameUser
<1> QED
  BY <1>2, <1>3, <1>5, <1>6, <1>7, GetterQuiet

(* The new user is in state 2, and is told so.                             *)
LEMMA WelcomeStep ==
    ASSUME IInv, NEW u \in Users, Welcome(u)
    PROVE  IInv'
<1> DEFINE pc == IF get[u].pc = "loggedIn" THEN "welcome" ELSE "recv"
           l == [get[u] EXCEPT !.pc = pc]
           r == [usr[u] EXCEPT !.state = 2]
<1>1. Shapes /\ Places /\ Mutex
  BY DEF IInv
<1>2. /\ \/ get[u].pc = "loggedIn" /\ pc = "welcome" /\ usr' = [usr EXCEPT ![u].state = 2]
         \/ get[u].pc = "welcome" /\ pc = "recv" /\ usr' = usr
      /\ get' = [get EXCEPT ![u].pc = pc]
      /\ lock' = lock /\ broken' = broken /\ give' = give
      /\ UNCHANGED <<room, userCount, count, msgbuf, msgid, give, owed, got>>
  BY DEF Welcome
<1> HIDE DEF pc
<1>3. LineSet(u, l) /\ l.pc = pc
  BY <1>1, <1>2, SetsPc, LineFields DEF Shapes
<1>4. UserShape(r) /\ r.state = 2 /\ r.fcount = usr[u].fcount /\ usr[u].fcount \in Slots
  <2>1. UserShape(usr[u]) /\ usr[u].fcount \in Slots
    BY <1>1 DEF Shapes
  <2> QED
    BY <2>1, StateField
<1> HIDE DEF l
<1>5. Place(u, get[u].pc, get[u].op, give[u], usr[u].state, InRoom)
  BY <1>1 DEF Places
<1>6. UserSet(u, r)
  <2>1. usr' = [usr EXCEPT ![u] = r]
    <3>1. CASE usr' = [usr EXCEPT ![u].state = 2]
      BY <3>1
    <3>2. CASE usr' = usr /\ get[u].pc = "welcome"
      <4>1. usr[u].state = 2
        BY <1>5, <3>2 DEF Place
      <4>2. r = usr[u]
        BY <1>1, <4>1 DEF Shapes, UserShape
      <4> QED
        BY <1>1, <3>2, <4>2 DEF Shapes
    <3> QED
      BY <1>2, <3>1, <3>2
  <2> HIDE DEF r
  <2> QED
    BY <1>1, <1>4, <2>1, SetsUser
<1> HIDE DEF r
<1>7. Place(u, l.pc, l.op, give[u], r.state, InRoom)
  BY <1>2, <1>3, <1>4, <1>5 DEF Place, GetPc
<1>8. usr[u].state # 4
  BY <1>2, <1>5 DEF Place
<1>9. Mutex'
  <2>1. \A v \in Users : get'[v].pc = "section" <=> get[v].pc = "section"
    BY <1>2, <1>3 DEF LineSet
  <2> QED
    BY <1>1, <1>2, <2>1, MutexStays
<1>10. l.pc # "section" /\ (r.state = 4 <=> usr[u].state = 4) /\ r.fcount \in Slots
  BY <1>2, <1>3, <1>4, <1>8
<1> QED
  BY <1>2, <1>3, <1>6, <1>7, <1>9, <1>10, GetterQuiet

(* A structure with another ring and another slot for the next friend.     *)
RingAndNext(r, fri, next) == [r EXCEPT !.fri = fri, !.fcount = next]

(* It keeps its fields.                                                    *)
LEMMA RingFields ==
    ASSUME NEW r, UserShape(r), NEW fri, NEW next
    PROVE  /\ UserShape(RingAndNext(r, fri, next))
           /\ RingAndNext(r, fri, next).state = r.state
           /\ RingAndNext(r, fri, next).fcount = next
<1> DEFINE s == [r EXCEPT !.fri = fri]
<1>1. UserShape(s) /\ s.state = r.state
  BY RingField
<1>2. RingAndNext(r, fri, next) = [s EXCEPT !.fcount = next]
  BY Zenon DEF RingAndNext
<1> HIDE DEF s
<1>3. /\ UserShape([s EXCEPT !.fcount = next]) /\ [s EXCEPT !.fcount = next].fcount = next
      /\ [s EXCEPT !.fcount = next].state = s.state
  BY <1>1, NextField
<1> QED
  BY <1>1, <1>2, <1>3

(* One entry more in the ring of user u.                                   *)
LEMMA LinkedOne ==
    ASSUME NEW us, us = [v \in Users |-> us[v]], \A v \in Users : UserShape(us[v]),
           \A v \in Users : us[v].fcount \in Slots, NEW u \in Users, NEW q
    PROVE  /\ Linked(us, u, q) = [v \in Users |-> Linked(us, u, q)[v]]
           /\ \A v \in Users : /\ UserShape(Linked(us, u, q)[v])
                               /\ Linked(us, u, q)[v].state = us[v].state
                               /\ Linked(us, u, q)[v].fcount \in Slots
<1> DEFINE fri == [us[u].fri EXCEPT ![us[u].fcount] = q]
           next == (us[u].fcount + 1) % LISTENQ
           s == RingAndNext(us[u], fri, next)
<1>1. UserShape(us[u]) /\ us[u].fcount \in Slots
  OBVIOUS
<1>2. next \in Slots
  BY <1>1, NewUser
<1>3. Linked(us, u, q) = [us EXCEPT ![u] = s]
  <2>1. Linked(us, u, q) = [us EXCEPT ![u].fri = fri, ![u].fcount = next]
    BY Zenon DEF Linked
  <2> HIDE DEF fri, next
  <2>2. [us EXCEPT ![u].fri = fri, ![u].fcount = next] = [us EXCEPT ![u] = s]
    BY DEF RingAndNext
  <2> QED
    BY <2>1, <2>2, Zenon
<1> HIDE DEF next, fri
<1>4. UserShape(s) /\ s.state = us[u].state /\ s.fcount = next
  BY <1>1, RingFields
<1> HIDE DEF s
<1> QED
  BY <1>2, <1>3, <1>4

(* A request is answered.                                                  *)
LEMMA AnswerStep ==
    ASSUME IInv, NEW u \in Users, Answer(u)
    PROVE  IInv'
<1> DEFINE q == Find(get[u].arg)
           l == [Idle EXCEPT !.pc = "recv"]
<1>1. Shapes /\ Places /\ Mutex /\ ListWell
  BY DEF IInv
<1>2. /\ get[u].pc = "section" /\ get[u].op \in {"y", "n"} /\ LeaveTo(u, "recv")
      /\ usr' = IF q # None /\ get[u].op = "y" THEN Linked(Linked(usr, q, u), u, q) ELSE usr
      /\ give' = give
      /\ UNCHANGED <<room, userCount, count, msgbuf, msgid, give, owed, got>>
  BY DEF Answer
<1>3. q = None \/ q \in Users
  BY <1>1, FindIs
<1> HIDE DEF q
<1>4. /\ usr' = [v \in Users |-> usr'[v]]
      /\ \A v \in Users : /\ UserShape(usr'[v]) /\ usr'[v].state = usr[v].state
                          /\ usr'[v].fcount \in Slots
  <2>1. /\ usr = [v \in Users |-> usr[v]]
        /\ \A v \in Users : UserShape(usr[v]) /\ usr[v].fcount \in Slots
    BY <1>1 DEF Shapes
  <2>2. CASE usr' = usr
    BY <2>1, <2>2
  <2>3. CASE q # None /\ usr' = Linked(Linked(usr, q, u), u, q)
    <3> DEFINE us == Linked(usr, q, u)
    <3>1. /\ us = [v \in Users |-> us[v]]
          /\ \A v \in Users : /\ UserShape(us[v]) /\ us[v].state = usr[v].state
                              /\ us[v].fcount \in Slots
      BY <1>3, <2>1, <2>3, LinkedOne
    <3>2. usr' = Linked(us, u, q)
      BY <2>3
    <3> HIDE DEF us
    <3>3. /\ Linked(us, u, q) = [v \in Users |-> Linked(us, u, q)[v]]
          /\ \A v \in Users : /\ UserShape(Linked(us, u, q)[v])
                              /\ Linked(us, u, q)[v].state = us[v].state
                              /\ Linked(us, u, q)[v].fcount \in Slots
      BY <3>1, LinkedOne
    <3> QED
      BY <3>1, <3>2, <3>3
  <2> QED
    BY <1>2, <2>2, <2>3
<1>5. /\ LineSet(u, l) /\ l.pc = "recv"
      /\ \A v \in Users : get'[v].pc = "section" => get[v].pc = "section" /\ v # u
      /\ UnlockBy(Getter(u)) /\ (broken => broken')
  BY <1>2, Leaves
<1> HIDE DEF l
<1>6. Mutex'
  BY <1>1, <1>2, <1>5, LeavesMutex
<1>7. Shapes'
  BY <1>1, <1>2, <1>4, <1>5 DEF Shapes, LineSet
<1>8. Place(u, "section", get[u].op, give[u], usr[u].state, InRoom)
  BY <1>1, <1>2 DEF Places
<1>9. Place(u, get'[u].pc, get'[u].op, give'[u], usr'[u].state, InRoom)
  BY <1>2, <1>4, <1>5, <1>8 DEF Place, GetPc, LineSet
<1>10. \A v \in Users : v # u => Place(v, get'[v].pc, get'[v].op, give'[v], usr'[v].state, InRoom)
  BY <1>1, <1>2, <1>4, <1>5 DEF Places, LineSet
<1>11. \A v \in Users : get'[v].pc = "section" => get[v].pc = "section" /\ get'[v].op = get[v].op
  BY <1>5 DEF LineSet
<1> QED
  BY <1>2, <1>4, <1>5, <1>6, <1>7, <1>9, <1>10, <1>11, QuietStep

-----------------------------------------------------------------------------
(* The steps of GiveTask that leave the message alone.                     *)

(* A step that changes user u's GiveTask, and of the users at most u.      *)
LEMMA GiverQuiet ==
    ASSUME IInv, NEW u \in Users, NEW x \in GivePc, NEW r, GiveSet(u, x),
           UNCHANGED <<room, userCount, count, msgbuf, msgid, get, owed, got>>,
           Mutex', broken => broken',
           UserSet(u, r), r.fcount \in Slots, r.state = 4 <=> usr[u].state = 4,
           give[u] # "done",
           x \in {"woken", "deliver"} => give[u] \in {"woken", "deliver"},
           Place(u, get[u].pc, get[u].op, x, r.state, InRoom)
    PROVE  IInv'
<1>1. Shapes /\ Places
  BY DEF IInv
<1>2. Shapes'
  BY <1>1, ShapesKept
<1>3. /\ give'[u] = x /\ usr'[u] = r
      /\ \A v \in Users : v # u => give'[v] = give[v] /\ usr'[v] = usr[v]
  BY DEF GiveSet, UserSet
<1>4. \A v \in Users : Place(v, get'[v].pc, get'[v].op, give'[v], usr'[v].state, InRoom)
  <2>1. Place(u, get'[u].pc, get'[u].op, give'[u], usr'[u].state, InRoom)
    BY <1>3
  <2>2. \A v \in Users : v # u => Place(v, get'[v].pc, get'[v].op, give'[v], usr'[v].state, InRoom)
    BY <1>1, <1>3 DEF Places
  <2> QED
    BY <2>1, <2>2
<1> QED
  BY <1>2, <1>3, <1>4, QuietStep

(* The state of the user is read.                                          *)
LEMMA LookStep ==
    ASSUME IInv, NEW u \in Users, Look(u)
    PROVE  IInv'
<1> DEFINE s == usr[u].state
           x == CASE s = 2 -> "toWait" [] s = 4 -> "toFree" [] OTHER -> "done"
           r == IF s = 5 THEN NoUser ELSE usr[u]
<1>1. Shapes /\ Places /\ Mutex
  BY DEF IInv
<1>2. /\ give[u] = "loop" /\ s \in {2, 4, 5} /\ give' = [give EXCEPT ![u] = x]
      /\ usr' = IF s = 5 THEN [usr EXCEPT ![u] = NoUser] ELSE usr
      /\ lock' = lock /\ broken' = broken
      /\ UNCHANGED <<room, userCount, count, msgbuf, msgid, get, owed, got>>
  BY DEF Look
<1>3. \/ s = 2 /\ x = "toWait" /\ r = usr[u]
      \/ s = 4 /\ x = "toFree" /\ r = usr[u]
      \/ s = 5 /\ x = "done" /\ r = NoUser
  BY <1>2
<1>4. UserSet(u, r) /\ r.fcount \in Slots
  <2>1. CASE s = 5
    BY <1>1, <1>2, <1>3, <2>1, NewUser, SetsUser
  <2>2. CASE s # 5
    BY <1>1, <1>2, <1>3, <2>2, SameUser
  <2> QED
    BY <2>1, <2>2
<1>5. r.state = IF s = 5 THEN 0 ELSE s
  BY NewUser
<1> HIDE DEF x, r
<1>6. x \in GivePc /\ x \notin {"woken", "deliver", "free"}
  BY <1>3 DEF GivePc
<1>7. GiveSet(u, x)
  BY <1>1, <1>2, <1>6, SetsGive
<1>8. Place(u, get[u].pc, get[u].op, "loop", s, InRoom)
  BY <1>1, <1>2 DEF Places
<1>9. Place(u, get[u].pc, get[u].op, x, r.state, InRoom)
  BY <1>3, <1>5, <1>8 DEF Place, GetPc
<1>10. Mutex'
  <2>1. \A v \in Users : give'[v] \in {"deliver", "free"} <=> give[v] \in {"deliver", "free"}
    BY <1>2, <1>6, <1>7 DEF GiveSet
  <2> QED
    BY <1>1, <1>2, <2>1, MutexStays
<1>11. r.state = 4 <=> s = 4
  BY <1>2, <1>5
<1> QED
  BY <1>2, <1>4, <1>6, <1>7, <1>9, <1>10, <1>11, GiverQuiet

(* GiveTask waits for a message.                                           *)
LEMMA WaitStep ==
    ASSUME IInv, NEW u \in Users, Wait(u)
    PROVE  IInv'
<1>1. Shapes /\ Places /\ Mutex
  BY DEF IInv
<1>2. /\ give[u] = "toWait" /\ give' = [give EXCEPT ![u] = "waiting"]
      /\ usr' = usr /\ lock' = lock /\ broken' = broken
      /\ UNCHANGED <<room, userCount, count, msgbuf, msgid, get, owed, got>>
  BY DEF Wait
<1>3. GiveSet(u, "waiting") /\ "waiting" \in GivePc
  BY <1>1, <1>2, SetsGive DEF GivePc
<1>4. UserSet(u, usr[u]) /\ usr[u].fcount \in Slots
  BY <1>1, <1>2, SameUser
<1>5. Place(u, get[u].pc, get[u].op, "toWait", usr[u].state, InRoom)
  BY <1>1, <1>2 DEF Places
<1>6. Place(u, get[u].pc, get[u].op, "waiting", usr[u].state, InRoom)
  BY <1>5 DEF Place
<1>7. Mutex'
  <2>1. \A v \in Users : give'[v] \in {"deliver", "free"} <=> give[v] \in {"deliver", "free"}
    BY <1>2, <1>3 DEF GiveSet
  <2> QED
    BY <1>1, <1>2, <2>1, MutexStays
<1> QED
  BY <1>2, <1>3, <1>4, <1>6, <1>7, GiverQuiet

(* It wakes up, or takes the mutex to free the user.                       *)
LEMMA WakeStep ==
    ASSUME IInv, NEW u \in Users, Wake(u)
    PROVE  IInv'
<1> DEFINE x == IF give[u] = "woken" THEN "deliver" ELSE "free"
<1>1. Shapes /\ Places /\ Mutex
  BY DEF IInv
<1>2. /\ give[u] \in {"woken", "toFree"} /\ MutexFree /\ lock' = Giver(u)
      /\ broken' = broken /\ give' = [give EXCEPT ![u] = x] /\ usr' = usr
      /\ UNCHANGED <<room, userCount, count, msgbuf, msgid, get, owed, got>>
  BY DEF Wake
<1>3. \/ give[u] = "woken" /\ x = "deliver"
      \/ give[u] = "toFree" /\ x = "free"
  BY <1>2
<1> HIDE DEF x
<1>4. x \in GivePc /\ x \in {"deliver", "free"}
  BY <1>3 DEF GivePc
<1>5. GiveSet(u, x)
  BY <1>1, <1>2, <1>4, SetsGive
<1>6. UserSet(u, usr[u]) /\ usr[u].fcount \in Slots
  BY <1>1, <1>2, SameUser
<1>7. Place(u, get[u].pc, get[u].op, give[u], usr[u].state, InRoom)
  BY <1>1 DEF Places
<1>8. Place(u, get[u].pc, get[u].op, x, usr[u].state, InRoom)
  BY <1>3, <1>7 DEF Place
<1>9. Mutex'
  <2>1. /\ Giver(u) \in Users \X {"get", "give"}
        /\ \A v \in Users : Giver(v) = Giver(u) <=> v = u
        /\ \A v \in Users : Getter(v) # Giver(u)
    BY ThreadsDiffer
  <2>2. \A v \in Users : give'[v] \in {"deliver", "free"} <=>
                           give[v] \in {"deliver", "free"} \/ v = u
    BY <1>4, <1>5 DEF GiveSet
  <2> QED
    BY <1>1, <1>2, <2>1, <2>2, MutexTaken
<1> QED
  BY <1>2, <1>3, <1>4, <1>5, <1>6, <1>8, <1>9, GiverQuiet

(* A message is passed on.                                                 *)
LEMMA DeliverStep ==
    ASSUME IInv, NEW u \in Users, Deliver(u)
    PROVE  IInv'
<1>1. Shapes /\ Places /\ Mutex
  BY DEF IInv
<1>2. /\ give[u] = "deliver" /\ give' = [give EXCEPT ![u] = "loop"] /\ usr' = usr
      /\ UnlockBy(Giver(u)) /\ UNCHANGED <<room, userCount, msgbuf, msgid, get>>
  BY DEF Deliver
<1>3. GiveSet(u, "loop") /\ "loop" \in GivePc
  BY <1>1, <1>2, SetsGive DEF GivePc
<1>4. UserSet(u, usr[u]) /\ usr[u].fcount \in Slots
  BY <1>1, <1>2, SameUser
<1>5. Place(u, get[u].pc, get[u].op, "deliver", usr[u].state, InRoom)
  BY <1>1, <1>2 DEF Places
<1>6. Place(u, get[u].pc, get[u].op, "loop", usr[u].state, InRoom)
  BY <1>5 DEF Place
<1>7. Mutex' /\ (broken => broken')
  <2>1. /\ \A v \in Users : Giver(v) = Giver(u) <=> v = u
        /\ \A v \in Users : Getter(v) # Giver(u)
    BY ThreadsDiffer
  <2>2. \A v \in Users : give'[v] \in {"deliver", "free"} =>
                           give[v] \in {"deliver", "free"} /\ v # u
    BY <1>3 DEF GiveSet
  <2>3. Mutex'
    BY <1>1, <1>2, <2>1, <2>2, MutexReleased
  <2>4. broken => broken'
    BY <1>2 DEF UnlockBy
  <2> QED
    BY <2>3, <2>4
<1>8. CASE UNCHANGED <<count, owed, got>>
  BY <1>2, <1>3, <1>4, <1>6, <1>7, <1>8, GiverQuiet
<1>9. CASE /\ msgid # u /\ count' = count - 1 /\ owed' = owed \ {u}
           /\ got' = [got EXCEPT ![u] = msgbuf.no]
  <2>1. InRoom' = InRoom /\ Present' = Present
    BY <1>2 DEF InRoom, Present
  <2>2. Shapes'
    BY <1>1, <1>2, <1>3, <1>4, ShapesKept
  <2>3. /\ give'[u] = "loop" /\ \A v \in Users : v # u => give'[v] = give[v]
    BY <1>3 DEF GiveSet
  <2>4. ListWell'
    BY <1>2 DEF IInv, ListWell
  <2>5. Places'
    <3>1. \A v \in Users : v # u => Place(v, get'[v].pc, get'[v].op, give'[v], usr'[v].state, InRoom')
      BY <1>1, <1>2, <2>1, <2>3 DEF Places
    <3>2. Place(u, get'[u].pc, get'[u].op, give'[u], usr'[u].state, InRoom')
      BY <1>2, <1>6, <2>1, <2>3
    <3> QED
      BY <3>1, <3>2 DEF Places
  <2>6. NobodyQuit' => NobodyQuit
    BY <1>2, <2>3 DEF NobodyQuit
  <2>7. Counters /\ Takers /\ Writers
    BY DEF IInv
  <2>8. NobodyQuit => u \in owed
    BY <1>2, <1>9, <2>7 DEF Takers
  <2>9. Counters'
    <3>1. IsFiniteSet(owed) /\ owed \in SUBSET Users /\ count \in Int
      BY <2>7, FS_Subset, RoomAssumption DEF Counters
    <3>2. /\ Cardinality(owed) \in Nat /\ Cardinality(owed \ {u}) \in Nat
          /\ Cardinality(owed \ {u}) =
               IF u \in owed THEN Cardinality(owed) - 1 ELSE Cardinality(owed)
      BY <3>1, FS_RemoveElement, FS_CardinalityType
    <3>3. count - 1 \in Int /\ owed \ {u} \in SUBSET Users
      BY <3>1
    <3>4. count - 1 <= Cardinality(owed \ {u})
      BY <2>7, <3>1, <3>2 DEF Counters
    <3>5. NobodyQuit' => count - 1 = Cardinality(owed \ {u})
      BY <2>6, <2>7, <2>8, <3>1, <3>2 DEF Counters
    <3>6. userCount' = Cardinality(Present')
      BY <1>2, <2>1, <2>7 DEF Counters
    <3> QED
      BY <1>9, <3>3, <3>4, <3>5, <3>6, Zenon DEF Counters
  <2>10. Writers'
    <3>1. count \in Int
      BY <2>7 DEF Counters
    <3>2. count <= 0 => count - 1 <= 0
      BY <3>1
    <3>3. count <= 0 => count' <= 0
      BY <1>9, <3>2, Zenon
    <3> QED
      BY <1>2, <1>7, <2>7, <3>3 DEF Writers
  <2>11. Takers'
    <3>1. msgbuf.no \in Nat /\ got \in [Users -> Nat]
      BY <2>7 DEF Takers
    <3>2. /\ got' \in [Users -> Nat] /\ got'[u] = msgbuf.no
          /\ \A v \in Users : v # u => got'[v] = got[v]
      BY <1>9, <3>1
    <3>3. ASSUME NEW v \in Users
          PROVE  /\ got'[v] <= msgbuf.no
                 /\ give'[v] \in {"woken", "deliver"} /\ msgid # v =>
                      got'[v] < msgbuf.no /\ (NobodyQuit' => v \in owed')
      <4>1. CASE v = u
        <5>1. msgbuf.no <= msgbuf.no
          BY <3>1
        <5> QED
          BY <2>3, <3>2, <4>1, <5>1
      <4>2. CASE v # u
        BY <1>9, <2>3, <2>6, <2>7, <3>2, <4>2 DEF Takers
      <4> QED
        BY <4>1, <4>2
    <3> QED
      BY <1>2, <3>1, <3>2, <3>3 DEF Takers
  <2> QED
    BY <1>7, <2>2, <2>4, <2>5, <2>9, <2>10, <2>11 DEF IInv
<1> QED
  BY <1>8, <1>9 DEF Deliver

-----------------------------------------------------------------------------
(* The steps that write the message buffer.                                *)

(* Broadcast only makes runnable who waits.                                *)
LEMMA Broadcasting ==
    ASSUME Shapes, give' = Broadcast
    PROVE  /\ give' \in [Users -> GivePc]
           /\ \A v \in Users : give'[v] = IF give[v] = "waiting" THEN "woken" ELSE give[v]
<1>1. give \in [Users -> GivePc]
  BY DEF Shapes
<1>2. "woken" \in GivePc
  BY DEF GivePc
<1> QED
  BY <1>1, <1>2 DEF Broadcast

(* A user stays where it was when others enter or leave the list.          *)
LEMMA PlaceKept ==
    ASSUME NEW u, NEW pc, NEW op, NEW giv, NEW st, NEW in, NEW out,
           Place(u, pc, op, giv, st, in), u \in out <=> u \in in
    PROVE  /\ Place(u, pc, op, giv, st, out)
           /\ giv = "waiting" => Place(u, pc, op, "woken", st, out)
  BY DEF Place

(* User u writes the buffer and leaves its section to pc, with structure r *)
(* and the list and userCount as they are to be.                           *)
LEMMA PostStep ==
    ASSUME IInv, NEW u \in Users, get[u].pc = "section",
           NEW pc \in {"recv", "loggedIn", "done"}, LeaveTo(u, pc),
           NEW kind, NEW n, Post(u, kind, n), n = Cardinality(Present \ {u}),
           NEW r, UserSet(u, r), r.fcount \in Slots, r.state \in {1, 2, 4},
           usr[u].state = 4 => r.state = 4,
           ListWell', \A v \in Users : v # u => (v \in InRoom' <=> v \in InRoom),
           userCount' = Cardinality(Present'), got' = got,
           \A giv : Place(u, "section", get[u].op, giv, usr[u].state, InRoom)
                      => Place(u, pc, "none", giv, r.state, InRoom')
    PROVE  IInv'
<1> DEFINE l == [Idle EXCEPT !.pc = pc]
<1>1. Shapes /\ Places /\ Mutex /\ Counters /\ Takers /\ ListWell
  BY DEF IInv
<1>2. /\ count' = n /\ msgbuf' = [no |-> msgbuf.no + 1, kind |-> kind] /\ msgid' = u
      /\ give' = Broadcast /\ owed' = Present \ {u}
  BY DEF Post
<1>3. /\ LineSet(u, l) /\ l.pc = pc
      /\ \A v \in Users : get'[v].pc = "section" => get[v].pc = "section" /\ v # u
      /\ UnlockBy(Getter(u)) /\ (broken => broken')
  BY Leaves
<1>4. l.op = "none"
  BY DEF Idle
<1> HIDE DEF l
<1>5. /\ give' \in [Users -> GivePc]
      /\ \A v \in Users : give'[v] = IF give[v] = "waiting" THEN "woken" ELSE give[v]
  BY <1>1, <1>2, Broadcasting
<1>6. Shapes'
  BY <1>1, <1>3, <1>5 DEF Shapes, LineSet, UserSet
<1>7. Mutex'
  BY <1>1, <1>3, <1>5, LeavesMutex
<1>8. /\ get'[u] = l /\ usr'[u] = r
      /\ \A v \in Users : v # u => get'[v] = get[v] /\ usr'[v] = usr[v]
  BY <1>3 DEF LineSet, UserSet
<1>9. Places'
  <2>1. ASSUME NEW v \in Users, v # u
        PROVE  Place(v, get'[v].pc, get'[v].op, give'[v], usr'[v].state, InRoom')
    <3>1. Place(v, get[v].pc, get[v].op, give[v], usr[v].state, InRoom)
      BY <1>1 DEF Places
    <3>2. Place(v, get[v].pc, get[v].op, give'[v], usr[v].state, InRoom')
      BY <1>5, <2>1, <3>1, PlaceKept
    <3> QED
      BY <1>8, <2>1, <3>2
  <2>2. Place(u, get'[u].pc, get'[u].op, give'[u], usr'[u].state, InRoom')
    <3>1. Place(u, "section", get[u].op, give[u], usr[u].state, InRoom)
      BY <1>1 DEF Places
    <3>2. Place(u, pc, "none", give[u], r.state, InRoom')
      BY <3>1
    <3>3. Place(u, pc, "none", give'[u], r.state, InRoom')
      BY <1>5, <3>2, PlaceKept
    <3> QED
      BY <1>3, <1>4, <1>8, <3>3
  <2> QED
    BY <2>1, <2>2 DEF Places
<1>10. NobodyQuit' => NobodyQuit
  BY <1>5, <1>8 DEF NobodyQuit
<1>11. Present \ {u} \in SUBSET Users /\ IsFiniteSet(Present \ {u})
  <2>1. Present \ {u} \in SUBSET Users
    BY <1>1 DEF ListWell, Present, InRoom
  <2> QED
    BY <2>1, FS_Subset, RoomAssumption
<1>12. Counters'
  <2>1. Cardinality(Present \ {u}) \in Nat
    BY <1>11, FS_CardinalityType
  <2>2. n \in Int /\ n <= Cardinality(Present \ {u})
    BY <2>1
  <2> QED
    BY <1>2, <1>11, <2>2, Zenon DEF Counters
<1>13. Writers'
  <2>1. ASSUME ~broken', NEW v \in Users
        PROVE  get'[v].pc # "section"
    <3>1. ~broken /\ lock \in {None, Getter(u)}
      BY <1>3, <2>1 DEF UnlockBy
    <3>2. get[v].pc = "section" => v = u
      BY <1>1, <3>1, ThreadsDiffer DEF Mutex
    <3> QED
      BY <1>3, <3>2
  <2> QED
    BY <2>1 DEF Writers
<1>14. Takers'
  <2>1. msgbuf.no \in Nat /\ got \in [Users -> Nat] /\ \A v \in Users : got[v] <= msgbuf.no
    BY <1>1 DEF Takers
  <2>2. msgbuf'.no = msgbuf.no + 1
    BY <1>2
  <2>3. /\ msgbuf.no + 1 \in Nat
        /\ \A v \in Users : got[v] <= msgbuf.no + 1 /\ got[v] < msgbuf.no + 1
    BY <2>1
  <2>4. ASSUME NEW v \in Users, give'[v] \in {"woken", "deliver"}, u # v, NobodyQuit'
        PROVE  v \in Present \ {u}
    <3>1. give[v] \in {"waiting", "woken", "deliver"}
      BY <1>5, <2>4
    <3>2. Place(v, get[v].pc, get[v].op, give[v], usr[v].state, InRoom)
      BY <1>1 DEF Places
    <3>3. v \in InRoom
      BY <3>1, <3>2 DEF Place
    <3>4. usr[v].state # 4
      BY <1>10, <2>4 DEF NobodyQuit
    <3> QED
      BY <2>4, <3>3, <3>4 DEF Present
  <2>5. msgbuf'.no \in Nat
    BY <2>2, <2>3, Zenon
  <2>6. \A v \in Users : got'[v] <= msgbuf'.no /\ got'[v] < msgbuf'.no
    BY <2>2, <2>3, Zenon
  <2>7. got' \in [Users -> Nat]
    BY <2>1
  <2>8. \A v \in Users : give'[v] \in {"woken", "deliver"} /\ msgid' # v
                           => (NobodyQuit' => v \in owed')
    BY <1>2, <2>4, Zenon
  <2> QED
    BY <2>5, <2>6, <2>7, <2>8, Zenon DEF Takers
<1> QED
  BY <1>6, <1>7, <1>9, <1>12, <1>13, <1>14 DEF IInv

(* Say: the message of user u is for all the others who are present.       *)
LEMMA SayStep ==
    ASSUME IInv, NEW u \in Users, Say(u)
    PROVE  IInv'
<1>1. Shapes /\ Places /\ Counters /\ ListWell
  BY DEF IInv
<1>2. /\ get[u].pc = "section" /\ get[u].op = "2" /\ LeaveTo(u, "recv")
      /\ Post(u, "2", userCount - 1) /\ room' = room /\ userCount' = userCount
      /\ usr' = usr /\ got' = got
  BY DEF Say, InSection
<1>3. UserSet(u, usr[u]) /\ usr[u].fcount \in Slots
  BY <1>1, <1>2, SameUser
<1>4. Place(u, "section", "2", give[u], usr[u].state, InRoom)
  BY <1>1, <1>2 DEF Places
<1>5. usr[u].state = 2 /\ u \in InRoom
  BY <1>4 DEF Place
<1>6. u \in Present
  BY <1>5 DEF Present
<1>7. InRoom' = InRoom /\ Present' = Present
  BY <1>2 DEF InRoom, Present
<1>8. userCount - 1 = Cardinality(Present \ {u})
  <2>1. Present \in SUBSET Users
    BY <1>1 DEF ListWell, Present, InRoom
  <2>2. IsFiniteSet(Present)
    BY <2>1, FS_Subset, RoomAssumption
  <2>3. Cardinality(Present \ {u}) = Cardinality(Present) - 1
    BY <1>6, <2>2, FS_RemoveElement
  <2> QED
    BY <1>1, <2>3 DEF Counters
<1>9. ListWell'
  BY <1>1, <1>2 DEF ListWell
<1>10. userCount' = Cardinality(Present')
  BY <1>1, <1>2, <1>7 DEF Counters
<1>11. \A giv : Place(u, "section", get[u].op, giv, usr[u].state, InRoom)
                  => Place(u, "recv", "none", giv, usr[u].state, InRoom')
  BY <1>2, <1>5, <1>7 DEF Place, GetPc
<1> QED
  BY <1>2, <1>3, <1>5, <1>7, <1>8, <1>9, <1>10, <1>11, PostStep

(* Quit: the user counts as absent from here on.                           *)
LEMMA QuitStep ==
    ASSUME IInv, NEW u \in Users, Quit(u)
    PROVE  IInv'
<1> DEFINE r == [usr[u] EXCEPT !.state = 4]
<1>1. Shapes /\ Places /\ Counters /\ ListWell
  BY DEF IInv
<1>2. /\ get[u].pc = "section" /\ get[u].op = "4" /\ LeaveTo(u, "done")
      /\ userCount' = userCount - 1 /\ Post(u, "@", userCount - 1) /\ room' = room
      /\ usr' = [usr EXCEPT ![u] = r] /\ got' = got
  <2>1. usr' = [usr EXCEPT ![u].state = 4] /\ userCount' = userCount - 1 /\ Post(u, "@", userCount')
    BY DEF Quit
  <2>2. Post(u, "@", userCount - 1)
    BY <2>1 DEF Post
  <2> QED
    BY <2>1, <2>2 DEF Quit, InSection
<1>3. UserShape(r) /\ r.state = 4 /\ r.fcount = usr[u].fcount /\ usr[u].fcount \in Slots
  <2>1. UserShape(usr[u]) /\ usr[u].fcount \in Slots
    BY <1>1 DEF Shapes
  <2> QED
    BY <2>1, StateField
<1> HIDE DEF r
<1>4. UserSet(u, r)
  BY <1>1, <1>2, <1>3, SetsUser
<1>5. Place(u, "section", "4", give[u], usr[u].state, InRoom)
  BY <1>1, <1>2 DEF Places
<1>6. usr[u].state = 2 /\ u \in InRoom
  BY <1>5 DEF Place
<1>7. u \in Present
  BY <1>6 DEF Present
<1>8. InRoom' = InRoom /\ InRoom \in SUBSET Users
  BY <1>1, <1>2 DEF InRoom, ListWell
<1>9. Present' = Present \ {u}
  BY <1>3, <1>4, <1>8 DEF Present, UserSet
<1>10. userCount - 1 = Cardinality(Present \ {u})
  <2>1. Present \in SUBSET Users
    BY <1>8 DEF Present
  <2>2. IsFiniteSet(Present)
    BY <2>1, FS_Subset, RoomAssumption
  <2>3. Cardinality(Present \ {u}) = Cardinality(Present) - 1
    BY <1>7, <2>2, FS_RemoveElement
  <2> QED
    BY <1>1, <2>3 DEF Counters
<1>11. ListWell'
  BY <1>1, <1>2 DEF ListWell
<1>12. userCount' = Cardinality(Present')
  BY <1>2, <1>9, <1>10, Zenon
<1>13. \A giv : Place(u, "section", get[u].op, giv, usr[u].state, InRoom)
                  => Place(u, "done", "none", giv, r.state, InRoom')
  BY <1>2, <1>3, <1>6, <1>8 DEF Place, GetPc
<1> QED
  BY <1>2, <1>3, <1>4, <1>8, <1>10, <1>11, <1>12, <1>13, PostStep

(* A user put before the list.                                             *)
LEMMA Prepended ==
    ASSUME NEW s \in Seq(Users), \A i, j \in DOMAIN s : s[i] = s[j] => i = j,
           NEW u \in Users, u \notin {s[i] : i \in DOMAIN s}
    PROVE  LET t == <<u>> \o s
           IN  /\ t \in Seq(Users)
               /\ \A i, j \in DOMAIN t : t[i] = t[j] => i = j
               /\ {t[i] : i \in DOMAIN t} = {s[i] : i \in DOMAIN s} \cup {u}
<1> DEFINE t == <<u>> \o s
<1>1. t \in Seq(Users) /\ Len(t) = Len(s) + 1 /\ Len(s) \in Nat
  OBVIOUS
<1>2. \A i \in 1 .. Len(s) + 1 : t[i] = IF i = 1 THEN u ELSE s[i - 1]
  OBVIOUS
<1>3. DOMAIN s = 1 .. Len(s) /\ DOMAIN t = 1 .. Len(s) + 1
  BY <1>1
<1> HIDE DEF t
<1>4. ASSUME NEW i \in DOMAIN t, NEW j \in DOMAIN t, t[i] = t[j]
      PROVE  i = j
  <2>1. \A k \in DOMAIN t : k # 1 => k - 1 \in DOMAIN s /\ t[k] = s[k - 1]
    BY <1>1, <1>2, <1>3
  <2>2. CASE i = 1 /\ j = 1
    BY <2>2
  <2>3. CASE i = 1 /\ j # 1
    BY <1>1, <1>2, <1>3, <1>4, <2>1, <2>3
  <2>4. CASE i # 1 /\ j = 1
    BY <1>1, <1>2, <1>3, <1>4, <2>1, <2>4
  <2>5. CASE i # 1 /\ j # 1
    <3>1. i - 1 = j - 1
      BY <1>4, <2>1, <2>5
    <3> QED
      BY <1>1, <1>3, <3>1
  <2> QED
    BY <2>2, <2>3, <2>4, <2>5
<1>5. {t[i] : i \in DOMAIN t} = {s[i] : i \in DOMAIN s} \cup {u}
  <2>1. ASSUME NEW i \in DOMAIN t
        PROVE  t[i] \in {s[k] : k \in DOMAIN s} \cup {u}
    BY <1>1, <1>2, <1>3
  <2>2. ASSUME NEW i \in DOMAIN s
        PROVE  i + 1 \in DOMAIN t /\ t[i + 1] = s[i]
    BY <1>1, <1>2, <1>3
  <2>3. 1 \in DOMAIN t /\ t[1] = u
    BY <1>1, <1>2, <1>3
  <2> QED
    BY <2>1, <2>2, <2>3
<1> QED
  BY <1>1, <1>4, <1>5 DEF t

(* LogIn: the user is put into the list, and told of to who is there.      *)
LEMMA LogInStep ==
    ASSUME IInv, NEW u \in Users, LogIn(u)
    PROVE  IInv'
<1> DEFINE r == [usr[u] EXCEPT !.fcount = 0]
<1>1. Shapes /\ Places /\ Counters /\ ListWell
  BY DEF IInv
<1>2. /\ get[u].pc = "section" /\ get[u].op = "1" /\ LeaveTo(u, "loggedIn")
      /\ userCount' = userCount + 1 /\ Post(u, "&", userCount) /\ room' = <<u>> \o room
      /\ usr' = [usr EXCEPT ![u] = r] /\ got' = got
  BY DEF LogIn, InSection
<1>3. UserShape(r) /\ r.state = usr[u].state /\ r.fcount = 0 /\ 0 \in Slots
  <2>1. UserShape(usr[u])
    BY <1>1 DEF Shapes
  <2>2. UserShape(r) /\ r.state = usr[u].state /\ r.fcount = 0
    BY <2>1, NextField
  <2> QED
    BY <2>2, NewUser
<1> HIDE DEF r
<1>4. UserSet(u, r)
  BY <1>1, <1>2, <1>3, SetsUser
<1>5. Place(u, "section", "1", give[u], usr[u].state, InRoom)
  BY <1>1, <1>2 DEF Places
<1>6. usr[u].state = 1 /\ u \notin InRoom
  BY <1>5 DEF Place
<1>7. ListWell' /\ InRoom' = InRoom \cup {u}
  <2>1. /\ <<u>> \o room \in Seq(Users)
        /\ \A i, j \in DOMAIN (<<u>> \o room) : (<<u>> \o room)[i] = (<<u>> \o room)[j] => i = j
        /\ {(<<u>> \o room)[i] : i \in DOMAIN (<<u>> \o room)} = InRoom \cup {u}
    BY <1>1, <1>6, Prepended DEF ListWell, InRoom
  <2> QED
    BY <1>2, <2>1, Zenon DEF ListWell, InRoom
<1>8. InRoom \in SUBSET Users
  BY <1>1 DEF InRoom, ListWell
<1>9. Present' = Present \cup {u} /\ u \notin Present
  BY <1>3, <1>4, <1>6, <1>7, <1>8 DEF Present, UserSet
<1>10. Present \ {u} = Present
  BY <1>9
<1>11. Cardinality(Present \cup {u}) = Cardinality(Present) + 1
  <2>1. Present \in SUBSET Users
    BY <1>8 DEF Present
  <2>2. IsFiniteSet(Present)
    BY <2>1, FS_Subset, RoomAssumption
  <2> QED
    BY <1>9, <2>2, FS_AddElement
<1>12. userCount = Cardinality(Present \ {u}) /\ userCount' = Cardinality(Present')
  BY <1>1, <1>2, <1>9, <1>10, <1>11, Zenon DEF Counters
<1>13. \A giv : Place(u, "section", get[u].op, giv, usr[u].state, InRoom)
                  => Place(u, "loggedIn", "none", giv, r.state, InRoom')
  BY <1>2, <1>3, <1>6, <1>7 DEF Place, GetPc
<1> QED
  BY <1>2, <1>3, <1>4, <1>6, <1>7, <1>12, <1>13, PostStep

-----------------------------------------------------------------------------
(* Free, and the whole system.                                             *)

(* A user taken out of the list.                                           *)
LEMMA TakenOut ==
    ASSUME NEW s \in Seq(Users), \A i, j \in DOMAIN s : s[i] = s[j] => i = j,
           NEW k \in DOMAIN s
    PROVE  LET t == [i \in 1 .. Len(s) - 1 |-> s[IF i < k THEN i ELSE i + 1]]
           IN  /\ t \in Seq(Users)
               /\ \A i, j \in DOMAIN t : t[i] = t[j] => i = j
               /\ {t[i] : i \in DOMAIN t} = {s[i] : i \in DOMAIN s} \ {s[k]}
<1> DEFINE n == Len(s)
           at(i) == IF i < k THEN i ELSE i + 1
           t == [i \in 1 .. n - 1 |-> s[at(i)]]
<1>1. /\ n \in Nat /\ DOMAIN s = 1 .. n /\ k \in 1 .. n /\ n - 1 \in Nat
      /\ \A i \in 1 .. n : s[i] \in Users
  OBVIOUS
<1> HIDE DEF n
<1>2. \A i \in 1 .. n - 1 : at(i) \in 1 .. n /\ at(i) # k
  BY <1>1
<1>3. \A i, j \in 1 .. n - 1 : at(i) = at(j) => i = j
  BY <1>1
<1>4. \A m \in 1 .. n : m # k => \E i \in 1 .. n - 1 : at(i) = m
  <2>1. ASSUME NEW m \in 1 .. n, m < k
        PROVE  m \in 1 .. n - 1 /\ at(m) = m
    BY <1>1, <2>1
  <2>2. ASSUME NEW m \in 1 .. n, m > k
        PROVE  m - 1 \in 1 .. n - 1 /\ at(m - 1) = m
    BY <1>1, <2>2
  <2>3. \A m \in 1 .. n : m = k \/ m < k \/ m > k
    BY <1>1
  <2> HIDE DEF at
  <2> QED
    BY <2>1, <2>2, <2>3
<1> HIDE DEF at
<1>5. DOMAIN t = 1 .. n - 1 /\ \A i \in 1 .. n - 1 : t[i] = s[at(i)]
  OBVIOUS
<1>6. t \in Seq(Users)
  <2>1. t \in [1 .. n - 1 -> Users]
    BY <1>1, <1>2
  <2> HIDE DEF t
  <2> QED
    BY <1>1, <2>1
<1> HIDE DEF t
<1>7. \A i, j \in DOMAIN t : t[i] = t[j] => i = j
  BY <1>1, <1>2, <1>3, <1>5
<1>8. {t[i] : i \in DOMAIN t} = {s[i] : i \in DOMAIN s} \ {s[k]}
  <2>1. ASSUME NEW i \in DOMAIN t
        PROVE  t[i] \in {s[j] : j \in DOMAIN s} \ {s[k]}
    BY <1>1, <1>2, <1>5
  <2>2. ASSUME NEW j \in DOMAIN s, s[j] # s[k]
        PROVE  s[j] \in {t[i] : i \in DOMAIN t}
    <3>1. PICK i \in 1 .. n - 1 : at(i) = j
      BY <1>1, <1>4, <2>2
    <3> QED
      BY <1>5, <3>1
  <2> QED
    BY <2>1, <2>2
<1> QED
  BY <1>6, <1>7, <1>8 DEF t, n, at

(* The user is freed.                                                      *)
LEMMA FreeStep ==
    ASSUME IInv, NEW u \in Users, Free(u)
    PROVE  IInv'
<1> DEFINE friends == {usr[u].fri[i] : i \in Slots} \ {None}
           cut(v) == [usr[v] EXCEPT !.fri = Cut(v, u)]
<1>1. Shapes /\ Places /\ Mutex /\ Counters /\ Takers /\ ListWell /\ Writers
  BY DEF IInv
<1>2. /\ give[u] = "free" /\ room' = Unlinked(u) /\ give' = [give EXCEPT ![u] = "done"]
      /\ usr' = [v \in Users |-> IF v = u THEN NoUser
                                 ELSE IF v \in friends THEN cut(v) ELSE usr[v]]
      /\ UnlockBy(Giver(u)) /\ UNCHANGED <<userCount, count, msgbuf, msgid, get, owed, got>>
  BY DEF Free
<1>3. GiveSet(u, "done")
  BY <1>1, <1>2, SetsGive DEF GivePc
<1>4. ASSUME NEW v \in Users
      PROVE  UserShape(cut(v)) /\ cut(v).state = usr[v].state /\ cut(v).fcount = usr[v].fcount
  <2>1. UserShape(usr[v])
    BY <1>1 DEF Shapes
  <2> QED
    BY <2>1, RingField
<1> HIDE DEF cut, friends
<1>5. /\ usr' = [v \in Users |-> usr'[v]]
      /\ \A v \in Users : UserShape(usr'[v]) /\ usr'[v].fcount \in Slots
      /\ usr'[u].state = 0 /\ \A v \in Users : v # u => usr'[v].state = usr[v].state
  <2>1. usr' = [v \in Users |-> usr'[v]]
    BY <1>2
  <2>2. usr'[u] = NoUser
    BY <1>2
  <2>3. \A v \in Users : v # u => usr'[v] = usr[v] \/ usr'[v] = cut(v)
    BY <1>2
  <2>4. \A v \in Users : UserShape(usr[v]) /\ usr[v].fcount \in Slots
    BY <1>1 DEF Shapes
  <2> QED
    BY <1>4, <2>1, <2>2, <2>3, <2>4, NewUser
<1>6. Place(u, get[u].pc, get[u].op, "free", usr[u].state, InRoom)
  BY <1>1, <1>2 DEF Places
<1>7. usr[u].state = 4 /\ u \in InRoom /\ get[u].pc = "done"
  BY <1>6 DEF Place, GetPc
<1>8. ListWell' /\ InRoom' = InRoom \ {u}
  <2> DEFINE k == CHOOSE i \in DOMAIN room : room[i] = u
  <2>1. k \in DOMAIN room /\ room[k] = u
    BY <1>7 DEF InRoom
  <2>2. room' = [i \in 1 .. Len(room) - 1 |-> room[IF i < k THEN i ELSE i + 1]]
    BY <1>2 DEF Unlinked
  <2> HIDE DEF k
  <2> DEFINE t == [i \in 1 .. Len(room) - 1 |-> room[IF i < k THEN i ELSE i + 1]]
  <2>3. room' = t
    BY <2>2
  <2>4. /\ t \in Seq(Users)
        /\ \A i, j \in DOMAIN t : t[i] = t[j] => i = j
        /\ {t[i] : i \in DOMAIN t} = {room[i] : i \in DOMAIN room} \ {room[k]}
    BY <1>1, <2>1, TakenOut, Zenon DEF ListWell
  <2> HIDE DEF t
  <2> QED
    BY <2>1, <2>3, <2>4, Zenon DEF ListWell, InRoom
<1>9. InRoom \in SUBSET Users
  BY <1>1 DEF InRoom, ListWell
<1>10. Present' = Present
  BY <1>5, <1>7, <1>8, <1>9 DEF Present
<1>11. /\ give'[u] = "done" /\ \A v \in Users : v # u => give'[v] = give[v]
  BY <1>3 DEF GiveSet
<1>12. Shapes'
  BY <1>1, <1>2, <1>3, <1>5 DEF Shapes, GiveSet
<1>13. Places'
  <2>1. ASSUME NEW v \in Users, v # u
        PROVE  Place(v, get'[v].pc, get'[v].op, give'[v], usr'[v].state, InRoom')
    <3>1. Place(v, get[v].pc, get[v].op, give[v], usr[v].state, InRoom)
      BY <1>1 DEF Places
    <3>2. v \in InRoom' <=> v \in InRoom
      BY <1>8, <2>1
    <3>3. Place(v, get[v].pc, get[v].op, give[v], usr[v].state, InRoom')
      BY <3>1, <3>2, PlaceKept
    <3> QED
      BY <1>2, <1>5, <1>11, <2>1, <3>3
  <2>2. Place(u, get'[u].pc, get'[u].op, give'[u], usr'[u].state, InRoom')
    BY <1>2, <1>5, <1>6, <1>7, <1>8, <1>11 DEF Place
  <2> QED
    BY <2>1, <2>2 DEF Places
<1>14. Mutex'
  <2>1. /\ \A v \in Users : Giver(v) = Giver(u) <=> v = u
        /\ \A v \in Users : Getter(v) # Giver(u)
    BY ThreadsDiffer
  <2>2. \A v \in Users : give'[v] \in {"deliver", "free"} =>
                           give[v] \in {"deliver", "free"} /\ v # u
    BY <1>11
  <2> QED
    BY <1>1, <1>2, <2>1, <2>2, MutexReleased
<1>15. broken => broken'
  BY <1>2 DEF UnlockBy
<1>16. ~NobodyQuit'
  BY <1>11 DEF NobodyQuit
<1>17. Counters'
  BY <1>1, <1>2, <1>10, <1>16 DEF Counters
<1>18. Writers'
  BY <1>1, <1>2, <1>15 DEF Writers
<1>19. Takers'
  BY <1>1, <1>2, <1>11, <1>16 DEF Takers
<1> QED
  BY <1>8, <1>12, <1>13, <1>14, <1>17, <1>18, <1>19 DEF IInv

(* What leaves the server alone.                                           *)
LEMMA ServerUnchanged ==
    ASSUME IInv, UNCHANGED <<serverSide, room>>
    PROVE  IInv'
<1>1. UNCHANGED <<lock, broken, room, userCount, count, msgbuf, msgid, usr, get, give, owed, got>>
  BY DEF serverSide
<1>2. InRoom' = InRoom /\ Present' = Present /\ (NobodyQuit' <=> NobodyQuit)
  BY <1>1 DEF InRoom, Present, NobodyQuit
<1>3. Shapes' /\ ListWell' /\ Mutex' /\ Writers'
  BY <1>1 DEF IInv, Shapes, ListWell, Mutex, Writers
<1>4. Places' /\ Counters' /\ Takers'
  BY <1>1, <1>2 DEF IInv, Places, Counters, Takers
<1> QED
  BY <1>3, <1>4 DEF IInv

(* The steps of the client.                                                *)
LEMMA ClientStep ==
    ASSUME IInv, NEW u \in Users, Client(u)
    PROVE  IInv'
<1>1. CASE \E op, arg : Read(u, op, arg)
  BY <1>1, ReadStep
<1>2. CASE Reply(u) \/ Receive(u)
  <2>1. UNCHANGED <<serverSide, room>>
    BY <1>2 DEF Reply, Receive, serverSide
  <2> QED
    BY <2>1, ServerUnchanged
<1>3. EnterName(u) \/ Type(u) \/ TypeQuit(u) => \E op, arg : Read(u, op, arg)
  BY DEF EnterName, Type, TypeQuit
<1> QED
  BY <1>1, <1>2, <1>3 DEF Client

(* Every step keeps the invariant.                                         *)
LEMMA NextInv == IInv /\ [Next]_vars => IInv'
<1> SUFFICES ASSUME IInv, [Next]_vars
             PROVE  IInv'
  OBVIOUS
<1>1. CASE MainUnlock \/ \E u \in Users : Accept(u)
  BY <1>1, MainStep
<1>2. ASSUME NEW u \in Users, GetTask(u)
      PROVE  IInv'
  <2>1. CASE Enter(u)
    BY <2>1, EnterStep
  <2>2. CASE LogIn(u)
    BY <2>2, LogInStep
  <2>3. CASE Welcome(u)
    BY <2>3, WelcomeStep
  <2>4. CASE NameUsed(u) \/ ListUsers(u) \/ ListFriends(u) \/ Whisper(u) \/ Befriend(u)
    BY <2>4, PlainSectionStep
  <2>5. CASE UnlockAgain(u)
    BY <2>5, UnlockAgainStep
  <2>6. CASE Say(u)
    BY <2>6, SayStep
  <2>7. CASE Answer(u)
    BY <2>7, AnswerStep
  <2>8. CASE Quit(u)
    BY <2>8, QuitStep
  <2> QED
    BY <1>2, <2>1, <2>2, <2>3, <2>4, <2>5, <2>6, <2>7, <2>8 DEF GetTask
<1>3. ASSUME NEW u \in Users, GiveTask(u)
      PROVE  IInv'
  BY <1>3, LookStep, WaitStep, WakeStep, DeliverStep, FreeStep DEF GiveTask
<1>4. ASSUME NEW u \in Users, Client(u)
      PROVE  IInv'
  BY <1>4, ClientStep
<1>5. CASE UNCHANGED vars
  <2>1. UNCHANGED <<serverSide, room>>
    BY <1>5 DEF vars, serverSide
  <2> QED
    BY <2>1, ServerUnchanged
<1> QED
  BY <1>1, <1>2, <1>3, <1>4, <1>5 DEF Next

(* The list is as long as the number of users in it.                       *)
LEMMA ListLength ==
    ASSUME ListWell
    PROVE  Cardinality(InRoom) = Len(room)
<1> DEFINE n == Len(room)
<1>1. room \in Seq(Users) /\ n \in Nat /\ DOMAIN room = 1 .. n
  BY DEF ListWell
<1>2. room \in [1 .. n -> InRoom]
  BY <1>1 DEF InRoom
<1>3. room \in Injection(1 .. n, InRoom)
  BY <1>1, <1>2 DEF ListWell, Injection, IsInjective
<1>4. room \in Surjection(1 .. n, InRoom)
  BY <1>1, <1>2 DEF Surjection, InRoom
<1>5. ExistsBijection(1 .. n, InRoom)
  BY <1>3, <1>4 DEF ExistsBijection, Bijection
<1> QED
  BY <1>1, <1>5, FS_CountingElements

(* The room that Seated describes is well formed.                          *)
LEMMA InitInv == Init => IInv
<1> SUFFICES ASSUME Init
             PROVE  IInv
  OBVIOUS
<1> DEFINE seat(u) == {i \in DOMAIN Seated : Seated[i][1] = u}
           name(u) == Seated[CHOOSE i \in seat(u) : TRUE][2]
<1>1. /\ lock = None /\ broken = FALSE /\ room = [i \in DOMAIN Seated |-> Seated[i][1]]
      /\ userCount = Len(Seated) /\ count = 0 /\ msgbuf = [no |-> 0, kind |-> "none"]
      /\ usr = [u \in Users |-> IF seat(u) # {}
                                THEN NameAndState(NoUser, name(u), 2) ELSE NoUser]
      /\ get = [u \in Users |-> [Idle EXCEPT !.pc = IF seat(u) # {} THEN "recv" ELSE "none"]]
      /\ give = [u \in Users |-> IF seat(u) # {} THEN "waiting" ELSE "none"]
      /\ owed = {} /\ got = [u \in Users |-> 0]
  <2>1. usr = [u \in Users |-> IF seat(u) # {}
                               THEN [NoUser EXCEPT !.state = 2, !.name = name(u)] ELSE NoUser]
    BY Zenon DEF Init
  <2>2. \A x : [NoUser EXCEPT !.state = 2, !.name = x] = NameAndState(NoUser, x, 2)
    BY DEF NameAndState, NoUser
  <2>3. usr = [u \in Users |-> IF seat(u) # {}
                               THEN NameAndState(NoUser, name(u), 2) ELSE NoUser]
    BY <2>1, <2>2, Zenon
  <2>4. get = [u \in Users |-> [Idle EXCEPT !.pc = IF seat(u) # {} THEN "recv" ELSE "none"]]
    BY Zenon DEF Init
  <2>5. give = [u \in Users |-> IF seat(u) # {} THEN "waiting" ELSE "none"]
    BY Zenon DEF Init
  <2> QED
    BY <2>3, <2>4, <2>5, Zenon DEF Init
<1>2. Seated \in Seq(Users \X Names) /\ Len(Seated) \in Nat /\ DOMAIN Seated = 1 .. Len(Seated)
  BY RoomAssumption
<1>3. \A i \in DOMAIN Seated : Seated[i][1] \in Users
  BY <1>2
<1>4. ListWell
  <2>1. room \in [1 .. Len(Seated) -> Users]
    BY <1>1, <1>2, <1>3
  <2>2. room \in Seq(Users)
    BY <1>2, <2>1
  <2>3. \A i, j \in DOMAIN room : room[i] = room[j] => i = j
    BY <1>1, <1>2, RoomAssumption
  <2> QED
    BY <2>2, <2>3 DEF ListWell
<1>5. \A u \in Users : u \in InRoom <=> seat(u) # {}
  BY <1>1, <1>2 DEF InRoom
<1> HIDE DEF seat, name
<1>6. ASSUME NEW u \in Users
      PROVE  /\ UserShape(usr[u]) /\ LineShape(get[u]) /\ usr[u].fcount \in Slots
             /\ give[u] \in GivePc
             /\ \/ u \in InRoom /\ get[u].pc = "recv" /\ give[u] = "waiting" /\ usr[u].state = 2
                \/ u \notin InRoom /\ get[u].pc = "none" /\ give[u] = "none" /\ usr[u].state = 0
  <2>1. CASE seat(u) # {}
    <3>1. /\ usr[u] = NameAndState(NoUser, name(u), 2)
          /\ get[u] = [Idle EXCEPT !.pc = "recv"] /\ give[u] = "waiting"
      BY <1>1, <2>1
    <3>2. /\ UserShape(NameAndState(NoUser, name(u), 2))
          /\ NameAndState(NoUser, name(u), 2).state = 2
          /\ NameAndState(NoUser, name(u), 2).fcount \in Slots
      BY NewUser, TwoUserFields
    <3>3. LineShape([Idle EXCEPT !.pc = "recv"]) /\ [Idle EXCEPT !.pc = "recv"].pc = "recv"
      BY IdleShape
    <3>4. u \in InRoom
      BY <1>5, <2>1
    <3> QED
      BY <3>1, <3>2, <3>3, <3>4, Zenon DEF GivePc
  <2>2. CASE seat(u) = {}
    <3>1. /\ usr[u] = NoUser /\ get[u] = [Idle EXCEPT !.pc = "none"] /\ give[u] = "none"
      BY <1>1, <2>2
    <3>2. UserShape(NoUser) /\ NoUser.state = 0 /\ NoUser.fcount \in Slots
      BY NewUser
    <3>3. LineShape([Idle EXCEPT !.pc = "none"]) /\ [Idle EXCEPT !.pc = "none"].pc = "none"
      BY IdleShape
    <3>4. u \notin InRoom
      BY <1>5, <2>2
    <3> QED
      BY <3>1, <3>2, <3>3, <3>4, Zenon DEF GivePc
  <2> QED
    BY <2>1, <2>2
<1>7. Shapes
  <2>1. usr = [u \in Users |-> usr[u]]
    BY <1>1
  <2>2. get = [u \in Users |-> get[u]]
    BY <1>1
  <2>3. give \in [Users -> GivePc]
    BY <1>1, <1>6
  <2> QED
    BY <1>6, <2>1, <2>2, <2>3 DEF Shapes
<1>8. Places
  BY <1>6 DEF Places, Place, GetPc
<1>9. Mutex
  <2>1. \A u \in Users : Getter(u) # None /\ Giver(u) # None
    BY ThreadsDiffer
  <2> QED
    BY <1>1, <1>6, <2>1 DEF Mutex
<1>10. Writers
  BY <1>6 DEF Writers
<1>11. Counters
  <2>1. Present = InRoom
    <3>1. InRoom \in SUBSET Users
      BY <1>4 DEF ListWell, InRoom
    <3> QED
      BY <1>6, <3>1 DEF Present
  <2>2. Cardinality(InRoom) = Len(room)
    BY <1>4, ListLength
  <2>3. Len(room) = Len(Seated)
    BY <1>1, <1>2, <1>4 DEF ListWell
  <2>4. Cardinality(owed) = 0
    BY <1>1, FS_EmptySet
  <2> QED
    BY <1>1, <2>1, <2>2, <2>3, <2>4 DEF Counters
<1>12. Takers
  BY <1>1, <1>6 DEF Takers
<1> QED
  BY <1>4, <1>7, <1>8, <1>9, <1>10, <1>11, <1>12 DEF IInv

-----------------------------------------------------------------------------
(* The theorems.                                                           *)

(* The inductive invariant holds in every state that can be reached.       *)
THEOREM Invariant == Spec => []IInv
  BY InitInv, NextInv, PTL DEF Spec

(* The state keeps its shape, and until the mutex has been taken from its  *)
(* holder every section runs with it (IM_server.c, lines 34-40).           *)
THEOREM TypeCorrect == Spec => []TypeOK
<1>1. IInv => TypeOK
  <2> SUFFICES ASSUME IInv
               PROVE  TypeOK
    OBVIOUS
  <2>1. Cardinality(InRoom) = Len(room)
    BY ListLength DEF IInv
  <2>2. \A u \in Users : /\ usr[u].state \in {0, 1, 2, 4, 5} /\ get[u].pc \in GetPc
                         /\ usr[u].fcount \in Slots /\ give[u] \in GivePc
    BY DEF IInv, Shapes, Places, Place
  <2> QED
    BY <2>1, <2>2 DEF IInv, Mutex, TypeOK
<1> QED
  BY <1>1, Invariant, PTL

(* userCount counts who is present, and senders wait for no more users     *)
(* than still lack the message; for exactly these while nobody has quit    *)
(* (lines 94, 95, 140, 289, 293 and 333).                                  *)
THEOREM CountIsOwedCorrect == Spec => []CountIsOwed
<1>1. IInv => CountIsOwed
  BY DEF IInv, Counters, CountIsOwed
<1> QED
  BY <1>1, Invariant, PTL

(* What a step may do to the message and to who has been given it.         *)
OldTaken ==
    ~broken =>
      /\ msgbuf' # msgbuf /\ NobodyQuit => owed = {}
      /\ \A u \in Users : give[u] = "deliver" /\ give'[u] = "loop" /\ msgid # u
                           => got[u] < got'[u]

(* Only a section that has waited for count to be 0 writes the buffer, and *)
(* only Deliver takes GiveTask from "deliver" to "loop".                   *)
LEMMA StepTakes == IInv /\ [Next]_vars => [OldTaken]_vars
<1> SUFFICES ASSUME IInv, Next, ~broken
             PROVE  OldTaken
  BY DEF OldTaken
<1>1. Shapes /\ Places /\ Mutex /\ Counters /\ Takers /\ Writers
  BY DEF IInv
<1>2. ASSUME msgbuf' # msgbuf, NobodyQuit
      PROVE  owed = {}
  <2>1. PICK u \in Users : LogIn(u) \/ Say(u) \/ Quit(u)
    <3>1. ~MainUnlock
      BY <1>2 DEF MainUnlock
    <3>2. PICK u \in Users : Accept(u) \/ GetTask(u) \/ GiveTask(u) \/ Client(u)
      BY <3>1 DEF Next
    <3>3. ~Accept(u) /\ ~GiveTask(u)
      BY <1>2 DEF Accept, GiveTask, Look, Wait, Wake, Deliver, Free
    <3>4. ~Client(u)
      BY <1>2 DEF Client, EnterName, Reply, Type, TypeQuit, Receive, Read, serverSide
    <3>5. ~(Enter(u) \/ Welcome(u) \/ NameUsed(u) \/ UnlockAgain(u) \/ ListUsers(u)
              \/ ListFriends(u) \/ Whisper(u) \/ Befriend(u) \/ Answer(u))
      BY <1>2 DEF Enter, Welcome, NameUsed, UnlockAgain, ListUsers, ListFriends, Whisper,
                  Befriend, Answer
    <3> QED
      BY <3>2, <3>3, <3>4, <3>5 DEF GetTask
  <2>2. get[u].pc = "section" /\ get[u].op \in {"1", "2", "4"}
    BY <2>1 DEF LogIn, Say, Quit, InSection
  <2>3. count <= 0 /\ count = Cardinality(owed) /\ owed \in SUBSET Users
    BY <1>1, <1>2, <2>2 DEF Writers, Counters
  <2>4. IsFiniteSet(owed)
    BY <2>3, FS_Subset, RoomAssumption
  <2>5. Cardinality(owed) = 0
    BY <2>3, <2>4, FS_CardinalityType
  <2> QED
    BY <2>4, <2>5, FS_EmptySet
<1>3. ASSUME NEW u \in Users, give[u] = "deliver", give'[u] = "loop", msgid # u
      PROVE  got[u] < got'[u]
  <2>1. ~MainUnlock
    BY <1>3 DEF MainUnlock
  <2>2. PICK v \in Users : Accept(v) \/ GetTask(v) \/ GiveTask(v) \/ Client(v)
    BY <2>1 DEF Next
  <2>3. give \in [Users -> GivePc]
    BY <1>1 DEF Shapes
  <2>4. ~Accept(v)
    <3>1. ASSUME Accept(v)
          PROVE  v # u
      <4>1. Place(v, get[v].pc, get[v].op, give[v], usr[v].state, InRoom)
        BY <1>1 DEF Places
      <4> QED
        BY <1>3, <3>1, <4>1 DEF Place, Accept
    <3> QED
      BY <1>3, <2>3, <3>1 DEF Accept
  <2>5. ~Client(v)
    BY <1>3 DEF Client, EnterName, Reply, Type, TypeQuit, Receive, Read, serverSide
  <2>6. ~GetTask(v)
    <3>1. ~(LogIn(v) \/ Say(v) \/ Quit(v))
      BY <1>1, <1>3, Broadcasting DEF LogIn, Say, Quit, Post
    <3>2. ~(Enter(v) \/ Welcome(v) \/ NameUsed(v) \/ UnlockAgain(v) \/ ListUsers(v)
              \/ ListFriends(v) \/ Whisper(v) \/ Befriend(v) \/ Answer(v))
      BY <1>3 DEF Enter, Welcome, NameUsed, UnlockAgain, ListUsers, ListFriends, Whisper,
                  Befriend, Answer
    <3> QED
      BY <3>1, <3>2 DEF GetTask
  <2>7. GiveTask(v)
    BY <2>2, <2>4, <2>5, <2>6
  <2>8. give' = [give EXCEPT ![v] = give'[v]]
    BY <2>3, <2>7 DEF GiveTask, Look, Wait, Wake, Deliver, Free
  <2>9. v = u
    BY <1>3, <2>3, <2>8
  <2>10. Deliver(u)
    BY <1>3, <2>7, <2>9 DEF GiveTask, Look, Wait, Wake, Free
  <2>11. got' = [got EXCEPT ![u] = msgbuf.no]
    BY <1>3, <2>10 DEF Deliver
  <2>12. got \in [Users -> Nat] /\ got[u] < msgbuf.no
    BY <1>1, <1>3 DEF Takers
  <2>13. got'[u] = msgbuf.no
    BY <2>11, <2>12
  <2> QED
    BY <2>12, <2>13, Zenon
<1> QED
  BY <1>2, <1>3 DEF OldTaken

(* While nobody has quit a message is replaced only when all have it, and  *)
(* a user is given each message at most once, in their order (lines 69,    *)
(* 128 and 278).                                                           *)
THEOREM OldMessageTakenCorrect == Spec => OldMessageTaken
  BY StepTakes, Invariant, PTL DEF Spec, OldMessageTaken, OldTaken

-----------------------------------------------------------------------------
(* Friends.                                                                *)

(* The first characters of messages, a message and what a client is in.     *)
Kinds == {"none", "1", "2", "3", "!", "@", "$", "y", "n", "&", "q"}
CliStates == {"name", "reply", "talk", "quit"}
Message == [kind : Kinds, from : Names \cup {None}]

(* The names of those whose requests are on their way to user u or shown.  *)
Suitors(u) ==
    {toClient[u][k].from : k \in {j \in DOMAIN toClient[u] : toClient[u][j].kind = "$"}}
    \cup ({cli[u].fname} \ {None})

(* The user has not been in the room yet.                                  *)
Fresh(u) == u \notin InRoom /\ (get[u].pc = "none" \/ usr[u].state = 1)

(* The rings: friends are in the room, have each other, and one has asked. *)
Rings ==
    /\ lost \in BOOLEAN
    /\ \A u \in Users : /\ usr[u].fri \in [Slots -> Users \cup {None}]
                        /\ usr[u].name \in Names \cup {None}
    /\ ~lost => \A u \in Users : \A v \in FriendsOf(u) :
         /\ u \in InRoom /\ u \in FriendsOf(v)
         /\ asked \cap {<<usr[u].name, usr[v].name>>, <<usr[v].name, usr[u].name>>} # {}

(* Requests on their way have been made, by users of another name.         *)
Mail ==
    /\ toClient \in [Users -> Seq(Message)]
    /\ cli \in [Users -> [state : CliStates, fname : Names \cup {None}]]
    /\ msgbuf.kind \in Kinds \ {"$"}
    /\ \A u \in Users :
         /\ u \in InRoom => \A n \in Suitors(u) : n # usr[u].name /\ <<n, usr[u].name>> \in asked
         /\ Fresh(u) => Suitors(u) = {}

(* The line that a GetTask acts upon asks another user, or answers one.    *)
Honest(u) ==
    get[u].pc \in {"enter", "section"} =>
      /\ get[u].op = "$" => get[u].arg # usr[u].name
      /\ get[u].op \in {"y", "n"} =>
           get[u].arg # usr[u].name /\ <<get[u].arg, usr[u].name>> \in asked

(* What friendship rests on.                                               *)
Friends == Rings /\ Mail /\ \A u \in Users : Honest(u)

(* Nobody's ring changes, but for newcomers.                               *)
LEMMA RingsStay ==
    ASSUME Rings, lost' = lost, asked \subseteq asked', InRoom \subseteq InRoom',
           \A v \in Users : usr'[v].name \in Names \cup {None},
           \A v \in Users : v \in InRoom => usr'[v].name = usr[v].name,
           \A v \in Users : \/ usr'[v].fri = usr[v].fri
                            \/ v \notin InRoom /\ usr'[v].fri = NoUser.fri
    PROVE  Rings'
<1>1. \A v \in Users : usr'[v].fri \in [Slots -> Users \cup {None}]
  BY DEF Rings, NoUser
<1>2. ASSUME ~lost
      PROVE  \A v \in Users : FriendsOf(v)' = FriendsOf(v)
  <2>1. ASSUME NEW v \in Users, v \notin InRoom, usr'[v].fri = NoUser.fri
        PROVE  FriendsOf(v)' = FriendsOf(v)
    <3>1. FriendsOf(v) \subseteq Users
      BY DEF Rings, FriendsOf
    <3>2. FriendsOf(v) = {}
      BY <1>2, <2>1, <3>1 DEF Rings
    <3>3. FriendsOf(v)' = {}
      BY <2>1 DEF FriendsOf, NoUser
    <3> QED
      BY <3>2, <3>3
  <2>2. ASSUME NEW v \in Users, usr'[v].fri = usr[v].fri
        PROVE  FriendsOf(v)' = FriendsOf(v)
    BY <2>2 DEF FriendsOf
  <2> QED
    BY <2>1, <2>2
<1>3. ASSUME ~lost, NEW u \in Users, NEW v \in FriendsOf(u)
      PROVE  /\ u \in InRoom' /\ u \in FriendsOf(v)
             /\ asked' \cap {<<usr'[u].name, usr'[v].name>>, <<usr'[v].name, usr'[u].name>>} # {}
  <2>1. FriendsOf(u) \subseteq Users
    BY DEF Rings, FriendsOf
  <2>2. /\ u \in InRoom /\ u \in FriendsOf(v)
        /\ asked \cap {<<usr[u].name, usr[v].name>>, <<usr[v].name, usr[u].name>>} # {}
    BY <1>3 DEF Rings
  <2>3. v \in InRoom
    BY <1>3, <2>1, <2>2 DEF Rings
  <2>4. usr'[u].name = usr[u].name /\ usr'[v].name = usr[v].name
    BY <1>3, <2>1, <2>2, <2>3
  <2> QED
    BY <2>2, <2>4
<1>4. ~lost => \A u \in Users : \A v \in FriendsOf(u)' :
         /\ u \in InRoom' /\ u \in FriendsOf(v)'
         /\ asked' \cap {<<usr'[u].name, usr'[v].name>>, <<usr'[v].name, usr'[u].name>>} # {}
  <2>1. \A u \in Users : FriendsOf(u) \subseteq Users
    BY DEF Rings, FriendsOf
  <2> QED
    BY <1>2, <1>3, <2>1
<1>5. lost' \in BOOLEAN /\ lost' = lost
  BY DEF Rings
<1> QED
  BY <1>1, <1>4, <1>5 DEF Rings

(* What is put into a socket is a message, and a suitor only if a request. *)
LEMMA SentIs ==
    ASSUME Mail, NEW q \in Users, NEW kind \in Kinds, NEW from \in Names \cup {None},
           toClient' = Sent(q, kind, from), \A v \in Users : cli'[v].fname = cli[v].fname
    PROVE  /\ toClient' \in [Users -> Seq(Message)]
           /\ \A v \in Users : v # q => Suitors(v)' = Suitors(v)
           /\ Suitors(q)' \subseteq Suitors(q) \cup {from}
           /\ kind # "$" => Suitors(q)' = Suitors(q)
<1> DEFINE m == [kind |-> kind, from |-> from]
           dollars(s) == {s[k].from : k \in {j \in DOMAIN s : s[j].kind = "$"}}
<1>1. toClient \in [Users -> Seq(Message)] /\ m \in Message
  BY DEF Mail, Message
<1>2. m.kind = kind /\ m.from = from
  OBVIOUS
<1>3. toClient' = toClient \/ toClient' = [toClient EXCEPT ![q] = Append(@, m)]
  BY DEF Sent
<1>4. \A v \in Users : Suitors(v) = dollars(toClient[v]) \cup ({cli[v].fname} \ {None})
  BY Zenon DEF Suitors
<1>5. \A v \in Users : Suitors(v)' = dollars(toClient'[v]) \cup ({cli'[v].fname} \ {None})
  BY Zenon DEF Suitors
<1> HIDE DEF m
<1>6. CASE toClient' = toClient
  <2> HIDE DEF dollars
  <2>1. \A v \in Users : Suitors(v)' = Suitors(v)
    BY <1>4, <1>5, <1>6
  <2> QED
    BY <1>1, <1>6, <2>1
<1>7. CASE toClient' = [toClient EXCEPT ![q] = Append(@, m)]
  <2> DEFINE s == toClient[q]
             t == Append(s, m)
  <2>1. toClient'[q] = t /\ \A v \in Users : v # q => toClient'[v] = toClient[v]
    BY <1>1, <1>7
  <2>2. s \in Seq(Message) /\ t \in Seq(Message)
    BY <1>1
  <2>3. /\ DOMAIN t = DOMAIN s \cup {Len(s) + 1} /\ t[Len(s) + 1] = m
        /\ \A k \in DOMAIN s : t[k] = s[k]
    BY <1>1, <2>2
  <2>4. toClient' \in [Users -> Seq(Message)]
    BY <1>1, <1>7, <2>2
  <2> HIDE DEF t, s
  <2>5. dollars(t) = dollars(s) \cup (IF kind = "$" THEN {from} ELSE {})
    BY <1>2, <2>3
  <2>6. dollars(toClient'[q]) = dollars(toClient[q]) \cup (IF kind = "$" THEN {from} ELSE {})
    BY <2>1, <2>5 DEF s
  <2> HIDE DEF dollars
  <2>7. Suitors(q)' = Suitors(q) \cup (IF kind = "$" THEN {from} ELSE {})
    BY <1>4, <1>5, <2>6
  <2>8. \A v \in Users : v # q => Suitors(v)' = Suitors(v)
    BY <1>4, <1>5, <2>1
  <2> QED
    BY <2>4, <2>7, <2>8
<1> QED
  BY <1>3, <1>6, <1>7

(* Nobody hears of a request.                                              *)
LEMMA NothingSent ==
    ASSUME NEW v \in Users, toClient' = toClient, cli'[v].fname = cli[v].fname
    PROVE  Suitors(v)' = Suitors(v)
  BY DEF Suitors

(* Of requests that have been made nothing more is known to a client, and  *)
(* only newcomers change their names.                                      *)
LEMMA MailStays ==
    ASSUME Mail, asked \subseteq asked', msgbuf'.kind \in Kinds \ {"$"},
           toClient' \in [Users -> Seq(Message)],
           cli' \in [Users -> [state : CliStates, fname : Names \cup {None}]],
           \A v \in Users : Suitors(v)' = Suitors(v),
           \A v \in Users : v \in InRoom' => \/ v \in InRoom /\ usr'[v].name = usr[v].name
                                             \/ Fresh(v),
           \A v \in Users : Fresh(v)' => Fresh(v)
    PROVE  Mail'
<1>1. ASSUME NEW v \in Users, v \in InRoom', NEW n \in Suitors(v)
      PROVE  n # usr'[v].name /\ <<n, usr'[v].name>> \in asked'
  BY <1>1 DEF Mail
<1>2. \A v \in Users : v \in InRoom' => \A n \in Suitors(v)' :
                          n # usr'[v].name /\ <<n, usr'[v].name>> \in asked'
  BY <1>1
<1>3. \A v \in Users : Fresh(v)' => Suitors(v)' = {}
  BY DEF Mail
<1> QED
  BY <1>2, <1>3 DEF Mail

(* A line that stays with its user's name stays honest.                    *)
LEMMA HonestStays ==
    ASSUME NEW v \in Users, Honest(v), asked \subseteq asked', usr'[v].name = usr[v].name,
           get'[v].pc \in {"enter", "section"} =>
             /\ get[v].pc \in {"enter", "section"}
             /\ get'[v].op = get[v].op /\ get'[v].arg = get[v].arg
    PROVE  Honest(v)'
  BY DEF Honest

(* A message that is no request is sent, or none.                          *)
PlainSent ==
    \/ toClient' = toClient
    \/ \E q \in Users, kind \in Kinds \ {"$"}, from \in Names \cup {None} :
         toClient' = Sent(q, kind, from)

(* Such a message makes no suitors.                                        *)
LEMMA SuitorsStay ==
    ASSUME Mail, PlainSent, cli' = cli
    PROVE  /\ toClient' \in [Users -> Seq(Message)]
           /\ \A v \in Users : Suitors(v)' = Suitors(v)
<1>1. CASE toClient' = toClient
  BY <1>1, NothingSent DEF Mail
<1>2. CASE \E q \in Users, kind \in Kinds \ {"$"}, from \in Names \cup {None} :
             toClient' = Sent(q, kind, from)
  <2>1. PICK q \in Users, kind \in Kinds \ {"$"}, from \in Names \cup {None} :
          toClient' = Sent(q, kind, from)
    BY <1>2
  <2>2. \A v \in Users : cli'[v].fname = cli[v].fname
    OBVIOUS
  <2> QED
    BY <2>1, <2>2, SentIs
<1> QED
  BY <1>1, <1>2 DEF PlainSent

(* Names and rings stay, and nobody becomes new.                           *)
UsersCalm ==
    \A v \in Users : /\ usr'[v].name = usr[v].name /\ usr'[v].fri = usr[v].fri
                     /\ usr'[v].state = 1 => usr[v].state = 1

(* No line is read.                                                        *)
LinesCalm ==
    \A v \in Users :
      /\ get'[v].pc = "none" => get[v].pc = "none"
      /\ get'[v].pc \in {"enter", "section"} =>
           /\ get[v].pc \in {"enter", "section"}
           /\ get'[v].op = get[v].op /\ get'[v].arg = get[v].arg

(* The list, the clients and the requests made stay, too.                  *)
Calm ==
    /\ room' = room /\ lost' = lost /\ asked' = asked /\ cli' = cli /\ msgbuf'.kind \in Kinds \ {"$"}
    /\ UsersCalm /\ LinesCalm /\ PlainSent

(* ... and nothing is disturbed.                                           *)
LEMMA CalmStep ==
    ASSUME Friends, Calm
    PROVE  Friends'
<1>1. Rings /\ Mail /\ \A v \in Users : Honest(v)
  BY DEF Friends
<1>2. InRoom' = InRoom
  BY DEF Calm, InRoom
<1>3. \A v \in Users : usr'[v].name = usr[v].name /\ usr'[v].fri = usr[v].fri
  BY DEF Calm, UsersCalm
<1>4. Rings'
  BY <1>1, <1>2, <1>3, RingsStay DEF Calm, Rings
<1>5. /\ toClient' \in [Users -> Seq(Message)]
      /\ \A v \in Users : Suitors(v)' = Suitors(v)
  BY <1>1, SuitorsStay DEF Calm
<1>6. \A v \in Users : Fresh(v)' => Fresh(v)
  BY <1>2 DEF Calm, UsersCalm, LinesCalm, Fresh
<1>7. Mail'
  <2>1. /\ asked \subseteq asked' /\ msgbuf'.kind \in Kinds \ {"$"}
        /\ cli' \in [Users -> [state : CliStates, fname : Names \cup {None}]]
    BY <1>1 DEF Calm, Mail
  <2> QED
    BY <1>1, <1>2, <1>3, <1>5, <1>6, <2>1, MailStays
<1>8. \A v \in Users : Honest(v)'
  BY <1>1, <1>3, HonestStays DEF Calm, LinesCalm
<1> QED
  BY <1>4, <1>7, <1>8 DEF Friends

(* A user's name and ring do not depend on the other fields.               *)
LEMMA NameAndRing ==
    ASSUME NEW r, UserShape(r), NEW x
    PROVE  /\ [r EXCEPT !.state = x].name = r.name /\ [r EXCEPT !.state = x].fri = r.fri
           /\ [r EXCEPT !.fcount = x].name = r.name /\ [r EXCEPT !.fcount = x].fri = r.fri
           /\ [r EXCEPT !.fri = x].name = r.name /\ [r EXCEPT !.fri = x].fri = x
  BY DEF UserShape

(* A line's argument does not depend on where its thread is.               *)
LEMMA LineArg ==
    ASSUME NEW l, LineShape(l), NEW x
    PROVE  [l EXCEPT !.pc = x].arg = l.arg /\ [l EXCEPT !.pc = x].op = l.op
  BY DEF LineShape

(* One line changes, to one that is not acted upon or was before.          *)
LEMMA LineCalm ==
    ASSUME NEW u \in Users, NEW l, LineSet(u, l), l.pc # "none",
           l.pc \in {"enter", "section"} =>
             get[u].pc \in {"enter", "section"} /\ l.op = get[u].op /\ l.arg = get[u].arg
    PROVE  LinesCalm
<1>1. ASSUME NEW v \in Users
      PROVE  get'[v] = get[v] \/ (v = u /\ get'[v] = l)
  BY DEF LineSet
<1> QED
  BY <1>1 DEF LinesCalm

(* Nobody's structure changes.                                             *)
LEMMA NobodyNew ==
    ASSUME usr' = usr
    PROVE  UsersCalm
  BY DEF UsersCalm

(* Only the state of a user changes, and not to that of a newcomer.        *)
LEMMA StateCalm ==
    ASSUME Shapes, NEW u \in Users, NEW x \in {2, 4}, usr' = [usr EXCEPT ![u].state = x]
    PROVE  UsersCalm
<1> DEFINE r == [usr[u] EXCEPT !.state = x]
<1>1. UserShape(usr[u]) /\ usr = [v \in Users |-> usr[v]]
  BY DEF Shapes
<1>2. r.name = usr[u].name /\ r.fri = usr[u].fri /\ r.state = x
  BY <1>1, NameAndRing, StateField
<1>3. usr' = [usr EXCEPT ![u] = r]
  OBVIOUS
<1> HIDE DEF r
<1>4. usr'[u] = r /\ \A v \in Users : v # u => usr'[v] = usr[v]
  BY <1>1, <1>3
<1> QED
  BY <1>2, <1>4 DEF UsersCalm

(* A section ends.                                                         *)
LEMMA LeavesCalm ==
    ASSUME IInv, NEW u \in Users, NEW pc \in {"used", "recv", "loggedIn", "done"},
           get[u].pc = "section", LeaveTo(u, pc)
    PROVE  LinesCalm
<1> DEFINE l == [Idle EXCEPT !.pc = pc]
<1>1. LineSet(u, l) /\ l.pc = pc
  BY Leaves
<1> HIDE DEF l
<1> QED
  BY <1>1, LineCalm

(* Where a thread is changes.                                              *)
LEMMA MovesCalm ==
    ASSUME IInv, NEW u \in Users, NEW pc, get' = [get EXCEPT ![u].pc = pc], pc # "none",
           pc \in {"enter", "section"} => get[u].pc \in {"enter", "section"}
    PROVE  LinesCalm
<1> DEFINE l == [get[u] EXCEPT !.pc = pc]
<1>1. Shapes /\ LineShape(get[u])
  BY DEF IInv, Shapes
<1>2. LineSet(u, l) /\ l.pc = pc /\ l.op = get[u].op /\ l.arg = get[u].arg
  BY <1>1, SetsPc, LineFields, LineArg
<1> HIDE DEF l
<1> QED
  BY <1>2, LineCalm

(* A message of the server itself.                                         *)
LEMMA ServerSent ==
    ASSUME NEW u \in Users, NEW kind \in Kinds, kind # "$", toClient' = Sent(u, kind, None)
    PROVE  PlainSent
  BY DEF PlainSent

(* Sections and other steps of GetTask that are calm.                      *)
LEMMA GetterCalm ==
    ASSUME IInv, Friends, NEW u \in Users,
           \/ Enter(u) \/ Welcome(u) \/ NameUsed(u) \/ UnlockAgain(u) \/ Say(u)
           \/ ListUsers(u) \/ ListFriends(u) \/ Whisper(u) \/ Quit(u)
    PROVE  Calm
<1>1. Shapes /\ ListWell /\ Mail /\ Rings
  BY DEF IInv, Friends
<1>2. msgbuf.kind \in Kinds \ {"$"} /\ usr[u].name \in Names \cup {None}
  BY <1>1 DEF Mail, Rings
<1>3. CASE Enter(u)
  <2>1. LinesCalm
    BY <1>3, MovesCalm DEF Enter
  <2> QED
    BY <1>2, <1>3, <2>1, NobodyNew DEF Enter, Calm, PlainSent, clients
<1>4. CASE Welcome(u)
  <2>1. LinesCalm
    BY <1>4, MovesCalm DEF Welcome
  <2>2. UsersCalm
    BY <1>1, <1>4, NobodyNew, StateCalm DEF Welcome
  <2>3. PlainSent
    BY <1>4, ServerSent DEF Kinds, Welcome, PlainSent
  <2> QED
    BY <1>2, <1>4, <2>1, <2>2, <2>3 DEF Welcome, Calm, clients
<1>5. CASE NameUsed(u)
  <2>1. LinesCalm
    BY <1>5, LeavesCalm DEF NameUsed, InSection
  <2> QED
    BY <1>2, <1>5, <2>1, NobodyNew DEF NameUsed, Calm, PlainSent, clients
<1>6. CASE UnlockAgain(u)
  <2>1. LinesCalm
    BY <1>6, MovesCalm DEF UnlockAgain
  <2>2. PlainSent
    BY <1>6, ServerSent DEF Kinds, UnlockAgain
  <2> QED
    BY <1>2, <1>6, <2>1, <2>2, NobodyNew DEF UnlockAgain, Calm, clients
<1>7. CASE Say(u)
  <2>1. LinesCalm
    BY <1>7, LeavesCalm DEF Say, InSection
  <2>2. msgbuf'.kind = "2"
    BY <1>7 DEF Say, Post
  <2> QED
    BY <1>7, <2>1, <2>2, NobodyNew DEF Kinds, Say, Calm, PlainSent, clients
<1>8. CASE ListUsers(u) \/ ListFriends(u)
  <2>1. LinesCalm
    BY <1>8, LeavesCalm DEF ListUsers, ListFriends, InSection
  <2>2. PlainSent
    BY <1>8, ServerSent DEF Kinds, ListUsers, ListFriends
  <2> QED
    BY <1>2, <1>8, <2>1, <2>2, NobodyNew DEF ListUsers, ListFriends, Calm, clients
<1>9. CASE Whisper(u)
  <2> DEFINE q == Find(get[u].arg)
  <2>1. LinesCalm
    BY <1>9, LeavesCalm DEF Whisper, InSection
  <2>2. toClient' = IF q = None THEN toClient ELSE Sent(q, "2", usr[u].name)
    BY <1>9 DEF Whisper
  <2>3. q = None \/ q \in Users
    BY <1>1, FindIs
  <2> HIDE DEF q
  <2>4. PlainSent
    BY <1>2, <2>2, <2>3 DEF PlainSent, Kinds
  <2> QED
    BY <1>2, <1>9, <2>1, <2>4, NobodyNew DEF Whisper, Calm, clients
<1>10. CASE Quit(u)
  <2>1. LinesCalm
    BY <1>10, LeavesCalm DEF Quit, InSection
  <2>2. UsersCalm
    BY <1>1, <1>10, StateCalm DEF Quit
  <2>3. msgbuf'.kind = "@"
    BY <1>10 DEF Quit, Post
  <2> QED
    BY <1>10, <2>1, <2>2, <2>3 DEF Kinds, Quit, Calm, PlainSent, clients
<1> QED
  BY <1>3, <1>4, <1>5, <1>6, <1>7, <1>8, <1>9, <1>10

(* GiveTask, but for the freeing of a user.                                *)
LEMMA GiverCalm ==
    ASSUME IInv, Friends, NEW u \in Users,
           (Look(u) /\ usr[u].state # 5) \/ Wait(u) \/ Wake(u) \/ Deliver(u)
    PROVE  Calm
<1>1. msgbuf.kind \in Kinds \ {"$"}
  BY DEF Friends, Mail
<1>2. get' = get /\ usr' = usr /\ msgbuf' = msgbuf /\ room' = room
  BY DEF Look, Wait, Wake, Deliver
<1>3. LinesCalm /\ UsersCalm
  BY <1>2, NobodyNew DEF LinesCalm
<1>4. CASE Look(u) /\ usr[u].state # 5
  <2>1. PlainSent
    BY <1>4, ServerSent DEF Kinds, Look, PlainSent
  <2> QED
    BY <1>1, <1>2, <1>3, <1>4, <2>1 DEF Look, Calm, clients
<1>5. CASE Wait(u) \/ Wake(u)
  BY <1>1, <1>2, <1>3, <1>5 DEF Wait, Wake, Calm, PlainSent, clients
<1>6. CASE Deliver(u)
  <2>1. PlainSent
    BY <1>1, <1>6, ServerSent DEF Kinds, Deliver, PlainSent
  <2> QED
    BY <1>1, <1>2, <1>3, <1>6, <2>1 DEF Deliver, Calm, clients
<1> QED
  BY <1>4, <1>5, <1>6

(* A user is accepted, or the structure of one that never logged in is     *)
(* freed: nobody in the list is touched, and there is no suitor to forget. *)
LEMMA OutsideStep ==
    ASSUME IInv, Friends, NEW u \in Users, u \notin InRoom,
           NEW r, r.name \in Names \cup {None}, r.fri = NoUser.fri,
           usr' = [usr EXCEPT ![u] = r], room' = room, lost' = lost, asked' = asked,
           cli' = cli, msgbuf' = msgbuf, PlainSent, LinesCalm,
           (get'[u].pc = "none" \/ r.state = 1) => Fresh(u)
    PROVE  Friends'
<1>1. Rings /\ Mail /\ (\A v \in Users : Honest(v)) /\ Shapes
  BY DEF Friends, IInv
<1>2. InRoom' = InRoom
  BY DEF InRoom
<1>3. usr'[u] = r /\ \A v \in Users : v # u => usr'[v] = usr[v]
  BY <1>1 DEF Shapes
<1>4. Rings'
  <2>1. \A v \in Users : usr'[v].name \in Names \cup {None}
    BY <1>1, <1>3 DEF Rings
  <2>2. \A v \in Users : v \in InRoom => usr'[v].name = usr[v].name
    BY <1>3
  <2>3. \A v \in Users : \/ usr'[v].fri = usr[v].fri
                         \/ v \notin InRoom /\ usr'[v].fri = NoUser.fri
    BY <1>3
  <2> QED
    BY <1>1, <1>2, <2>1, <2>2, <2>3, RingsStay
<1>5. /\ toClient' \in [Users -> Seq(Message)]
      /\ \A v \in Users : Suitors(v)' = Suitors(v)
  BY <1>1, SuitorsStay
<1>6. \A v \in Users : Fresh(v)' => Fresh(v)
  <2>1. ASSUME NEW v \in Users, v # u, Fresh(v)'
        PROVE  Fresh(v)
    BY <1>2, <1>3, <2>1 DEF Fresh, LinesCalm
  <2>2. Fresh(u)' => Fresh(u)
    BY <1>2, <1>3 DEF Fresh
  <2> QED
    BY <2>1, <2>2
<1>7. Mail'
  <2>1. /\ asked \subseteq asked' /\ msgbuf'.kind \in Kinds \ {"$"}
        /\ cli' \in [Users -> [state : CliStates, fname : Names \cup {None}]]
    BY <1>1 DEF Mail
  <2>2. \A v \in Users : v \in InRoom' => \/ v \in InRoom /\ usr'[v].name = usr[v].name
                                          \/ Fresh(v)
    BY <1>2, <1>3
  <2> QED
    BY <1>1, <1>5, <1>6, <2>1, <2>2, MailStays
<1>8. ASSUME NEW v \in Users
      PROVE  Honest(v)'
  <2>1. CASE v # u
    BY <1>1, <1>3, <2>1, HonestStays DEF LinesCalm
  <2>2. CASE get'[v].pc \notin {"enter", "section"}
    BY <2>2 DEF Honest
  <2>3. CASE v = u /\ get'[v].pc \in {"enter", "section"}
    <3>1. get[u].pc \in {"enter", "section"} /\ get'[u].op = get[u].op
      BY <2>3 DEF LinesCalm
    <3>2. Place(u, get[u].pc, get[u].op, give[u], usr[u].state, InRoom)
      BY DEF IInv, Places
    <3>3. get'[u].op = "1"
      BY <3>1, <3>2 DEF Place
    <3> QED
      BY <2>3, <3>3 DEF Honest
  <2> QED
    BY <2>1, <2>2, <2>3
<1> QED
  BY <1>4, <1>7, <1>8 DEF Friends

(* A user is accepted.                                                     *)
LEMMA AcceptFriends ==
    ASSUME IInv, Friends, NEW u \in Users, Accept(u)
    PROVE  Friends'
<1> DEFINE r == [NoUser EXCEPT !.state = 1]
<1>1. /\ get[u].pc = "none" /\ usr' = [usr EXCEPT ![u] = r]
      /\ get' = [get EXCEPT ![u].pc = "recv"]
      /\ UNCHANGED <<room, lost, asked, cli, msgbuf, toClient>>
  BY DEF Accept, clients
<1>2. r.name \in Names \cup {None} /\ r.fri = NoUser.fri
  BY DEF NoUser
<1>3. LinesCalm
  BY <1>1, MovesCalm
<1>4. Place(u, "none", get[u].op, give[u], usr[u].state, InRoom)
  BY <1>1 DEF IInv, Places
<1>5. u \notin InRoom /\ Fresh(u)
  BY <1>1, <1>4 DEF Place, Fresh
<1>6. PlainSent
  BY <1>1 DEF PlainSent
<1> HIDE DEF r
<1> QED
  BY <1>1, <1>2, <1>3, <1>5, <1>6, OutsideStep

(* A user that never logged in is freed.                                   *)
LEMMA LookFriends ==
    ASSUME IInv, Friends, NEW u \in Users, Look(u), usr[u].state = 5
    PROVE  Friends'
<1>1. /\ give[u] = "loop" /\ usr' = [usr EXCEPT ![u] = NoUser] /\ get' = get
      /\ toClient' = Sent(u, "q", None)
      /\ UNCHANGED <<room, lost, asked, cli, msgbuf>>
  BY DEF Look, clients
<1>2. NoUser.name \in Names \cup {None} /\ NoUser.state = 0
  BY DEF NoUser
<1>3. LinesCalm
  BY <1>1 DEF LinesCalm
<1>4. Place(u, get[u].pc, get[u].op, "loop", 5, InRoom)
  BY <1>1 DEF IInv, Places
<1>5. u \notin InRoom /\ get[u].pc # "none"
  BY <1>4 DEF Place
<1>6. PlainSent
  BY <1>1, ServerSent DEF Kinds
<1>7. (get'[u].pc = "none" \/ NoUser.state = 1) => Fresh(u)
  BY <1>1, <1>2, <1>5
<1> QED
  BY <1>1, <1>2, <1>3, <1>5, <1>6, <1>7, OutsideStep

(* A user logs in: nobody has asked to be its friend so far.               *)
LEMMA LogInFriends ==
    ASSUME IInv, Friends, NEW u \in Users, LogIn(u)
    PROVE  Friends'
<1> DEFINE r == [usr[u] EXCEPT !.fcount = 0]
<1>1. Rings /\ Mail /\ (\A v \in Users : Honest(v)) /\ Shapes /\ ListWell
  BY DEF Friends, IInv
<1>2. /\ get[u].pc = "section" /\ get[u].op = "1" /\ LeaveTo(u, "loggedIn")
      /\ room' = <<u>> \o room /\ usr' = [usr EXCEPT ![u] = r]
      /\ msgbuf' = [no |-> msgbuf.no + 1, kind |-> "&"]
      /\ UNCHANGED <<lost, asked, cli, toClient>>
  BY DEF LogIn, InSection, Post, clients
<1>3. UserShape(usr[u]) /\ usr = [v \in Users |-> usr[v]]
  BY <1>1 DEF Shapes
<1>4. r.name = usr[u].name /\ r.fri = usr[u].fri /\ r.state = usr[u].state
  BY <1>3, NameAndRing, NextField
<1> HIDE DEF r
<1>5. \A v \in Users : /\ usr'[v].name = usr[v].name /\ usr'[v].fri = usr[v].fri
                       /\ usr'[v].state = usr[v].state
  BY <1>2, <1>3, <1>4
<1>6. Place(u, "section", "1", give[u], usr[u].state, InRoom)
  BY <1>2 DEF IInv, Places
<1>7. usr[u].state = 1 /\ u \notin InRoom
  BY <1>6 DEF Place
<1>8. InRoom' = InRoom \cup {u}
  <2>1. {(<<u>> \o room)[i] : i \in DOMAIN (<<u>> \o room)} = InRoom \cup {u}
    BY <1>1, <1>7, Prepended DEF ListWell, InRoom
  <2> QED
    BY <1>2, <2>1, Zenon DEF InRoom
<1>9. LinesCalm
  BY <1>2, LeavesCalm
<1>10. Rings'
  BY <1>1, <1>2, <1>5, <1>8, RingsStay DEF Rings
<1>11. Fresh(u)
  BY <1>7 DEF Fresh
<1>12. \A v \in Users : Fresh(v)' => Fresh(v)
  BY <1>5, <1>8, <1>9 DEF Fresh, LinesCalm
<1>13. Mail'
  <2>1. msgbuf'.kind = "&"
    BY <1>2
  <2>2. /\ asked \subseteq asked' /\ msgbuf'.kind \in Kinds \ {"$"}
        /\ toClient' \in [Users -> Seq(Message)]
        /\ cli' \in [Users -> [state : CliStates, fname : Names \cup {None}]]
    BY <1>1, <1>2, <2>1 DEF Mail, Kinds
  <2>3. \A v \in Users : Suitors(v)' = Suitors(v)
    BY <1>2, NothingSent
  <2>4. \A v \in Users : v \in InRoom' => \/ v \in InRoom /\ usr'[v].name = usr[v].name
                                          \/ Fresh(v)
    BY <1>5, <1>8, <1>11
  <2> QED
    BY <1>1, <1>12, <2>2, <2>3, <2>4, MailStays
<1>14. \A v \in Users : Honest(v)'
  BY <1>1, <1>2, <1>5, <1>9, HonestStays DEF LinesCalm
<1> QED
  BY <1>10, <1>13, <1>14 DEF Friends

(* A user asks another to be friends.                                      *)
LEMMA BefriendFriends ==
    ASSUME IInv, Friends, NEW u \in Users, Befriend(u)
    PROVE  Friends'
<1> DEFINE q == Find(get[u].arg)
           ask == q # None /\ \A i \in Slots : usr[u].fri[i] # q
<1>1. Rings /\ Mail /\ (\A v \in Users : Honest(v)) /\ ListWell
  BY DEF Friends, IInv
<1>2. /\ get[u].pc = "section" /\ get[u].op = "$" /\ LeaveTo(u, "recv")
      /\ toClient' = IF ask THEN Sent(q, "$", usr[u].name) ELSE toClient
      /\ asked' = IF ask THEN asked \cup {<<usr[u].name, usr[q].name>>} ELSE asked
      /\ UNCHANGED <<room, usr, lost, cli, msgbuf>>
  BY DEF Befriend, InSection, clients
<1>3. q = None \/ (q \in Users /\ q \in InRoom /\ usr[q].name = get[u].arg)
  BY <1>1, FindIs
<1>4. LinesCalm
  BY <1>2, LeavesCalm
<1>5. get[u].arg # usr[u].name
  BY <1>1, <1>2 DEF Honest
<1>6. ask => q # None
  OBVIOUS
<1> HIDE DEF q, ask
<1>7. InRoom' = InRoom /\ asked \subseteq asked'
  BY <1>2 DEF InRoom
<1>8. Rings'
  BY <1>1, <1>2, <1>7, RingsStay DEF Rings
<1>9. \A v \in Users : Fresh(v)' => Fresh(v)
  BY <1>2, <1>4, <1>7 DEF Fresh, LinesCalm
<1>10. Mail'
  <2>1. /\ msgbuf'.kind \in Kinds \ {"$"}
        /\ cli' \in [Users -> [state : CliStates, fname : Names \cup {None}]]
    BY <1>1, <1>2 DEF Mail
  <2>2. CASE ~ask
    <3>1. toClient' \in [Users -> Seq(Message)] /\ \A v \in Users : Suitors(v)' = Suitors(v)
      BY <1>1, <1>2, <2>2, NothingSent DEF Mail
    <3> QED
      BY <1>1, <1>2, <1>7, <1>9, <2>1, <3>1, MailStays
  <2>3. CASE ask
    <3>1. PICK p \in Users : p = q /\ p \in InRoom /\ usr[p].name # usr[u].name
      BY <1>3, <1>5, <1>6, <2>3
    <3>2. PICK from \in Names \cup {None} : from = usr[u].name
      BY <1>1 DEF Rings
    <3>3. /\ toClient' \in [Users -> Seq(Message)]
          /\ \A v \in Users : v # p => Suitors(v)' = Suitors(v)
          /\ Suitors(p)' \subseteq Suitors(p) \cup {from}
      <4>1. toClient' = Sent(p, "$", from) /\ "$" \in Kinds
        BY <1>2, <2>3, <3>1, <3>2 DEF Kinds
      <4>2. \A v \in Users : cli'[v].fname = cli[v].fname
        BY <1>2
      <4> QED
        BY <1>1, <4>1, <4>2, SentIs
    <3>4. <<from, usr[p].name>> \in asked' /\ from # usr[p].name
      BY <1>2, <2>3, <3>1, <3>2
    <3>5. ASSUME NEW v \in Users, v \in InRoom', NEW n \in Suitors(v)'
          PROVE  n # usr'[v].name /\ <<n, usr'[v].name>> \in asked'
      <4>1. n \in Suitors(v) => n # usr[v].name /\ <<n, usr[v].name>> \in asked
        BY <1>1, <1>7, <3>5 DEF Mail
      <4>2. n \in Suitors(v) \/ (v = p /\ n = from)
        BY <3>3, <3>5
      <4> QED
        BY <1>2, <1>7, <3>4, <4>1, <4>2
    <3>6. \A v \in Users : Fresh(v)' => Suitors(v)' = {}
      BY <1>1, <1>9, <3>1, <3>3 DEF Mail, Fresh
    <3> QED
      BY <2>1, <3>3, <3>5, <3>6 DEF Mail
  <2> QED
    BY <2>2, <2>3
<1>11. \A v \in Users : Honest(v)'
  BY <1>1, <1>2, <1>4, <1>7, HonestStays DEF LinesCalm
<1> QED
  BY <1>8, <1>10, <1>11 DEF Friends

(* Linking changes one ring, and no name.                                  *)
LEMMA LinkedRing ==
    ASSUME NEW us, us = [v \in Users |-> us[v]], \A v \in Users : UserShape(us[v]),
           NEW u \in Users, NEW q
    PROVE  /\ \A v \in Users : Linked(us, u, q)[v].name = us[v].name
           /\ \A v \in Users : v # u => Linked(us, u, q)[v] = us[v]
           /\ Linked(us, u, q)[u].fri = [us[u].fri EXCEPT ![us[u].fcount] = q]
<1> DEFINE fri == [us[u].fri EXCEPT ![us[u].fcount] = q]
           next == (us[u].fcount + 1) % LISTENQ
           s == RingAndNext(us[u], fri, next)
<1>1. Linked(us, u, q) = [us EXCEPT ![u] = s]
  <2>1. Linked(us, u, q) = [us EXCEPT ![u].fri = fri, ![u].fcount = next]
    BY Zenon DEF Linked
  <2> HIDE DEF fri, next
  <2>2. [us EXCEPT ![u].fri = fri, ![u].fcount = next] = [us EXCEPT ![u] = s]
    BY DEF RingAndNext
  <2> QED
    BY <2>1, <2>2, Zenon
<1> HIDE DEF next, fri
<1>2. s.name = us[u].name /\ s.fri = fri
  BY DEF RingAndNext, UserShape
<1> HIDE DEF s
<1>3. Linked(us, u, q)[u] = s /\ \A v \in Users : v # u => Linked(us, u, q)[v] = us[v]
  BY <1>1
<1>4. \A v \in Users : Linked(us, u, q)[v].name = us[v].name
  BY <1>2, <1>3
<1> QED
  BY <1>2, <1>3, <1>4 DEF fri

(* Who is in a ring.                                                       *)
InRing(f) == {f[i] : i \in Slots} \ {None}

(* An entry that takes no other's place is one friend more.                *)
LEMMA EntryMore ==
    ASSUME NEW f \in [Slots -> Users \cup {None}], NEW k \in Slots, NEW q \in Users
    PROVE  /\ [f EXCEPT ![k] = q] \in [Slots -> Users \cup {None}]
           /\ f[k] \in {None, q} => InRing([f EXCEPT ![k] = q]) = InRing(f) \cup {q}
<1> DEFINE g == [f EXCEPT ![k] = q]
<1>1. g \in [Slots -> Users \cup {None}] /\ g[k] = q /\ \A i \in Slots : i # k => g[i] = f[i]
  OBVIOUS
<1>2. q # None
  BY RoomAssumption
<1> HIDE DEF g
<1>3. ASSUME f[k] \in {None, q}
      PROVE  InRing(g) = InRing(f) \cup {q}
  BY <1>1, <1>2, <1>3 DEF InRing
<1> QED
  BY <1>1, <1>3 DEF g

(* A yes makes two users friends, unless one of the rings was full.        *)
LEMMA AnswerRings ==
    ASSUME IInv, Friends, NEW u \in Users, NEW q \in Users, q # u, u \in InRoom, q \in InRoom,
           <<usr[q].name, usr[u].name>> \in asked,
           usr' = Linked(Linked(usr, q, u), u, q),
           lost' = (lost \/ Overwrites(usr, q, u) \/ Overwrites(Linked(usr, q, u), u, q)),
           room' = room, asked' = asked
    PROVE  Rings' /\ \A v \in Users : usr'[v].name = usr[v].name
<1> DEFINE half == Linked(usr, q, u)
<1>1. Rings /\ Shapes
  BY DEF Friends, IInv
<1>2. /\ usr = [v \in Users |-> usr[v]]
      /\ \A v \in Users : UserShape(usr[v]) /\ usr[v].fcount \in Slots
  BY <1>1 DEF Shapes
<1>3. /\ half = [v \in Users |-> half[v]]
      /\ \A v \in Users : UserShape(half[v]) /\ half[v].fcount \in Slots
  BY <1>2, LinkedOne
<1>4. /\ \A v \in Users : half[v].name = usr[v].name
      /\ \A v \in Users : v # q => half[v] = usr[v]
      /\ half[q].fri = [usr[q].fri EXCEPT ![usr[q].fcount] = u]
  BY <1>2, LinkedRing
<1>5. usr' = Linked(half, u, q)
  OBVIOUS
<1>6. lost' = (lost \/ Overwrites(usr, q, u) \/ Overwrites(half, u, q))
  OBVIOUS
<1> HIDE DEF half
<1>7. /\ \A v \in Users : usr'[v].name = half[v].name
      /\ \A v \in Users : v # u => usr'[v] = half[v]
      /\ usr'[u].fri = [half[u].fri EXCEPT ![half[u].fcount] = q]
  BY <1>3, <1>5, LinkedRing
<1>8. \A v \in Users : usr'[v].name = usr[v].name
  BY <1>4, <1>7
<1>9. /\ usr'[q].fri = [usr[q].fri EXCEPT ![usr[q].fcount] = u]
      /\ usr'[u].fri = [usr[u].fri EXCEPT ![usr[u].fcount] = q]
      /\ \A v \in Users : v # u /\ v # q => usr'[v].fri = usr[v].fri
  BY <1>4, <1>7
<1>10. \A v \in Users : usr[v].fri \in [Slots -> Users \cup {None}]
  BY <1>1 DEF Rings
<1>11. ASSUME NEW v \in Users, NEW w \in Users,
              usr'[v].fri = [usr[v].fri EXCEPT ![usr[v].fcount] = w]
       PROVE  /\ usr'[v].fri \in [Slots -> Users \cup {None}]
              /\ usr[v].fri[usr[v].fcount] \in {None, w}
                   => InRing(usr'[v].fri) = InRing(usr[v].fri) \cup {w}
  <2> DEFINE f == usr[v].fri
             k == usr[v].fcount
  <2>1. f \in [Slots -> Users \cup {None}] /\ k \in Slots /\ usr'[v].fri = [f EXCEPT ![k] = w]
    BY <1>2, <1>10, <1>11
  <2> HIDE DEF f, k
  <2>2. /\ [f EXCEPT ![k] = w] \in [Slots -> Users \cup {None}]
        /\ f[k] \in {None, w} => InRing([f EXCEPT ![k] = w]) = InRing(f) \cup {w}
    BY <2>1, EntryMore
  <2>3. /\ usr'[v].fri \in [Slots -> Users \cup {None}]
        /\ f[k] \in {None, w} => InRing(usr'[v].fri) = InRing(f) \cup {w}
    BY <2>1, <2>2
  <2> QED
    BY <2>3 DEF f, k
<1>12. \A v \in Users : FriendsOf(v) = InRing(usr[v].fri) /\ FriendsOf(v)' = InRing(usr'[v].fri)
  BY Zenon DEF FriendsOf, InRing
<1>13. ASSUME ~lost'
       PROVE  /\ ~lost /\ FriendsOf(q)' = FriendsOf(q) \cup {u}
              /\ FriendsOf(u)' = FriendsOf(u) \cup {q}
              /\ \A v \in Users : v # u /\ v # q => FriendsOf(v)' = FriendsOf(v)
  <2>1. /\ ~lost /\ usr[q].fri[usr[q].fcount] \in {None, u}
        /\ usr[u].fri[usr[u].fcount] \in {None, q}
    <3>1. ~lost /\ ~Overwrites(usr, q, u) /\ ~Overwrites(half, u, q)
      BY <1>6, <1>13
    <3>2. half[u] = usr[u]
      BY <1>4
    <3> QED
      BY <3>1, <3>2 DEF Overwrites
  <2>2. InRing(usr'[q].fri) = InRing(usr[q].fri) \cup {u}
    BY <1>9, <1>11, <2>1
  <2>3. InRing(usr'[u].fri) = InRing(usr[u].fri) \cup {q}
    BY <1>9, <1>11, <2>1
  <2> QED
    BY <1>9, <1>12, <2>1, <2>2, <2>3
<1>14. InRoom' = InRoom
  BY DEF InRoom
<1>15. ASSUME ~lost', NEW v \in Users, NEW w \in FriendsOf(v)'
       PROVE  /\ v \in InRoom' /\ v \in FriendsOf(w)'
              /\ asked' \cap {<<usr'[v].name, usr'[w].name>>, <<usr'[w].name, usr'[v].name>>} # {}
  <2>1. FriendsOf(v) \subseteq Users
    BY <1>10, <1>12 DEF InRing
  <2>2. w \in FriendsOf(v) \/ (v = q /\ w = u) \/ (v = u /\ w = q)
    <3>1. CASE v = q
      BY <1>13, <1>15, <3>1
    <3>2. CASE v = u
      BY <1>13, <1>15, <3>2
    <3>3. CASE v # u /\ v # q
      BY <1>13, <1>15, <3>3
    <3> QED
      BY <3>1, <3>2, <3>3
  <2>3. CASE w \in FriendsOf(v)
    <3>1. /\ v \in InRoom /\ v \in FriendsOf(w) /\ w \in Users
          /\ asked \cap {<<usr[v].name, usr[w].name>>, <<usr[w].name, usr[v].name>>} # {}
      BY <1>1, <1>13, <1>15, <2>1, <2>3 DEF Rings
    <3>2. FriendsOf(w) \subseteq FriendsOf(w)'
      BY <1>13, <1>15, <3>1
    <3> QED
      BY <1>8, <1>14, <3>1, <3>2
  <2>4. CASE (v = q /\ w = u) \/ (v = u /\ w = q)
    <3>1. v \in InRoom' /\ v \in FriendsOf(w)' /\ w \in Users
      BY <1>13, <1>14, <1>15, <2>4
    <3> QED
      BY <1>8, <2>4, <3>1
  <2> QED
    BY <2>2, <2>3, <2>4
<1>16. lost' \in BOOLEAN
  BY <1>6
<1>17. \A v \in Users : usr'[v].name \in Names \cup {None}
  BY <1>1, <1>8 DEF Rings
<1>18. \A v \in Users : usr'[v].fri \in [Slots -> Users \cup {None}]
  BY <1>9, <1>10, <1>11
<1>19. Rings'
  BY <1>15, <1>16, <1>17, <1>18 DEF Rings
<1> QED
  BY <1>8, <1>19

(* A request is answered.                                                  *)
LEMMA AnswerFriends ==
    ASSUME IInv, Friends, NEW u \in Users, Answer(u)
    PROVE  Friends'
<1> DEFINE q == Find(get[u].arg)
           op == get[u].op
<1>1. Rings /\ Mail /\ (\A v \in Users : Honest(v)) /\ ListWell /\ Shapes
  BY DEF Friends, IInv
<1>2. /\ get[u].pc = "section" /\ op \in {"y", "n"} /\ LeaveTo(u, "recv")
      /\ toClient' = IF q = None THEN toClient ELSE Sent(q, op, usr[u].name)
      /\ UNCHANGED <<room, asked, cli, msgbuf>>
  BY DEF Answer, clients
<1>3. \/ /\ q # None /\ usr' = Linked(Linked(usr, q, u), u, q)
         /\ lost' = (lost \/ Overwrites(usr, q, u) \/ Overwrites(Linked(usr, q, u), u, q))
      \/ usr' = usr /\ lost' = lost
  <2>1. lost \in BOOLEAN
    BY <1>1 DEF Rings
  <2>2. CASE q # None /\ op = "y"
    BY <2>2 DEF Answer
  <2>3. CASE ~(q # None /\ op = "y")
    BY <2>1, <2>3 DEF Answer
  <2> QED
    BY <2>2, <2>3
<1>4. q = None \/ (q \in Users /\ q \in InRoom /\ usr[q].name = get[u].arg)
  BY <1>1, FindIs
<1>5. get[u].arg # usr[u].name /\ <<get[u].arg, usr[u].name>> \in asked
  BY <1>1, <1>2 DEF Honest
<1>6. Place(u, "section", op, give[u], usr[u].state, InRoom)
  BY <1>2 DEF IInv, Places
<1>7. u \in InRoom
  BY <1>2, <1>6 DEF Place
<1>8. LinesCalm
  BY <1>2, LeavesCalm
<1> HIDE DEF q, op
<1>9. Rings' /\ \A v \in Users : usr'[v].name = usr[v].name /\ usr'[v].state = usr[v].state
  <2>1. CASE usr' = usr /\ lost' = lost
    <3>1. InRoom' = InRoom
      BY <1>2 DEF InRoom
    <3> QED
      BY <1>1, <1>2, <2>1, <3>1, RingsStay DEF Rings
  <2>2. CASE /\ q # None /\ usr' = Linked(Linked(usr, q, u), u, q)
             /\ lost' = (lost \/ Overwrites(usr, q, u) \/ Overwrites(Linked(usr, q, u), u, q))
    <3>1. q \in Users /\ q \in InRoom /\ q # u /\ <<usr[q].name, usr[u].name>> \in asked
      BY <1>4, <1>5, <2>2
    <3>2. Rings' /\ \A v \in Users : usr'[v].name = usr[v].name
      BY <1>2, <1>7, <2>2, <3>1, AnswerRings
    <3> DEFINE half == Linked(usr, q, u)
    <3>3. /\ half = [v \in Users |-> half[v]]
          /\ \A v \in Users : /\ UserShape(half[v]) /\ half[v].state = usr[v].state
                              /\ half[v].fcount \in Slots
      BY <1>1, <3>1, LinkedOne DEF Shapes
    <3>4. usr' = Linked(half, u, q)
      BY <2>2
    <3> HIDE DEF half
    <3>5. \A v \in Users : usr'[v].state = half[v].state
      BY <3>3, <3>4, LinkedOne
    <3> QED
      BY <3>2, <3>3, <3>5
  <2> QED
    BY <1>3, <2>1, <2>2
<1>10. PlainSent
  <2>1. op \in Kinds \ {"$"} /\ usr[u].name \in Names \cup {None}
    BY <1>1, <1>2 DEF Kinds, Rings
  <2> QED
    BY <1>2, <1>4, <2>1 DEF PlainSent
<1>11. /\ toClient' \in [Users -> Seq(Message)]
       /\ \A v \in Users : Suitors(v)' = Suitors(v)
  BY <1>1, <1>2, <1>10, SuitorsStay
<1>12. InRoom' = InRoom
  BY <1>2 DEF InRoom
<1>13. \A v \in Users : Fresh(v)' => Fresh(v)
  BY <1>8, <1>9, <1>12 DEF Fresh, LinesCalm
<1>14. Mail'
  <2>1. /\ asked \subseteq asked' /\ msgbuf'.kind \in Kinds \ {"$"}
        /\ cli' \in [Users -> [state : CliStates, fname : Names \cup {None}]]
    BY <1>1, <1>2 DEF Mail
  <2> QED
    BY <1>1, <1>9, <1>11, <1>12, <1>13, <2>1, MailStays
<1>15. \A v \in Users : Honest(v)'
  BY <1>1, <1>2, <1>8, <1>9, HonestStays DEF LinesCalm
<1> QED
  BY <1>9, <1>14, <1>15 DEF Friends

(* What leaves the server alone, and no client hears of a new request.     *)
LEMMA ClientFriends ==
    ASSUME Friends, UNCHANGED <<room, lost, asked, msgbuf, usr, get>>,
           toClient' \in [Users -> Seq(Message)],
           cli' \in [Users -> [state : CliStates, fname : Names \cup {None}]],
           \A v \in Users : Suitors(v)' \subseteq Suitors(v)
    PROVE  Friends'
<1>1. Rings /\ Mail /\ \A v \in Users : Honest(v)
  BY DEF Friends
<1>2. InRoom' = InRoom
  BY DEF InRoom
<1>3. Rings'
  BY <1>1, <1>2, RingsStay DEF Rings
<1>4. ASSUME NEW v \in Users, v \in InRoom', NEW n \in Suitors(v)'
      PROVE  n # usr'[v].name /\ <<n, usr'[v].name>> \in asked'
  BY <1>1, <1>2, <1>4 DEF Mail
<1>5. \A v \in Users : Fresh(v)' => Suitors(v)' = {}
  BY <1>1, <1>2 DEF Mail, Fresh
<1>6. Mail'
  BY <1>1, <1>4, <1>5 DEF Mail
<1>7. \A v \in Users : Honest(v)'
  BY <1>1, HonestStays
<1> QED
  BY <1>3, <1>6, <1>7 DEF Friends

(* A message is taken out of u's socket; of requests fname may now name    *)
(* the one who made the one that was taken.                                *)
LEMMA TakenMessage ==
    ASSUME Mail, NEW u \in Users, toClient[u] # <<>>,
           toClient' = [toClient EXCEPT ![u] = Tail(@)],
           \A v \in Users : v # u => cli'[v].fname = cli[v].fname,
           \/ cli'[u].fname = cli[u].fname
           \/ Head(toClient[u]).kind = "$" /\ cli'[u].fname = Head(toClient[u]).from
    PROVE  /\ toClient' \in [Users -> Seq(Message)]
           /\ \A v \in Users : Suitors(v)' \subseteq Suitors(v)
<1> DEFINE s == toClient[u]
           t == Tail(s)
           dollars(x) == {x[k].from : k \in {j \in DOMAIN x : x[j].kind = "$"}}
<1>1. toClient \in [Users -> Seq(Message)] /\ s \in Seq(Message) /\ s # <<>>
  BY DEF Mail
<1>2. toClient'[u] = t /\ \A v \in Users : v # u => toClient'[v] = toClient[v]
  BY <1>1
<1>3. /\ t \in Seq(Message) /\ 1 \in DOMAIN s /\ Head(s) = s[1]
      /\ \A k \in DOMAIN t : k + 1 \in DOMAIN s /\ t[k] = s[k + 1]
  BY <1>1
<1>4. toClient' \in [Users -> Seq(Message)]
  BY <1>1, <1>3
<1>5. \A v \in Users : Suitors(v) = dollars(toClient[v]) \cup ({cli[v].fname} \ {None})
  BY Zenon DEF Suitors
<1>6. \A v \in Users : Suitors(v)' = dollars(toClient'[v]) \cup ({cli'[v].fname} \ {None})
  BY Zenon DEF Suitors
<1>7. s = toClient[u]
  OBVIOUS
<1> HIDE DEF s, t
<1>8. dollars(t) \subseteq dollars(s)
  BY <1>3
<1>9. Head(s).kind = "$" => Head(s).from \in dollars(s)
  BY <1>3
<1> HIDE DEF dollars
<1>10. Suitors(u)' \subseteq Suitors(u)
  <2>1. Suitors(u)' = dollars(t) \cup ({cli'[u].fname} \ {None})
    BY <1>2, <1>6, Zenon
  <2>2. Suitors(u) = dollars(s) \cup ({cli[u].fname} \ {None})
    BY <1>5, <1>7, Zenon
  <2>3. cli'[u].fname = cli[u].fname \/ cli'[u].fname \in dollars(s)
    BY <1>7, <1>9
  <2> QED
    BY <1>8, <2>1, <2>2, <2>3
<1>11. ASSUME NEW v \in Users, v # u
       PROVE  Suitors(v)' = Suitors(v)
  <2>1. toClient'[v] = toClient[v] /\ cli'[v].fname = cli[v].fname
    BY <1>2, <1>11
  <2> QED
    BY <1>5, <1>6, <2>1, Zenon
<1> QED
  BY <1>4, <1>10, <1>11

(* A client looks at what it was sent.                                     *)
LEMMA ReceiveFriends ==
    ASSUME Friends, NEW u \in Users, Reply(u) \/ Receive(u)
    PROVE  Friends'
<1> DEFINE m == Head(toClient[u])
           c == cli'[u]
<1>1. Mail
  BY DEF Friends
<1>2. /\ UNCHANGED <<room, lost, asked, msgbuf, usr, get>>
      /\ toClient[u] # <<>> /\ toClient' = [toClient EXCEPT ![u] = Tail(@)]
  BY DEF Reply, Receive, serverSide
<1>3. /\ cli \in [Users -> [state : CliStates, fname : Names \cup {None}]]
      /\ toClient[u] \in Seq(Message)
  BY <1>1 DEF Mail
<1>4. m \in Message
  BY <1>2, <1>3
<1>5. m.from \in Names \cup {None}
  BY <1>4 DEF Message
<1> HIDE DEF m
<1>6. \/ \E x \in CliStates : cli' = [cli EXCEPT ![u].state = x]
      \/ cli' = [cli EXCEPT ![u].fname = IF m.kind = "$" THEN m.from ELSE @]
  <2>1. CASE Reply(u)
    BY <2>1 DEF Reply, CliStates
  <2>2. CASE Receive(u)
    BY <2>2 DEF Receive, m
  <2> QED
    BY <2>1, <2>2
<1>7. /\ cli' \in [Users -> [state : CliStates, fname : Names \cup {None}]]
      /\ \A v \in Users : v # u => cli'[v] = cli[v]
      /\ cli'[u].fname = cli[u].fname \/ (m.kind = "$" /\ cli'[u].fname = m.from)
  BY <1>3, <1>5, <1>6
<1>8. /\ toClient' \in [Users -> Seq(Message)]
      /\ \A v \in Users : Suitors(v)' \subseteq Suitors(v)
  BY <1>1, <1>2, <1>7, TakenMessage DEF m
<1> QED
  BY <1>2, <1>7, <1>8, ClientFriends

(* A structure with another name and state keeps its ring.                 *)
LEMMA TwoNameAndRing ==
    ASSUME NEW r, UserShape(r), NEW x, NEW y
    PROVE  NameAndState(r, x, y).name = x /\ NameAndState(r, x, y).fri = r.fri
  BY DEF UserShape, NameAndState

(* A line is read: a client answers only a request that it has been sent,  *)
(* and a name is entered before the login.                                 *)
LEMMA ReadFriends ==
    ASSUME IInv, Friends, NEW u \in Users, NEW op, NEW arg, Read(u, op, arg),
           op = "1" => arg \in Names,
           op \in {"y", "n"} => arg = cli[u].fname /\ arg # None,
           toClient' = toClient, \A v \in Users : cli'[v].fname = cli[v].fname,
           cli' \in [Users -> [state : CliStates, fname : Names \cup {None}]]
    PROVE  Friends'
<1> DEFINE acts == \/ usr[u].state = 1 /\ op = "1"
                   \/ usr[u].state = 2 /\ op # "1" /\ ~(op = "$" /\ arg = usr[u].name)
           ends == usr[u].state = 1 /\ op = "4"
           full == [pc |-> "enter", op |-> op, arg |-> arg,
                    p |-> IF op = "1" /\ room # <<>> THEN Head(room) ELSE None]
           l == CASE acts -> full
                  [] ends -> [Idle EXCEPT !.pc = "done"]
                  [] OTHER -> Idle
           name == IF acts /\ op = "1" THEN arg ELSE usr[u].name
           state == IF ends THEN 5 ELSE usr[u].state
           r == NameAndState(usr[u], name, state)
<1>1. Rings /\ Mail /\ (\A v \in Users : Honest(v)) /\ Shapes
  BY DEF Friends, IInv
<1>2. /\ get[u].pc = "recv" /\ get' = [get EXCEPT ![u] = l]
      /\ usr' = [usr EXCEPT ![u].name = IF acts /\ op = "1" THEN arg ELSE @,
                            ![u].state = IF ends THEN 5 ELSE @]
      /\ UNCHANGED <<room, lost, asked, msgbuf>>
  BY DEF Read
<1>3. LineShape(full) /\ full.pc = "enter" /\ full.op = op /\ full.arg = arg
  BY DEF LineShape
<1>4. /\ LineShape(l)
      /\ \/ acts /\ l.pc = "enter" /\ l.op = op /\ l.arg = arg
         \/ ~acts /\ l.pc \in {"done", "recv"}
  <2>1. CASE acts
    BY <1>3, <2>1
  <2>2. CASE ~acts /\ ends
    BY <2>2, IdleShape
  <2>3. CASE ~acts /\ ~ends
    BY <2>3, IdleShape
  <2> QED
    BY <2>1, <2>2, <2>3
<1>5. usr' = [usr EXCEPT ![u] = r]
  BY <1>1, <1>2 DEF Shapes, NameAndState
<1>6. r.fri = usr[u].fri /\ r.name = name /\ r.state = state /\ UserShape(r)
  <2>1. UserShape(usr[u])
    BY <1>1 DEF Shapes
  <2> HIDE DEF name, state
  <2> QED
    BY <2>1, TwoUserFields, TwoNameAndRing
<1>7. Place(u, "recv", get[u].op, give[u], usr[u].state, InRoom)
  BY <1>1, <1>2 DEF IInv, Places
<1>8. (usr[u].state = 2 /\ u \in InRoom) \/ (usr[u].state = 1 /\ u \notin InRoom)
  BY <1>7 DEF Place
<1>9. /\ u \in InRoom => r.name = usr[u].name
      /\ r.name \in Names \cup {None}
      /\ r.state = 1 => usr[u].state = 1
      /\ acts /\ op # "1" => /\ u \in InRoom /\ (op = "$" => arg # usr[u].name)
  BY <1>1, <1>6, <1>8 DEF Rings
<1> HIDE DEF l, r, full, acts, ends, name, state
<1>10. /\ get'[u] = l /\ \A v \in Users : v # u => get'[v] = get[v]
       /\ usr'[u] = r /\ \A v \in Users : v # u => usr'[v] = usr[v]
  BY <1>1, <1>2, <1>5 DEF Shapes
<1>11. InRoom' = InRoom
  BY <1>2 DEF InRoom
<1>12. /\ \A v \in Users : usr'[v].name \in Names \cup {None} /\ usr'[v].fri = usr[v].fri
       /\ \A v \in Users : v \in InRoom => usr'[v].name = usr[v].name
  BY <1>1, <1>6, <1>9, <1>10 DEF Rings
<1>13. Rings'
  BY <1>1, <1>2, <1>11, <1>12, RingsStay
<1>14. \A v \in Users : Fresh(v)' => Fresh(v)
  <2>1. Fresh(u)' => Fresh(u)
    BY <1>4, <1>9, <1>10, <1>11 DEF Fresh
  <2> QED
    BY <1>10, <1>11, <2>1 DEF Fresh
<1>15. Mail'
  <2>1. /\ asked \subseteq asked' /\ msgbuf'.kind \in Kinds \ {"$"}
        /\ toClient' \in [Users -> Seq(Message)]
    BY <1>1, <1>2 DEF Mail
  <2>2. \A v \in Users : Suitors(v)' = Suitors(v)
    BY NothingSent
  <2> QED
    BY <1>1, <1>11, <1>12, <1>14, <2>1, <2>2, MailStays
<1>16. Honest(u)'
  <2>1. CASE acts /\ op # "1"
    <3>1. op = "$" => arg # r.name
      BY <1>9, <2>1
    <3>2. op \in {"y", "n"} => arg \in Suitors(u)
      BY DEF Suitors
    <3>3. op \in {"y", "n"} => arg # r.name /\ <<arg, r.name>> \in asked
      BY <1>1, <1>9, <2>1, <3>2 DEF Mail
    <3> QED
      <4>1. get'[u].op = op /\ get'[u].arg = arg /\ usr'[u].name = r.name /\ asked' = asked
        BY <1>2, <1>4, <1>10, <2>1
      <4> QED
        BY <3>1, <3>3, <4>1, Zenon DEF Honest
  <2>2. CASE ~acts \/ op = "1"
    BY <1>4, <1>10, <2>2 DEF Honest
  <2> QED
    BY <2>1, <2>2
<1>17. \A v \in Users : v # u => Honest(v)'
  BY <1>1, <1>2, <1>10, HonestStays
<1> QED
  BY <1>13, <1>15, <1>16, <1>17 DEF Friends

(* A user is freed: its friends are those who have it, and cut it out.     *)
LEMMA FreeFriends ==
    ASSUME IInv, Friends, NEW u \in Users, Free(u)
    PROVE  Friends'
<1> DEFINE cut(v) == [usr[v] EXCEPT !.fri = Cut(v, u)]
<1>1. Rings /\ Mail /\ (\A v \in Users : Honest(v)) /\ Shapes /\ ListWell
  BY DEF Friends, IInv
<1>2. /\ give[u] = "free" /\ room' = Unlinked(u)
      /\ usr' = [v \in Users |-> IF v = u THEN NoUser
                                 ELSE IF v \in FriendsOf(u) THEN cut(v) ELSE usr[v]]
      /\ UNCHANGED <<lost, asked, cli, msgbuf, toClient, get>>
  BY DEF Free, FriendsOf, clients
<1>3. Place(u, get[u].pc, get[u].op, "free", usr[u].state, InRoom)
  BY <1>2 DEF IInv, Places
<1>4. u \in InRoom /\ get[u].pc = "done"
  BY <1>3 DEF Place, GetPc
<1>5. InRoom' = InRoom \ {u}
  <2> DEFINE k == CHOOSE i \in DOMAIN room : room[i] = u
  <2>1. k \in DOMAIN room /\ room[k] = u
    BY <1>4 DEF InRoom
  <2>2. room' = [i \in 1 .. Len(room) - 1 |-> room[IF i < k THEN i ELSE i + 1]]
    BY <1>2 DEF Unlinked
  <2> HIDE DEF k
  <2> DEFINE t == [i \in 1 .. Len(room) - 1 |-> room[IF i < k THEN i ELSE i + 1]]
  <2>3. {t[i] : i \in DOMAIN t} = {room[i] : i \in DOMAIN room} \ {room[k]}
    BY <1>1, <2>1, TakenOut, Zenon DEF ListWell
  <2>4. room' = t
    BY <2>2
  <2> HIDE DEF t
  <2> QED
    BY <2>1, <2>3, <2>4, Zenon DEF InRoom
<1>6. \A v \in Users : usr[v].fri \in [Slots -> Users \cup {None}] /\ FriendsOf(v) \subseteq Users
  BY <1>1 DEF Rings, FriendsOf
<1>7. ASSUME NEW v \in Users
      PROVE  cut(v).name = usr[v].name /\ cut(v).fri = Cut(v, u) /\ cut(v).state = usr[v].state
  <2>1. UserShape(usr[v])
    BY <1>1 DEF Shapes
  <2> QED
    BY <2>1, NameAndRing, RingField
<1> HIDE DEF cut
<1>8. usr'[u] = NoUser
  BY <1>2
<1>9. \A v \in Users : v # u => /\ usr'[v].name = usr[v].name /\ usr'[v].state = usr[v].state
                                /\ usr'[v].fri = IF v \in FriendsOf(u) THEN Cut(v, u)
                                                 ELSE usr[v].fri
  BY <1>2, <1>7
<1>10. \A v \in Users : /\ usr'[v].fri \in [Slots -> Users \cup {None}]
                        /\ usr'[v].name \in Names \cup {None}
  <2>1. NoUser.fri \in [Slots -> Users \cup {None}] /\ NoUser.name = None
    BY DEF NoUser
  <2>2. \A v \in Users : Cut(v, u) \in [Slots -> Users \cup {None}]
    BY <1>6 DEF Cut
  <2>3. \A v \in Users : usr[v].name \in Names \cup {None}
    BY <1>1 DEF Rings
  <2> QED
    BY <1>6, <1>8, <1>9, <2>1, <2>2, <2>3
<1>11. FriendsOf(u)' = {}
  BY <1>8 DEF FriendsOf, NoUser
<1>12. ASSUME ~lost, NEW v \in Users, v # u
       PROVE  FriendsOf(v)' = FriendsOf(v) \ {u}
  <2>1. CASE v \in FriendsOf(u)
    <3>1. FriendsOf(v)' = {Cut(v, u)[i] : i \in Slots} \ {None}
      BY <1>9, <1>12, <2>1 DEF FriendsOf
    <3>2. u # None
      BY RoomAssumption
    <3>3. {Cut(v, u)[i] : i \in Slots} \ {None} = FriendsOf(v) \ {u}
      BY <3>2 DEF FriendsOf, Cut
    <3> QED
      BY <3>1, <3>3
  <2>2. CASE v \notin FriendsOf(u)
    <3>1. FriendsOf(v)' = FriendsOf(v)
      BY <1>9, <1>12, <2>2 DEF FriendsOf
    <3>2. u \notin FriendsOf(v)
      BY <1>1, <1>12, <2>2 DEF Rings
    <3> QED
      BY <3>1, <3>2
  <2> QED
    BY <2>1, <2>2
<1>13. ASSUME ~lost, NEW v \in Users, NEW w \in FriendsOf(v)'
       PROVE  /\ v \in InRoom' /\ v \in FriendsOf(w)'
              /\ asked' \cap {<<usr'[v].name, usr'[w].name>>, <<usr'[w].name, usr'[v].name>>} # {}
  <2>1. v # u
    BY <1>11, <1>13
  <2>2. w \in FriendsOf(v) /\ w # u /\ w \in Users
    BY <1>6, <1>12, <1>13, <2>1
  <2>3. /\ v \in InRoom /\ v \in FriendsOf(w)
        /\ asked \cap {<<usr[v].name, usr[w].name>>, <<usr[w].name, usr[v].name>>} # {}
    BY <1>1, <1>13, <2>2 DEF Rings
  <2>4. v \in FriendsOf(w)'
    BY <1>12, <1>13, <2>1, <2>2, <2>3
  <2> QED
    BY <1>2, <1>5, <1>9, <2>1, <2>2, <2>3, <2>4
<1>14. Rings'
  BY <1>1, <1>2, <1>10, <1>13 DEF Rings
<1>15. \A v \in Users : Fresh(v)' => Fresh(v)
  <2>1. ~Fresh(u)'
    BY <1>2, <1>4, <1>8, NewUser DEF Fresh
  <2>2. \A v \in Users : v # u => (v \in InRoom' <=> v \in InRoom)
    BY <1>5
  <2> QED
    BY <1>2, <1>9, <2>1, <2>2 DEF Fresh
<1>16. Mail'
  <2>1. /\ asked \subseteq asked' /\ msgbuf'.kind \in Kinds \ {"$"}
        /\ toClient' \in [Users -> Seq(Message)]
        /\ cli' \in [Users -> [state : CliStates, fname : Names \cup {None}]]
    BY <1>1, <1>2 DEF Mail
  <2>2. \A v \in Users : Suitors(v)' = Suitors(v)
    BY <1>2, NothingSent
  <2>3. \A v \in Users : v \in InRoom' => v \in InRoom /\ usr'[v].name = usr[v].name
    BY <1>5, <1>9
  <2> QED
    BY <1>1, <1>15, <2>1, <2>2, <2>3, MailStays
<1>17. Honest(u)'
  BY <1>2, <1>4 DEF Honest
<1>18. \A v \in Users : v # u => Honest(v)'
  BY <1>1, <1>2, <1>9, HonestStays
<1> QED
  BY <1>14, <1>16, <1>17, <1>18 DEF Friends

(* Every step keeps what friendship rests on.                              *)
LEMMA NextFriends == IInv /\ Friends /\ [Next]_vars => Friends'
<1> SUFFICES ASSUME IInv, Friends, [Next]_vars
             PROVE  Friends'
  OBVIOUS
<1>1. Mail
  BY DEF Friends
<1>2. CASE MainUnlock \/ UNCHANGED vars
  <2>1. UNCHANGED <<room, lost, asked, msgbuf, usr, get, toClient, cli>>
    BY <1>2 DEF MainUnlock, clients, vars
  <2>2. \A v \in Users : Suitors(v)' = Suitors(v)
    BY <2>1, NothingSent
  <2> QED
    BY <1>1, <2>1, <2>2, ClientFriends DEF Mail
<1>3. ASSUME NEW u \in Users, Accept(u)
      PROVE  Friends'
  BY <1>3, AcceptFriends
<1>4. ASSUME NEW u \in Users, GetTask(u)
      PROVE  Friends'
  BY <1>4, GetterCalm, CalmStep, LogInFriends, BefriendFriends, AnswerFriends DEF GetTask
<1>5. ASSUME NEW u \in Users, GiveTask(u)
      PROVE  Friends'
  <2>1. CASE Look(u) /\ usr[u].state = 5
    BY <2>1, LookFriends
  <2>2. CASE Free(u)
    BY <2>2, FreeFriends
  <2>3. CASE (Look(u) /\ usr[u].state # 5) \/ Wait(u) \/ Wake(u) \/ Deliver(u)
    BY <2>3, GiverCalm, CalmStep
  <2> QED
    BY <1>5, <2>1, <2>2, <2>3 DEF GiveTask
<1>6. ASSUME NEW u \in Users, Client(u)
      PROVE  Friends'
  <2>1. cli \in [Users -> [state : CliStates, fname : Names \cup {None}]]
    BY <1>1 DEF Mail
  <2>2. CASE Reply(u) \/ Receive(u)
    BY <2>2, ReceiveFriends
  <2>3. CASE EnterName(u)
    <3>1. PICK n \in Names : Read(u, "1", n)
      BY <2>3 DEF EnterName
    <3>2. toClient' = toClient /\ cli' = [cli EXCEPT ![u].state = "reply"]
      BY <2>3 DEF EnterName
    <3>3. /\ cli' \in [Users -> [state : CliStates, fname : Names \cup {None}]]
          /\ \A v \in Users : cli'[v].fname = cli[v].fname
      BY <2>1, <3>2 DEF CliStates
    <3> QED
      BY <3>1, <3>2, <3>3, ReadFriends
  <2>4. CASE Type(u)
    <3>1. toClient' = toClient /\ cli' = cli
      BY <2>4 DEF Type
    <3>2. CASE \E op \in {"2", "3", "!"} : Read(u, op, None)
      BY <2>1, <3>1, <3>2, ReadFriends
    <3>3. CASE \E op \in {"@", "$"}, n \in Names : Read(u, op, n)
      BY <2>1, <3>1, <3>3, ReadFriends
    <3>4. CASE cli[u].fname # None /\ \E op \in {"y", "n"} : Read(u, op, cli[u].fname)
      BY <2>1, <3>1, <3>4, ReadFriends
    <3> QED
      BY <2>4, <3>2, <3>3, <3>4 DEF Type
  <2>5. CASE TypeQuit(u)
    <3>1. /\ Read(u, "4", None) /\ toClient' = toClient
          /\ cli' = [cli EXCEPT ![u].state = "quit"]
      BY <2>5 DEF TypeQuit
    <3>2. /\ cli' \in [Users -> [state : CliStates, fname : Names \cup {None}]]
          /\ \A v \in Users : cli'[v].fname = cli[v].fname
      BY <2>1, <3>1 DEF CliStates
    <3> QED
      BY <3>1, <3>2, ReadFriends
  <2> QED
    BY <1>6, <2>2, <2>3, <2>4, <2>5 DEF Client
<1> QED
  BY <1>2, <1>3, <1>4, <1>5, <1>6 DEF Next

(* At the start nobody has friends, or has asked.                          *)
LEMMA InitFriends == Init => Friends
<1> SUFFICES ASSUME Init
             PROVE  Friends
  OBVIOUS
<1> DEFINE seat(u) == {i \in DOMAIN Seated : Seated[i][1] = u}
           name(u) == Seated[CHOOSE i \in seat(u) : TRUE][2]
<1>1. /\ msgbuf = [no |-> 0, kind |-> "none"] /\ toClient = [u \in Users |-> <<>>]
      /\ asked = {} /\ lost = FALSE
      /\ usr = [u \in Users |-> IF seat(u) # {}
                                THEN NameAndState(NoUser, name(u), 2) ELSE NoUser]
      /\ get = [u \in Users |-> [Idle EXCEPT !.pc = IF seat(u) # {} THEN "recv" ELSE "none"]]
      /\ cli = [u \in Users |-> [state |-> IF seat(u) # {} THEN "talk" ELSE "name",
                                 fname |-> None]]
  <2>1. usr = [u \in Users |-> IF seat(u) # {}
                               THEN [NoUser EXCEPT !.state = 2, !.name = name(u)] ELSE NoUser]
    BY Zenon DEF Init
  <2>2. \A x : [NoUser EXCEPT !.state = 2, !.name = x] = NameAndState(NoUser, x, 2)
    BY DEF NameAndState, NoUser
  <2>3. usr = [u \in Users |-> IF seat(u) # {}
                               THEN NameAndState(NoUser, name(u), 2) ELSE NoUser]
    BY <2>1, <2>2, Zenon
  <2>4. get = [u \in Users |-> [Idle EXCEPT !.pc = IF seat(u) # {} THEN "recv" ELSE "none"]]
    BY Zenon DEF Init
  <2>5. cli = [u \in Users |-> [state |-> IF seat(u) # {} THEN "talk" ELSE "name",
                                fname |-> None]]
    BY Zenon DEF Init
  <2> QED
    BY <2>3, <2>4, <2>5, Zenon DEF Init
<1>2. \A u \in Users : seat(u) # {} => name(u) \in Names
  BY RoomAssumption
<1> HIDE DEF seat, name
<1>3. ASSUME NEW u \in Users
      PROVE  usr[u].fri = NoUser.fri /\ usr[u].name \in Names \cup {None}
  <2>1. UserShape(NoUser) /\ NoUser.name = None
    BY NewUser DEF NoUser
  <2>2. CASE seat(u) # {}
    <3>1. usr[u] = NameAndState(NoUser, name(u), 2)
      BY <1>1, <2>2
    <3> QED
      BY <1>2, <2>1, <2>2, <3>1, TwoNameAndRing
  <2>3. CASE seat(u) = {}
    BY <1>1, <2>1, <2>3
  <2> QED
    BY <2>2, <2>3
<1>4. NoUser.fri \in [Slots -> Users \cup {None}] /\ InRing(NoUser.fri) = {}
  BY DEF NoUser, InRing
<1>5. \A u \in Users : FriendsOf(u) = {}
  BY <1>3, <1>4 DEF FriendsOf, InRing
<1>6. Rings
  BY <1>1, <1>3, <1>4, <1>5 DEF Rings
<1>7. ASSUME NEW u \in Users
      PROVE  Suitors(u) = {}
  <2>1. toClient[u] = <<>> /\ cli[u].fname = None
    BY <1>1
  <2> QED
    BY <2>1 DEF Suitors
<1>8. Mail
  <2>1. <<>> \in Seq(Message)
    OBVIOUS
  <2>2. toClient \in [Users -> Seq(Message)]
    BY <1>1, <2>1
  <2>3. cli \in [Users -> [state : CliStates, fname : Names \cup {None}]]
    BY <1>1 DEF CliStates
  <2>4. msgbuf.kind \in Kinds \ {"$"}
    BY <1>1 DEF Kinds
  <2> QED
    BY <1>7, <2>2, <2>3, <2>4 DEF Mail
<1>9. ASSUME NEW u \in Users
      PROVE  Honest(u)
  <2>1. get[u].pc \in {"recv", "none"}
    BY <1>1, IdleShape
  <2> QED
    BY <2>1 DEF Honest
<1> QED
  BY <1>6, <1>8, <1>9 DEF Friends

(* Friendship is mutual, names nobody who has been freed, and follows a    *)
(* request of one of the two, until a ring takes the place of another's    *)
(* entry (lines 189-218, 242-245 and 343-355; IM_client.c, line 104).      *)
THEOREM FriendshipCorrect == Spec => []Friendship
<1>1. Friends => Friendship
  BY DEF Friends, Rings, Friendship
<1>2. Spec => []Friends
  BY InitFriends, NextFriends, Invariant, PTL DEF Spec
<1> QED
  BY <1>1, <1>2, PTL

===============================================================================
