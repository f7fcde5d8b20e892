------------------------------ MODULE Torrent ------------------------------
(***************************************************************************)
(* SimpleTorrent: clients that exchange the pieces of one file.  Every     *)
(* client runs main (polls the tracker and connects), waitPeer (accepts)   *)
(* and one PToP thread per connection (p2p.c).  A thread's work on one     *)
(* message is cut where it gives a lock back, so that the threads of a     *)
(* client interleave on the table of pieces as they do in the program.     *)
(*                                                                         *)
(* Not sent by any client of this program, and left out: choke, not        *)
(* interested, cancel (publicCancel walks all_peer, which stays empty).    *)
(***************************************************************************)
EXTENDS Integers, Sequences, FiniteSets, FiniteSetsExt

CONSTANTS Clients,
          Seeds,        \* clients started with argument 2
          Links,        \* pairs of clients that the tracker tells of each other
          NumPieces,    \* g_num_pieces
          NumBlocks,    \* 16k requests that make up one piece
          MAXPEER,      \* slots of myPeer
          MaxPerPair,   \* bound: connections of one pair of clients at one time
          Earlier,      \* clients that have run before and are not running at first
          Saved,        \* bound: what their .bf files may say at first
          Ending,       \* bound: the clients whose process may end
          MaxStops,     \* bound: ends of a process, all clients together
          None

ASSUME TorrentAssumption ==
  /\ IsFiniteSet(Clients) /\ Seeds \subseteq Clients 
  /\ Ending \subseteq Clients /\ Earlier \subseteq Clients \ Seeds
  /\ \A bf \in Saved : bf \subseteq 0 .. NumPieces - 1
  /\ Links \subseteq kSubset(2, Clients)
  /\ NumPieces \in Nat \ {0} /\ NumBlocks \in Nat \ {0}
  /\ MAXPEER \in Nat /\ MaxPerPair \in Nat /\ MaxStops \in Nat

VARIABLES
  isSeed,    \* g_isSeed of each client; -1 while the process is not running
  done,      \* pieces whose isDone and bit in g_bitmap are set
  disk,      \* <<piece, block>>s of the file that hold the right bytes
  owner,     \* sockfd of each piece_t: the connection that asks for the piece
  count,     \* count of each piece_t: peers that have announced it
  saved,     \* the .bf file: the bitmap saved by client_shutdown, or None
  stale,     \* history: "old": the file was emptied after the .bf file was written,
             \* "used": and yet the client was restarted from that .bf file
  end,       \* for each connection and client: the slot of myPeer and its thread
  chan,      \* for each connection and client: bytes on their way to the client
  stops

client == <<isSeed, done, disk, owner, count, saved, stale, stops>>
vars == <<isSeed, done, disk, owner, count, saved, stale, end, chan, stops>>

Pieces == 0 .. NumPieces - 1
Blocks == 0 .. NumBlocks - 1

\* Connections are named by the two clients and a number.
Conns == Links \X (1 .. MaxPerPair)
ConnsOf(c) == {k \in Conns : c \in k[1]}

\* ReqState and SaveState of a thread that is at no piece.
Nothing == [index |-> -1, offset |-> 0]
NoEnd == [pc |-> "none", bits |-> {}, req |-> Nothing, save |-> Nothing, piece |-> -1]

Up(c) == isSeed[c] # -1
Slots(c) == {k \in ConnsOf(c) : end[k][c].pc \notin {"none", "backlog"}}
Other(k, c) == CHOOSE d \in k[1] : d # c
Free(k) == \A c \in k[1] : end[k][c].pc = "none"

\* The peer has closed its side and everything it sent has been read.
EOF(k, c) == end[k][Other(k, c)].pc = "none" /\ chan[k][c] = <<>>

\* Mutant: what is sent to a closed connection stays.
SendBlindly(ch, k, c, m) == [ch EXCEPT ![k][Other(k, c)] = Append(@, m)]

\* chan after m has been sent on k by c; a closed connection swallows it.
Send(ch, k, c, m) ==
  IF end[k][Other(k, c)].pc = "none" THEN ch
  ELSE [ch EXCEPT ![k][Other(k, c)] = Append(@, m)]

Msg(type) == [type |-> type]

\* Clients of Earlier have a .bf file of an earlier session; they still have what
\* it says, or their file has been emptied since.
Init ==
  /\ saved \in [Clients -> Saved \cup {None}]
  /\ stale \in [Clients -> {"no", "old"}]
  /\ \A c \in Clients : /\ c \in Earlier <=> saved[c] # None
                        /\ stale[c] = "old" => c \in Earlier /\ saved[c] # {}
  /\ isSeed = [c \in Clients |-> IF c \in Seeds THEN 2 ELSE IF c \in Earlier THEN -1 ELSE 0]
  /\ done = [c \in Clients |-> IF c \in Seeds THEN Pieces ELSE {}]
  /\ disk = [c \in Clients |-> IF c \in Seeds THEN Pieces \X Blocks
                               ELSE IF c \in Earlier /\ stale[c] = "no" THEN saved[c] \X Blocks
                               ELSE {}]
  /\ owner = [c \in Clients |-> [i \in Pieces |-> None]]
  /\ count = [c \in Clients |-> [i \in Pieces |-> 0]]
  /\ end = [k \in Conns |-> [c \in k[1] |-> NoEnd]]
  /\ chan = [k \in Conns |-> [c \in k[1] |-> <<>>]]
  /\ stops = 0

----------------------------------------------------------------------------
(* Connections: main, waitPeer, and the ends of a PToP thread *)

\* main of c connects to d and takes a slot; with no slot free it hangs up.
Connect(c, d) ==
  /\ {c, d} \in Links /\ Up(c) /\ Up(d)
  /\ Cardinality(Slots(c)) < MAXPEER
  /\ \E n \in 1 .. MaxPerPair :
       LET k == <<{c, d}, n>>
       IN  /\ Free(k)
           /\ end' = [end EXCEPT ![k][c].pc = "slot", ![k][d].pc = "backlog"]
  /\ UNCHANGED <<chan, client>>

\* c gives its side of k up.
Hangup(k, c) ==
  /\ end' = [end EXCEPT ![k][c] = NoEnd]
  /\ chan' = [chan EXCEPT ![k][c] = <<>>]

\* waitPeer of c takes the next connection, or closes it when myPeer is full.
Accept(k, c) ==
  /\ end[k][c].pc = "backlog"
  /\ IF Cardinality(Slots(c)) < MAXPEER
     THEN end' = [end EXCEPT ![k][c].pc = "slot"] /\ UNCHANGED chan
     ELSE Hangup(k, c)
  /\ UNCHANGED client

\* The thread starts: it sends its handshake first of all (line 132).
Handshake(k, c) ==
  /\ end[k][c].pc = "slot"
  /\ end' = [end EXCEPT ![k][c].pc = "hand"]
  /\ chan' = Send(chan, k, c, Msg("hand"))
  /\ UNCHANGED client

\* It waits for the other handshake; a seed then sends its bitfield.  Bytes
\* that come before the handshake put the thread out of step with the stream.
Greet(k, c) ==
  /\ end[k][c].pc = "hand" /\ chan[k][c] # <<>>
  /\ LET rest == [chan EXCEPT ![k][c] = Tail(@)]
     IN  IF Head(chan[k][c]).type = "hand"
         THEN /\ end' = [end EXCEPT ![k][c].pc = "read"]
              /\ chan' = IF isSeed[c] = 2
                         THEN Send(rest, k, c, [type |-> "bitfield", bits |-> done[c]])
                         ELSE rest
         ELSE /\ end' = [end EXCEPT ![k][c].pc = "astray"]
              /\ chan' = rest
  /\ UNCHANGED client

\* recvme fails: the thread closes the socket and clears the slot.
PeerGone(k, c) ==
  /\ end[k][c].pc \in {"hand", "read", "astray"} /\ EOF(k, c)
  /\ Hangup(k, c)
  /\ UNCHANGED client

----------------------------------------------------------------------------
(* PToP: one action per message *)

Reading(k, c, type) ==
  /\ end[k][c].pc = "read" /\ chan[k][c] # <<>> /\ Head(chan[k][c]).type = type
Read(k, c) == [chan EXCEPT ![k][c] = Tail(@)]

\* 0x02: choking is never set, so whoever is interested is unchoked.
OnInterested(k, c) ==
  /\ Reading(k, c, "interested")
  /\ chan' = Send(Read(k, c), k, c, Msg("unchoke"))
  /\ UNCHANGED <<end, client>>

\* 0x01: goes on to sendRequest.
OnUnchoke(k, c) ==
  /\ Reading(k, c, "unchoke")
  /\ end' = [end EXCEPT ![k][c].pc = "request"]
  /\ chan' = Read(k, c)
  /\ UNCHANGED client

\* 0x04: interested in a piece that is not here; the peer's bitmap stays.
OnHave(k, c) ==
  /\ Reading(k, c, "have")
  /\ chan' = IF Head(chan[k][c]).index \in done[c] THEN Read(k, c)
             ELSE Send(Read(k, c), k, c, Msg("interested"))
  /\ UNCHANGED <<end, client>>

\* 0x05 and needThis: two seeds part, nothing new is passed over, otherwise the
\* pieces announced are counted and the interest is declared.
OnBitfield(k, c) ==
  LET bits == Head(chan[k][c]).bits
      got == [end EXCEPT ![k][c].bits = bits]
  IN
  /\ Reading(k, c, "bitfield")
  /\ CASE isSeed[c] = 2 /\ bits = done[c] ->
            Hangup(k, c) /\ UNCHANGED count
       [] isSeed[c] = 2 \/ bits = done[c] ->
            end' = got /\ chan' = Read(k, c) /\ UNCHANGED count
       [] OTHER ->
            /\ count' = [count EXCEPT ![c] = [i \in Pieces |->
                           IF i \in bits THEN count[c][i] + 1 ELSE count[c][i]]]
            /\ end' = got
            /\ chan' = Send(Read(k, c), k, c, Msg("interested"))
  /\ UNCHANGED <<isSeed, done, disk, owner, saved, stale, stops>>

\* 0x06 and sendPiece: the bytes are read from the file, whatever they are.
OnRequest(k, c) ==
  LET m == Head(chan[k][c])
  IN
  /\ Reading(k, c, "request")
  /\ chan' = Send(Read(k, c), k, c,
                  [type |-> "piece", index |-> m.index, offset |-> m.offset,
                   good |-> <<m.index, m.offset>> \in disk[c]])
  /\ UNCHANGED <<end, client>>

\* Mutant: off by one.
IsLastButOne(offset) == offset + 2 >= NumBlocks

\* The block at that offset is the last of its piece.
IsLast(offset) == offset + 1 >= NumBlocks

\* 0x07 and the first part of savePiece.  Only the next block of the piece this
\* connection is at is written; the last one completes the piece.
OnPiece(k, c) ==
  LET m == Head(chan[k][c])
      s == end[k][c].save
      at == IF m.offset = 0 THEN [index |-> m.index, offset |-> 0] ELSE s
      last == IsLast(m.offset)
      go(pc, save) == end' = [end EXCEPT ![k][c].pc = pc, ![k][c].save = save,
                                         ![k][c].piece = IF pc = "show" THEN m.index ELSE -1]
  IN
  /\ Reading(k, c, "piece")
  /\ chan' = Read(k, c)
  /\ \/ /\ isSeed[c] = 2 \/ at.index < 0          \* nothing to save
        /\ go("request", s)
        /\ UNCHANGED <<disk, done, owner>>
     \/ /\ isSeed[c] # 2 /\ at = [index |-> m.index, offset |-> m.offset]
        /\ disk' = [disk EXCEPT ![c] = IF m.good THEN @ \cup {<<m.index, m.offset>>}
                                       ELSE @ \ {<<m.index, m.offset>>}]
        /\ done' = IF last THEN [done EXCEPT ![c] = @ \cup {m.index}] ELSE done
        /\ IF last THEN go("show", Nothing)
           ELSE go("request", [at EXCEPT !.offset = @ + 1])
        /\ UNCHANGED owner
     \/ /\ isSeed[c] # 2 /\ at.index >= 0         \* out of order: given up
        /\ at # [index |-> m.index, offset |-> m.offset]
        /\ IF at.index = m.index
           THEN owner' = [owner EXCEPT ![c][m.index] = None] /\ go("request", Nothing)
           ELSE UNCHANGED owner /\ go("request", at)
        /\ UNCHANGED <<disk, done>>
  /\ UNCHANGED <<isSeed, count, saved, stale, stops>>

\* showPiece: every peer that has a slot is told, its handshake sent or not.
Show(k, c) ==
  /\ end[k][c].pc = "show"
  /\ chan' = [j \in Conns |->
                IF j \in Slots(c)
                THEN Send(chan, j, c, [type |-> "have", index |-> end[k][c].piece])[j]
                ELSE chan[j]]
  /\ end' = [end EXCEPT ![k][c].pc = "check", ![k][c].piece = -1]
  /\ UNCHANGED client

\* The end of savePiece: with nothing left to fetch the client is a seed.
Check(k, c) ==
  /\ end[k][c].pc = "check"
  /\ isSeed' = IF done[c] = Pieces THEN [isSeed EXCEPT ![c] = 2] ELSE isSeed
  /\ end' = [end EXCEPT ![k][c].pc = "request"]
  /\ UNCHANGED <<done, disk, owner, count, saved, stale, stops, chan>>

----------------------------------------------------------------------------
(* sendRequest and getIndex *)

\* Among cand the pieces announced by the fewest peers; the first of them.
Rarest(c, cand) == Min({i \in cand : \A j \in cand : count[c][i] <= count[c][j]})

\* Mutant: any piece that is lacking.
ChoiceOfAnything(k, c) == Pieces \ done[c]

\* The pieces getIndex may return; {} stands for -1.  The first piece of a client
\* that started empty is drawn at random; then comes the rarest piece nobody asks
\* for, and only if there is none the rarest that somebody is stuck with.
Choice(k, c) ==
  LET wanted == end[k][c].bits \ done[c]
      idle == {i \in wanted : owner[c][i] = None}
  IN  IF isSeed[c] = 0 THEN end[k][c].bits
      ELSE IF wanted = {} THEN {}
      ELSE {Rarest(c, IF idle # {} THEN idle ELSE wanted)}

\* Mutant: the last block is left out.
AskButLast(k, c, r) ==
  /\ chan' = Send(chan, k, c, [type |-> "request", index |-> r.index, offset |-> r.offset])
  /\ end' = [end EXCEPT ![k][c].pc = "read",
                        ![k][c].req = IF r.offset + 2 >= NumBlocks THEN Nothing
                                      ELSE [r EXCEPT !.offset = @ + 1]]

\* Requests block r.offset of piece r.index and moves on.
Ask(k, c, r) ==
  /\ chan' = Send(chan, k, c, [type |-> "request", index |-> r.index, offset |-> r.offset])
  /\ end' = [end EXCEPT ![k][c].pc = "read",
                        ![k][c].req = IF IsLast(r.offset) THEN Nothing
                                      ELSE [r EXCEPT !.offset = @ + 1]]

\* Goes on with the piece the connection is at.
AskNext(k, c) ==
  /\ end[k][c].pc = "request" /\ end[k][c].req.index >= 0
  /\ Ask(k, c, end[k][c].req)
  /\ UNCHANGED client

\* Chooses a piece.  The random draw does not enter the piece's sockfd, and
\* never ends when the peer has announced nothing.
AskNew(k, c) ==
  /\ end[k][c].pc = "request" /\ end[k][c].req.index < 0
  /\ isSeed' = IF isSeed[c] = 0 THEN [isSeed EXCEPT ![c] = 1] ELSE isSeed
  /\ IF Choice(k, c) = {}
     THEN /\ end' = [end EXCEPT ![k][c].pc = IF isSeed[c] = 0 THEN "drawing" ELSE "read"]
          /\ UNCHANGED <<chan, owner>>
     ELSE \E i \in Choice(k, c) :
            /\ Ask(k, c, [index |-> i, offset |-> 0])
            /\ owner' = IF isSeed[c] = 0 THEN owner ELSE [owner EXCEPT ![c][i] = k]
  /\ UNCHANGED <<done, disk, count, saved, stale, stops>>

PToP(k, c) ==
  \/ Handshake(k, c) \/ Greet(k, c) \/ PeerGone(k, c)
  \/ OnInterested(k, c) \/ OnUnchoke(k, c) \/ OnHave(k, c) \/ OnBitfield(k, c)
  \/ OnRequest(k, c) \/ OnPiece(k, c) \/ Show(k, c) \/ Check(k, c)
  \/ AskNext(k, c) \/ AskNew(k, c)

----------------------------------------------------------------------------
(* Ends and restarts of a process *)

\* The process of c is gone and with it its side of every connection.
Gone(c) ==
  /\ Up(c) /\ c \in Ending /\ stops < MaxStops
  /\ isSeed' = [isSeed EXCEPT ![c] = -1]
  /\ stops' = stops + 1
  /\ end' = [k \in Conns |-> [d \in k[1] |-> IF d = c THEN NoEnd ELSE end[k][d]]]
  /\ chan' = [k \in Conns |-> [d \in k[1] |-> IF d = c THEN <<>> ELSE chan[k][d]]]

\* Ctrl-C: client_shutdown writes the bitmap to the .bf file.
Shutdown(c) ==
  /\ Gone(c)
  /\ saved' = [saved EXCEPT ![c] = done[c]]
  /\ stale' = [stale EXCEPT ![c] = IF @ = "old" THEN "no" ELSE @]
  /\ UNCHANGED <<done, disk, owner, count>>

\* The process is killed: no .bf file, and only finished pieces are surely flushed.
Kill(c) ==
  /\ Gone(c)
  /\ disk' = [disk EXCEPT ![c] = {x \in @ : x[1] \in done[c]}]
  /\ UNCHANGED <<done, owner, count, saved, stale>>

\* main and init_piece_state: argument 0 empties the file, 1 reads the .bf file,
\* 2 takes the file to be complete.
Start(c, mode) ==
  /\ ~Up(c)
  /\ mode = 2 <=> c \in Seeds
  /\ mode = 1 => saved[c] # None
  /\ isSeed' = [isSeed EXCEPT ![c] = mode]
  /\ done' = [done EXCEPT ![c] = CASE mode = 0 -> {} [] mode = 1 -> saved[c]
                                   [] OTHER -> Pieces]
  /\ disk' = IF mode = 0 THEN [disk EXCEPT ![c] = {}] ELSE disk
  /\ owner' = [owner EXCEPT ![c] = [i \in Pieces |-> None]]
  /\ count' = [count EXCEPT ![c] = [i \in Pieces |-> 0]]
  /\ stale' = [stale EXCEPT ![c] =
                 CASE mode = 0 /\ @ = "no" /\ saved[c] # None -> "old"
                   [] mode = 1 /\ @ = "old" -> "used"
                   [] OTHER -> @]
  /\ UNCHANGED <<saved, stops, end, chan>>

Next ==
  \E c \in Clients :
     \/ \E d \in Clients : Connect(c, d)
     \/ \E k \in ConnsOf(c) : Accept(k, c) \/ PToP(k, c)
     \/ Shutdown(c) \/ Kill(c)
     \/ \E mode \in 0 .. 2 : Start(c, mode)

\* main polls the tracker, waitPeer accepts, the threads run.
Fairness ==
  /\ \A l \in Links : \A c \in l : WF_vars(\E d \in l \ {c} : Connect(c, d))
  /\ \A c \in Clients : \A k \in ConnsOf(c) : WF_vars(Accept(k, c) \/ PToP(k, c))

Spec == Init /\ [][Next]_vars /\ Fairness

----------------------------------------------------------------------------

TypeOK ==
  /\ \A c \in Clients :
       /\ isSeed[c] \in -1 .. 2
       /\ done[c] \subseteq Pieces /\ disk[c] \subseteq Pieces \X Blocks
       /\ owner[c] \in [Pieces -> Conns \cup {None}]
       /\ Cardinality(Slots(c)) <= MAXPEER
  /\ \A k \in Conns : \A c \in k[1] :
       /\ end[k][c].pc # "none" => Up(c)
       /\ end[k][c].pc = "none" => chan[k][c] = <<>>
       /\ end[k][c].pc = "show" <=> end[k][c].piece # -1

\* A piece that is marked as done is on the disk, all of it and right, also after
\* restarts from the .bf file: lines 514-543 and simpletorrent.c 183-202.  Not
\* once some client was restarted from a .bf file older than its file.  Whoever
\* calls itself a seed has everything; the last piece may be completed by two
\* threads at once (lines 540-588).
NoneStale == \A c \in Clients : stale[c] # "used"
Integrity ==
  \A c \in Clients : /\ NoneStale => done[c] \X Blocks \subseteq disk[c]
                     /\ isSeed[c] = 2 => done[c] = Pieces

\* A client is asked only for what it has and sends what is right: sendPiece reads
\* the file without looking at the bitmap (line 482), its askers must have learnt
\* what to ask for.  And the blocks come in the order savePiece wants them: the
\* branch that gives a piece up (lines 591-599) is never taken.
AnswersFit ==
  \A k \in Conns : \A c \in k[1] :
    /\ NoneStale => \A n \in DOMAIN chan[k][c] :
         LET m == chan[k][c][n]
         IN  /\ m.type = "request" => <<m.index, m.offset>> \in disk[c]
             /\ m.type = "piece" => m.good
    /\ Up(c) /\ isSeed[c] # 2 /\ chan[k][c] # <<>> =>
         LET m == Head(chan[k][c])
         IN  m.type = "piece" /\ m.offset # 0
               => end[k][c].save = [index |-> m.index, offset |-> m.offset]

\* As long as no process ends, whoever is running and told of a seed gets every
\* piece, whatever it starts from.
Completes ==
  [](stops = 0) =>
    \A c \in Clients : (\E d \in Seeds : {c, d} \in Links) => (Up(c) ~> done[c] = Pieces)

=============================================================================
