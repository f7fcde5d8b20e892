------------------------------ MODULE MCTorrent ------------------------------
(***************************************************************************)
(* Torrent's run, and what TLC evaluates of Bencode and Tracker on the way *)
(* (a client reads its .torrent file and talks to the tracker before it    *)
(* connects to anybody).                                                   *)
(***************************************************************************)
EXTENDS Torrent, Bencode, Tracker

----------------------------------------------------------------------------
(* Bencode *)

Number(n) == [Node("int") EXCEPT !.num = n]
Text(s) == [Node("str") EXCEPT !.str = s]
ListOf(s) == [Node("list") EXCEPT !.items = [i \in DOMAIN s |-> Item(NULL, s[i])]]
DictOf(s) == [Node("dict") EXCEPT
                !.items = [i \in DOMAIN s |-> Item(Text(<<97 + i>>), s[i])]]

Decimal(n) == IF n < 10 THEN <<48 + n>> ELSE <<48 + (n \div 10), 48 + (n % 10)>>

\* The format, for the values below: numbers up to 99 and short strings.
RECURSIVE Encode(_)
Encode(v) ==
  CASE v.type = "int" -> <<105>> \o (IF v.num < 0 THEN <<45>> \o Decimal(-v.num)
                                     ELSE Decimal(v.num)) \o <<101>>
    [] v.type = "str" -> Decimal(Len(v.str)) \o <<58>> \o v.str
    [] OTHER -> (IF v.type = "list" THEN <<108>> ELSE <<100>>)
                \o FlattenSeq([i \in DOMAIN v.items |->
                     (IF v.type = "list" THEN <<>> ELSE Encode(v.items[i].key))
                     \o Encode(v.items[i].val)])
                \o <<101>>

Leaves == {Number(n) : n \in {-12, 0, 7}}
          \cup {Text(s) : s \in {<<>>, <<101>>, <<58, 0>>, <<108, 105, 101>>,
                                 [i \in 1 .. 11 |-> 49]}}
Of(vals) == UNION {{ListOf(s), DictOf(s)} : s \in {<<v>> : v \in vals}
                                              \cup {<<v, w>> : v, w \in vals}}
Flat == Of(Leaves)
Deep == Of({ListOf(<<Number(7)>>), DictOf(<<Text(<<101>>), Number(0)>>), Text(<<58, 0>>)})

\* What is encoded is read back, whatever bytes come behind it.
ASSUME ReadBack ==
  \A v \in Leaves \cup Flat \cup Deep : \A tail \in {<<>>, <<101>>, <<48, 58>>} :
    _be_decode(Encode(v) \o tail) = Return(v, Len(Encode(v)) + 1)

\* A list or a dictionary that ends too early is not refused (lines 94 and 115
\* do not look at data_len), nor is an empty one read.
ASSUME CutShort ==
  \A v \in Flat \cup Deep : \A n \in 1 .. Len(Encode(v)) - 1 :
    _be_decode(SubSeq(Encode(v), 1, n)) = Lost

ASSUME EmptyContainer ==
  _be_decode(<<108, 101>>) = Lost /\ _be_decode(<<100, 101>>) = Lost

\* A byte that begins nothing is never passed over.
ASSUME UnknownByte == _be_decode(<<108, 120, 101>>) = Lost

\* An integer that does not end in 'e' hides what comes behind it in a list.
ASSUME HiddenRest ==
  LET r == _be_decode(<<108, 105, 49, 105, 50, 101, 101>>)
  IN  r # Lost /\ Readable(r.node.items) = <<>> /\ Len(r.node.items) = 2

----------------------------------------------------------------------------
(* The .torrent file *)

InfoOf(length, piece_len) ==
  <<Entry("length", length), Entry("name", 1), Entry("piece length", piece_len),
    Entry("pieces", 1)>>
File(info) == <<Entry("announce", 1), Entry("announce-list", 2), Entry("info", info)>>

Total(meta) == FoldLeft(LAMBDA sum, i : sum + PieceLen(meta, i - 1), 0,
                        [i \in 1 .. meta.num_pieces |-> i])

\* The pieces make up the file, none of them empty or too long.
ASSUME PiecesFit ==
  \A length \in 1 .. 12, piece_len \in 1 .. 5 :
    LET meta == parsetorrentfile(File(InfoOf(length, piece_len)))
    IN  /\ meta.announce = 1 /\ Total(meta) = length
        /\ \A i \in 0 .. meta.num_pieces - 1 : PieceLen(meta, i) \in 1 .. piece_len

\* A file that lacks a field is refused ...
ASSUME LackNoticed ==
  \A key \in {"announce", "length", "name", "pieces"} :
    LET lacking(s) == SelectSeq(s, LAMBDA e : e.key # key)
        file == <<Entry("announce", 1), Entry("info", lacking(InfoOf(4, 2)))>>
    IN  parsetorrentfile(lacking(file)) = NoMeta

\* ... unless another key begins with the name of one that is there: line 131
\* counts "name" twice and the missing announce is not noticed (line 161).
ASSUME LackUnnoticed ==
  LET info == <<Entry("length", 4), Entry("name", 1), Entry("name.utf-8", 3),
                Entry("piece length", 2), Entry("pieces", 1)>>
      meta == parsetorrentfile(<<Entry("info", info)>>)
  IN  meta # NoMeta /\ meta.announce = Unset /\ meta.name = 3

----------------------------------------------------------------------------
(* The tracker *)

Unspelt(s) ==
  LET dec(c) == IF c < 58 THEN c - 48 ELSE c - 55
  IN  IF s[1] = 37 THEN 16 * dec(s[2]) + dec(s[3]) ELSE s[1]
ASSUME HashSpelt == \A b \in 0 .. 255 : Unspelt(Spelt(b)) = b

SomePeers == {<<10, 1, 1, 1, 26, 225>>, <<101, 10, 2, 2, 26, 112>>, <<10, 101, 0, 3, 26, 225>>}
Peers(s) == [i \in 1 .. Len(s) \div 6 |-> Peer(s, i)]

\* Without zero bytes every peer is found; with one, the peers from there on
\* are not (line 192).
ASSUME PeersFound ==
  \A p, q, r \in SomePeers :
    LET s == p \o q \o r
    IN  /\ IsPrefix(get_peers(s), Peers(s))
        /\ get_peers(s) = Peers(s) <=> ~Contains(s, 0)

\* The body ends at a zero byte behind an 'e', which an address may contain
\* (line 117); cut there, the list of peers is never read: decoding does not come
\* back, or takes an 'e' among the addresses for the end.
ASSUME BodyCut ==
  \A p, q \in SomePeers :
    LET bytes == Encode(DictOf(<<Text(p \o q)>>))
        body == Body(bytes, Len(bytes))
        r == _be_decode(body)
    IN  IF <<10, 101, 0, 3, 26, 225>> \in {p, q}
        THEN r = Lost \/ \A e \in ToSet(r.node.items) : e.val.str = <<>>
        ELSE body = bytes

\* "peers6", the list of IPv6 peers, is taken for another "peers" (line 176).
ASSUME PeersReplaced ==
  LET four == <<10, 1, 1, 1, 26, 225>>
      six == [i \in 1 .. 18 |-> 254]
      td == get_tracker_data(<<Entry("interval", 9), Entry("peers", four), Entry("peers6", six)>>)
  IN  td.interval = 9 /\ Len(td.peers) = 3 /\ td.peers[1] # Peers(four)[1]
=============================================================================
