------------------------------- MODULE Bencode -------------------------------
(***************************************************************************)
(* SimpleTorrent's bencode.c: what _be_decode makes of a sequence of       *)
(* bytes, the inputs on which it does not come back included.  Positions   *)
(* count from 1; the bytes left (data_len) are Len(s) + 1 - p.             *)
(***************************************************************************)
EXTENDS Integers, Sequences, SequencesExt, FiniteSetsExt

Digits == 48 .. 57
Minus == 45
Colon == 58
Letter == [d |-> 100, e |-> 101, i |-> 105, l |-> 108]

\* struct be_node; a list has items without keys.
Node(type) == [type |-> type, num |-> 0, str |-> <<>>, items |-> <<>>]
NULL == Node("NULL")
Item(key, val) == [key |-> key, val |-> val]

\* What a call returns and where it leaves *data.
Return(node, at) == [node |-> node, at |-> at]

\* The call does not return: it reads behind the data, loops for ever or writes
\* through a null pointer.
Lost == Return(NULL, 0)

\* Where a run of digits that begins at p ends.
DigitsEnd(s, p) == Min({q \in p .. Len(s) + 1 : q = Len(s) + 1 \/ s[q] \notin Digits})

\* strtoll: 0, and nothing read, where there is no number.
_be_decode_int(s, p) ==
  LET neg == p <= Len(s) /\ s[p] = Minus
      from == IF neg THEN p + 1 ELSE p
      to == DigitsEnd(s, from)
      abs == FoldLeft(LAMBDA n, b : 10 * n + (b - 48), 0, SubSeq(s, from, to - 1))
  IN  [num |-> IF neg THEN -abs ELSE abs, at |-> IF to = from THEN p ELSE to]

\* A length that is negative or more than is left is refused with the number read.
_be_decode_str(s, p) ==
  LET n == _be_decode_int(s, p)
  IN  IF n.num >= 0 /\ n.num <= Len(s) - n.at /\ s[n.at] = Colon
      THEN Return([Node("str") EXCEPT !.str = SubSeq(s, n.at + 1, n.at + n.num)],
                  n.at + n.num + 1)
      ELSE Return(NULL, n.at)

\* The loop of a list or a dictionary, about to read an entry at p.  It ends
\* with 'e' only.  The terminating entry is written through a null pointer if
\* no entry came before it (lines 102 and 124).
Entries(s, p, isDict, decode, more, first) ==
  IF p > Len(s) \/ (s[p] = Letter.e /\ first) THEN [items |-> <<>>, at |-> 0]
  ELSE IF s[p] = Letter.e THEN [items |-> <<>>, at |-> p + 1]
  ELSE LET key == IF isDict THEN _be_decode_str(s, p) ELSE Return(NULL, p)
           val == decode[key.at]
           rest == more[val.at]
       IN  IF val.at \in {0, p} \/ rest.at = 0 THEN [items |-> <<>>, at |-> 0]
           ELSE [items |-> <<Item(key.node, val.node)>> \o rest.items, at |-> rest.at]

\* decode["node"][p] is _be_decode at p; decode["list"] and decode["dict"] are
\* the rest of a container after its first entry.
_be_decode(s) ==
  LET places == 1 .. Len(s) + 1
      decode[w \in {"node", "list", "dict"} \X places] ==
        LET p == w[2]
            nodes == [q \in places |-> decode[<<"node", q>>]]
            more(kind) == [q \in places |-> decode[<<kind, q>>]]
            container(kind) ==
              LET es == Entries(s, p + 1, kind = "dict", nodes, more(kind), TRUE)
              IN  IF es.at = 0 THEN Lost
                  ELSE Return([Node(kind) EXCEPT !.items = es.items], es.at)
        IN  IF w[1] # "node" THEN Entries(s, p, w[1] = "dict", nodes, more(w[1]), FALSE)
            ELSE IF p > Len(s) THEN Return(NULL, p)
            ELSE CASE s[p] = Letter.l -> container("list")
                   [] s[p] = Letter.d -> container("dict")
                   [] s[p] = Letter.i ->
                        LET n == _be_decode_int(s, p + 1)
                        IN  IF n.at > Len(s) THEN Lost
                            ELSE IF s[n.at] # Letter.e THEN Return(NULL, n.at)
                            ELSE Return([Node("int") EXCEPT !.num = n.num], n.at + 1)
                   [] s[p] \in Digits ->
                        LET t == _be_decode_str(s, p)
                        IN  Return([Node("str") EXCEPT !.str = t.node.str], t.at)
                   [] OTHER -> Return(NULL, p)
  IN  decode[<<"node", 1>>]

\* A reader of a container stops at the first entry without a value (be_free,
\* parsetorrentfile and get_tracker_data).
Readable(items) ==
  LET stop == {j \in DOMAIN items : items[j].val = NULL}
  IN  IF stop = {} THEN items ELSE SubSeq(items, 1, Min(stop) - 1)
=============================================================================
