------------------------------- MODULE Tracker -------------------------------
(***************************************************************************)
(* What a SimpleTorrent client takes from its .torrent file                *)
(* (parsetorrentfile.c) and exchanges with the tracker                     *)
(* (make_tracker_request.c, process_tracker_response.c).  Keys of          *)
(* dictionaries are names; bytes are numbers.                              *)
(***************************************************************************)
EXTENDS Integers, Sequences, SequencesExt, FiniteSetsExt

\* A field that has not been written, an event that is not given.
Unset == -1

\* strncmp(key, name, strlen(name)) = 0: also keys that only begin with the name.
Longer == {<<"announce-list", "announce">>, <<"name.utf-8", "name">>, <<"peers6", "peers">>}
Matches(key, name) == key = name \/ <<key, name>> \in Longer

Entry(key, val) == [key |-> key, val |-> val]

----------------------------------------------------------------------------
(* The .torrent file *)

NoMeta == [announce |-> Unset, length |-> Unset, name |-> Unset, piece_len |-> Unset,
           num_pieces |-> Unset, filled |-> 0]

\* One key of the info dictionary; several names may match it.
FillInfo(meta, e) ==
  LET set(m, name, field) ==
        IF Matches(e.key, name) THEN [m EXCEPT ![field] = e.val, !.filled = @ + 1] ELSE m
      plain == set(set(set(meta, "length", "length"), "name", "name"),
                   "piece length", "piece_len")
  IN  IF ~Matches(e.key, "pieces") THEN plain
      ELSE [plain EXCEPT !.filled = @ + 1,
              !.num_pieces = (plain.length \div plain.piece_len)
                             + (IF plain.length % plain.piece_len # 0 THEN 1 ELSE 0)]

\* One key of the file; the value of "info" is a sequence of entries.
Fill(meta, e) ==
  LET m == IF Matches(e.key, "announce") /\ meta.announce = Unset
           THEN [meta EXCEPT !.announce = e.val, !.filled = @ + 1] ELSE meta
  IN  IF Matches(e.key, "info") THEN FoldLeft(FillInfo, m, e.val) ELSE m

\* NoMeta for NULL: fewer than five fields have been filled.
parsetorrentfile(entries) ==
  LET meta == FoldLeft(Fill, NoMeta, entries)
  IN  IF meta.filled < 5 THEN NoMeta ELSE meta

\* The last piece is what the others leave.
PieceLen(meta, i) ==
  IF i = meta.num_pieces - 1 THEN meta.length - (meta.num_pieces - 1) * meta.piece_len
  ELSE meta.piece_len

----------------------------------------------------------------------------
(* The request *)

\* A byte of the hash goes into the URL as it is or as % and two digits; 'A'
\* (65) is spelt out.
Spelt(b) ==
  IF b \in 48 .. 57 \/ b \in 66 .. 90 \/ b \in 97 .. 122 THEN <<b>>
  ELSE LET hex(n) == IF n < 10 THEN 48 + n ELSE 55 + n
       IN  <<37, hex(b \div 16), hex(b % 16)>>

\* Unset for event: the parameter is left out.
make_tracker_request(event, hash, id, port, uploaded, downloaded, left) ==
  [info_hash |-> FlattenSeq([i \in DOMAIN hash |-> Spelt(hash[i])]), peer_id |-> id,
   port |-> port, uploaded |-> uploaded, downloaded |-> downloaded, left |-> left,
   event |-> IF event = Unset THEN {} ELSE {event}]

----------------------------------------------------------------------------
(* The response *)

\* The bytes of the body up to the first zero byte behind an 'e' (101), or all
\* that Content-Length promises.
Body(bytes, datasize) ==
  LET ends == {i \in 2 .. datasize : bytes[i] = 0 /\ bytes[i - 1] = 101}
  IN  SubSeq(bytes, 1, IF ends = {} THEN datasize ELSE Min(ends) - 1)

\* strlen of a string that may hold zero bytes.
StrLen(str) == Min({i \in 0 .. Len(str) : i = Len(str) \/ str[i + 1] = 0})

\* get_peers: six bytes for each peer, as far as strlen sees them.
Peer(str, i) == [ip |-> SubSeq(str, 6 * i - 5, 6 * i - 2),
                 port |-> 256 * str[6 * i - 1] + str[6 * i]]
get_peers(str) == [i \in 1 .. StrLen(str) \div 6 |-> Peer(str, i)]

\* get_tracker_data: "exit" when the tracker reports a failure.
get_tracker_data(entries) ==
  LET take(td, e) ==
        IF td.failed \/ Matches(e.key, "failure reason") THEN [td EXCEPT !.failed = TRUE]
        ELSE [td EXCEPT !.interval = IF Matches(e.key, "interval") THEN e.val ELSE @,
                        !.peers = IF Matches(e.key, "peers") THEN get_peers(e.val) ELSE @]
  IN  FoldLeft(take, [failed |-> FALSE, interval |-> Unset, peers |-> <<>>], entries)
=============================================================================
