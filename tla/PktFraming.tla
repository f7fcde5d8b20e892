----------------------------- MODULE PktFraming -----------------------------
(***************************************************************************)
(* How packets travel on the TCP connections of the overlay (lab11         *)
(* common/pkt.c): the delimiters !& and !# around the bytes of a structure *)
(* whose size is fixed, and the automaton that finds the structure again.  *)
(* The three receiving functions run the same automaton over buffers of    *)
(* different sizes.                                                        *)
(***************************************************************************)
EXTENDS Integers, Sequences

\* Characters, as numbers: '!' is 33, '&' is 38, '#' is 35.
Opening == <<33, 38>>
Closing == <<33, 35>>

\* The three send calls that put one structure on a connection.
FrameOf(body) == <<Opening, body, Closing>>

\* What they put there together.
Framed(body) == Opening \o body \o Closing

\* A receiver at the start of a call: nothing stored in a buffer of zeros, and
\* the bytes that have arrived and are not read yet.
Receiver == [st |-> "PKTSTART1", buf |-> <<>>, rest |-> <<>>]

\* strlen of a buffer that is zero behind what has been stored.
Strlen(buf) ==
  LET zeros == {j \in DOMAIN buf : buf[j] = 0}
  IN  IF zeros = {} THEN Len(buf) ELSE (CHOOSE j \in zeros : \A k \in zeros : j <= k) - 1

\* Stores bytes behind the last one.  In PKTSTOP1 the code does not compare with
\* the size: a byte behind the end of the buffer leaves the receiver undefined.
Store(r, bytes, size, st) ==
  [r EXCEPT !.buf = @ \o bytes,
            !.st = IF Len(r.buf) + Len(bytes) > size THEN "smashed" ELSE st]

\* One character c in PKTSTART1, PKTSTART2, PKTRECV and PKTSTOP1.
Step(r, c, size) ==
  CASE r.st = "PKTSTART1" -> [r EXCEPT !.st = IF c = 33 THEN "PKTSTART2" ELSE @]
    [] r.st = "PKTSTART2" -> [r EXCEPT !.st = IF c = 38 THEN "PKTRECV" ELSE "PKTSTART1"]
    [] r.st = "PKTRECV" /\ c = 33 -> [r EXCEPT !.st = "PKTSTOP1"]
    [] r.st = "PKTRECV" /\ c # 33 -> IF Len(r.buf) < size THEN Store(r, <<c>>, size, "PKTRECV")
                                     ELSE r
    [] r.st = "PKTSTOP1" /\ c = 35 -> [r EXCEPT !.st = "done"]
    [] r.st = "PKTSTOP1" /\ c = 33 -> Store(r, <<33>>, size, "PKTSTOP1")
    [] OTHER -> IF Strlen(r.buf) + 1 < size THEN Store(r, <<33, c>>, size, "PKTRECV") ELSE r

\* The receivers that reading bytes can lead to (there is one): characters are
\* read up to the end of a structure, the others are left.
Reads(r, bytes, size) ==
  LET next(q, c) == IF q.st \in {"done", "smashed"} THEN [q EXCEPT !.rest = Append(@, c)]
                    ELSE Step(q, c, size)
      after[i \in 0 .. Len(bytes)] ==
        IF i = 0 THEN {r} ELSE {next(q, bytes[i]) : q \in after[i - 1]}
  IN  after[Len(bytes)]

\* The structure: the buffer, zero behind what has been stored.
Structure(r, size) == [j \in 1 .. size |-> IF j <= Len(r.buf) THEN r.buf[j] ELSE 0]

=============================================================================
