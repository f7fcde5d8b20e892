------------------------------ MODULE Segments ------------------------------
(***************************************************************************)
(* Segments between STCP and SIP, and their checksum (lab11 common/seg.c). *)
(* The frame is that of PktFraming; the automaton that looks for it        *)
(* differs in one transition.                                              *)
(*                                                                         *)
(* A segment is a sequence of bytes: HeaderLen bytes of header, in which   *)
(* the length of the data and the checksum take two bytes each, the data,  *)
(* and whatever lies behind them in the structure.                         *)
(***************************************************************************)
EXTENDS PktFraming, SequencesExt

CONSTANTS ByteSize,    \* values of a byte: 256
          HeaderLen,   \* sizeof(stcp_hdr_t): 24, its last field is the checksum
          LengthAt     \* index of the first byte of the length field

ASSUME SegmentAssumption ==
  /\ ByteSize \in Nat \ {0, 1}
  /\ HeaderLen \in Nat /\ HeaderLen % 2 = 0
  /\ LengthAt \in 1 .. HeaderLen - 3 /\ LengthAt % 2 = 1

----------------------------------------------------------------------------
(* sip_sendseg, forwardsegToSTCP; sip_recvseg, getsegToSend *)

\* The structure is sent whole, although only header and data are copied into it:
\* behind them is whatever was on the stack.
SegFrame(nodeID, seg, stack) == FlattenSeq(FrameOf(<<nodeID>> \o seg \o stack))

\* A second ! in front of the & is let pass.
SegStep(r, c, size) ==
  IF r.st = "PKTSTART2" /\ c = 33 THEN r ELSE Step(r, c, size)

\* The receiver after the bytes of a stream; what follows the structure stays.
SegReads(bytes, size) ==
  FoldLeft(LAMBDA r, c : IF r.st \in {"done", "smashed"} THEN [r EXCEPT !.rest = Append(@, c)]
                         ELSE SegStep(r, c, size),
           Receiver, bytes)

----------------------------------------------------------------------------
(* checksum, checkchecksum, seglost *)

WordSize == ByteSize * ByteSize
Word(seg, at) == seg[at] + ByteSize * seg[at + 1]
DataLen(seg) == Word(seg, LengthAt)

\* The words of header and data; a last odd byte counts as the high byte.
WordSum(seg) ==
  LET size == HeaderLen + DataLen(seg)
      at(k) == IF 2 * k <= size THEN Word(seg, 2 * k - 1) ELSE ByteSize * seg[2 * k - 1]
  IN  FoldLeft(LAMBDA sum, k : sum + at(k), 0, [k \in 1 .. (size + 1) \div 2 |-> k])

\* The carries are added until there is none left.
Folded(sum) ==
  LET f[x \in 0 .. sum] == IF x < WordSize THEN x ELSE f[(x % WordSize) + (x \div WordSize)]
  IN  f[sum]

checksum(seg) == WordSize - 1 - Folded(WordSum(seg))

\* What a sender does: the field is cleared, computed and filled in.
Checked(seg) ==
  LET cleared == [seg EXCEPT ![HeaderLen - 1] = 0, ![HeaderLen] = 0]
      sum == checksum(cleared)
  IN  [cleared EXCEPT ![HeaderLen - 1] = sum % ByteSize, ![HeaderLen] = sum \div ByteSize]

checkchecksum(seg) == checksum(seg) = 0

\* One bit of a byte the other way round.
Flipped(byte, weight) == IF (byte \div weight) % 2 = 0 THEN byte + weight ELSE byte - weight

\* The segments seglost may leave: none when it is lost, one bit of header and
\* data flipped, or the segment as it is.
seglost(seg, weights) ==
  {<<>>, seg} \cup
  {[seg EXCEPT ![k] = Flipped(@, x)] : k \in 1 .. HeaderLen + DataLen(seg), x \in weights}

=============================================================================
