--------------------------- MODULE ReliableStream ---------------------------
(***************************************************************************)
(* What an STCP connection promises its users for one direction: the       *)
(* segments the sending program has handed over arrive in the receiving    *)
(* program's buffer in the order they were handed over, none missing and   *)
(* none twice.  Segments are numbered in the order of the send calls.      *)
(***************************************************************************)
EXTENDS Naturals, Sequences

VARIABLES
    accepted,       \* how many segments the sender has handed over
    received        \* the numbers of the segments that arrived, in order

vars == <<accepted, received>>

Init == accepted = 0 /\ received = <<>>

Accept ==
    /\ accepted' = accepted + 1
    /\ UNCHANGED received

Deliver ==
    /\ Len(received) < accepted
    /\ received' = Append(received, Len(received) + 1)
    /\ UNCHANGED accepted

Next == Accept \/ Deliver

Spec == Init /\ [][Next]_vars
=============================================================================
