----------------------------- MODULE ByteStream -----------------------------
(***************************************************************************)
(* What toolpex::buffer promises its two clients: the producer's bytes     *)
(* reach the consumer once each and in order.  Bytes are numbered from 1   *)
(* in the order in which they are written.                                 *)
(***************************************************************************)
EXTENDS Naturals, Sequences

VARIABLES
    written,    \* how many bytes the producer has committed
    received    \* the bytes the consumer has committed as read, in order

Init == written = 0 /\ received = <<>>

Write == written' > written /\ UNCHANGED received

Take(n) == /\ Len(received) + n <= written
           /\ received' = [i \in 1 .. Len(received) + n |-> i]
           /\ UNCHANGED written

\* The consumer starts again from the first byte.
Rewind == received' = <<>> /\ UNCHANGED written

\* The buffer is replaced by a fresh one.
Restart == written' = 0 /\ received' = <<>>

Next == \/ Write
        \/ \E n \in 0 .. written : Take(n)
        \/ Rewind
        \/ Restart

Spec == Init /\ [][Next]_<<written, received>>
=============================================================================
