----------------------------- MODULE ByteQueue -----------------------------
(***************************************************************************)
(* What TcpBuffer promises the connection and the codecs that share it: a  *)
(* queue of bytes.  Bytes come in at the end and leave at the front, in    *)
(* the same order; making room changes nothing.                            *)
(***************************************************************************)
EXTENDS Naturals, Sequences

CONSTANT Bytes

VARIABLE queue

Init == queue = <<>>

Put == /\ Len(queue') > Len(queue)
       /\ \A i \in 1 .. Len(queue') : queue'[i] \in Bytes
       /\ SubSeq(queue', 1, Len(queue)) = queue

Take == \E n \in 1 .. Len(queue) : queue' = SubSeq(queue, n + 1, Len(queue))

Spec == Init /\ [][Put \/ Take]_queue

=============================================================================
