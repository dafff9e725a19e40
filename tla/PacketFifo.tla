----------------------------- MODULE PacketFifo -----------------------------
(***************************************************************************)
(* What a packet ring promises its two users: a bounded queue that keeps   *)
(* packets in order and does not alter one between publication and         *)
(* consumption.  Which packet is published is the producer's business.     *)
(***************************************************************************)
EXTENDS Naturals, Sequences

CONSTANT Capacity    \* the number of slots

VARIABLE fifo        \* the published packets, oldest first

Init == fifo = << >>

Enqueue ==
  /\ Len(fifo) < Capacity
  /\ Len(fifo') = Len(fifo) + 1
  /\ SubSeq(fifo', 1, Len(fifo)) = fifo

Dequeue == fifo # << >> /\ fifo' = Tail(fifo)

Next == Enqueue \/ Dequeue

Spec == Init /\ [][Next]_fifo
=============================================================================
