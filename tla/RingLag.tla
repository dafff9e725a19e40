------------------------------ MODULE RingLag ------------------------------
(***************************************************************************)
(* A packet ring whose flags may be read late.  The top level declares     *)
(* DEPENDENCE variable = valid inter false for both rings: the scheduler   *)
(* may overlap successive calls as if none read a flag that an earlier     *)
(* call wrote, so a read may return a value that is a few calls old.       *)
(* Within a call, and for the indices, which the pragma does not name,     *)
(* reads are exact.  In every call the producer of the ring comes first:   *)
(* receiver before handler, handler before framer.                         *)
(***************************************************************************)
EXTENDS PacketQueue, Sequences

CONSTANTS
  Lag,          \* how many calls a flag's new value may take to be seen
  FrameCycles,  \* fewest calls from the claim of a slot to its publication
  Packet        \* what is told apart of packets

ASSUME LagAssumption == Lag \in Nat /\ FrameCycles \in Nat

VARIABLES
  queue,
  past,     \* the flags at the end of each of the last Lag + 1 calls, latest first
  turn,     \* whose part of the call is next
  frame,    \* under way at the producer: packet, calls since its claim up to
            \* FrameCycles, whether its slot was found free
  holding   \* the consumer has begun to use the packet at read_idx

vars == << queue, past, turn, frame, holding >>

NoPacket == "none"

NoFrame == [packet |-> NoPacket, cycles |-> 0, admitted |-> FALSE]

Init ==
  /\ queue = EmptyQueue(NoPacket, 0)
  /\ past = [k \in 1 .. Lag + 1 |-> queue.valid]
  /\ turn = "producer"
  /\ frame = NoFrame
  /\ holding = FALSE

\* What a read of the flag of slot s may return: exact if this call wrote it.
MayRead(s) ==
  IF queue.valid[s] # past[1][s] THEN { queue.valid[s] }
                                 ELSE { past[k][s] : k \in DOMAIN past }

----------------------------------------------------------------------------
(* The producer's part of a call.                                          *)

\* Seeded fault: the flag is not looked at when the frame begins.
Claim_Unchecked ==
  \E packet \in Packet :
    /\ frame = NoFrame
    /\ frame' = [packet |-> packet, cycles |-> 1, admitted |-> TRUE]
    /\ UNCHANGED queue

Claim ==
  \E packet \in Packet, occupied \in MayRead(queue.write_idx) :
    /\ frame = NoFrame
    /\ frame' = [packet |-> packet, cycles |-> 1, admitted |-> ~occupied]
    /\ queue' = IF occupied THEN packet_queue_drop_write(queue) ELSE queue

Carry ==
  /\ frame # NoFrame
  /\ frame.cycles < FrameCycles
  /\ frame' = [frame EXCEPT !.cycles = @ + 1]
  /\ UNCHANGED queue

\* packet_queue_publish_write_slot acts on the flag it reads, not on the flag
\* that is there.
Publish ==
  \E occupied \in MayRead(queue.write_idx) :
    /\ frame # NoFrame
    /\ frame.cycles = FrameCycles
    /\ frame' = NoFrame
    /\ queue' =
         IF ~frame.admitted THEN queue
         ELSE IF occupied THEN packet_queue_drop_write(queue)
         ELSE packet_queue_publish_write_slot(
                [queue EXCEPT !.valid[queue.write_idx] = FALSE], frame.packet)

Pause == frame = NoFrame /\ UNCHANGED << queue, frame >>

Produce ==
  /\ turn = "producer"
  /\ turn' = "consumer"
  /\ Claim \/ Carry \/ Publish \/ Pause
  /\ UNCHANGED << past, holding >>

----------------------------------------------------------------------------
(* The consumer's part.  The handler frees an uninteresting packet in the  *)
(* call that finds it; other packets are held for a while and then freed   *)
(* without another look at the flag.                                       *)

Discard ==
  /\ ~holding
  /\ TRUE \in MayRead(queue.read_idx)
  /\ queue' = packet_queue_consume_read_slot(queue)
  /\ UNCHANGED holding

Hold ==
  /\ ~holding
  /\ TRUE \in MayRead(queue.read_idx)
  /\ holding' = TRUE
  /\ UNCHANGED queue

Release ==
  /\ holding
  /\ holding' = FALSE
  /\ queue' = packet_queue_consume_read_slot(queue)

Wait == UNCHANGED << queue, holding >>

Consume ==
  /\ turn = "consumer"
  /\ turn' = "producer"
  /\ Discard \/ Hold \/ Release \/ Wait
  /\ past' = [k \in DOMAIN past |-> IF k = 1 THEN queue'.valid ELSE past[k - 1]]
  /\ UNCHANGED frame

Next == Produce \/ Consume

Spec == Init /\ [][Next]_vars

----------------------------------------------------------------------------
(* Properties. *)

PublishedPackets ==
  LET slots == PublishedSlots(queue)
  IN  [k \in DOMAIN slots |-> queue.meta[slots[k]]]

\* With Lag < Slots a late flag errs on the safe side only: the ring is still
\* a bounded FIFO, so no packet is used that is not there, none is used twice
\* and none is overwritten (endpoint pragmas at lines 33 and 39).
Fifo == INSTANCE PacketFifo WITH Capacity <- Slots, fifo <- PublishedPackets

LateRingIsFifo == Fifo!Spec

\* With Lag <= FrameCycles a frame whose slot was found free at its start is
\* published at its end: the second look at the flag, in
\* packet_queue_publish_write_slot, can not lose a frame that was admitted.
AdmittedIsPublished ==
  [][frame.admitted /\ frame' = NoFrame => Depth(queue') = Depth(queue) + 1]_vars
=============================================================================
