--------------------------- MODULE EthernetTxWire ---------------------------
(***************************************************************************)
(* The transmit path with a producer that publishes whole packets and with *)
(* a host on the wire.  The host collects nibbles while eth_tx_en is high  *)
(* (as collect_tx_frame of the test bench does) and measures the gaps.     *)
(***************************************************************************)
EXTENDS EthernetTx, Sequences

CONSTANT Bodies   \* the frame bodies published, as sequences of bytes

\* They fit in a slot, as the handler's do (ethernet_tx_payloads.h).
ASSUME WireBodiesAssumption ==
  \A body \in Bodies :
    /\ body \in Seq(Byte)
    /\ Len(body) \in BodyLen /\ Len(body) <= TX_FRAME_BODY_BYTES

\* 24 in the code.
ASSUME WireGapAssumption == IFG_NIBBLES > 1

VARIABLE host     \* nibbles of the frame under way, length of the gap before
                  \* it (up to IFG_NIBBLES), frames received modulo 2, and:
                  \* the packet at read_idx has been received in full

wireVars == << txVars, host >>

WireInit ==
  /\ Init
  /\ host = [nibbles |-> << >>, gap |-> IFG_NIBBLES, odd |-> FALSE, received |-> FALSE]

\* One cycle of the transmit path; the host samples the pins.
Clock ==
  /\ ethernet_tx_queue_step
  /\ LET ends  == host.nibbles # << >> /\ pins'.en = 0
         freed == tx_queue'.valid # tx_queue.valid
         gap   == IF pins'.en = 1 THEN 0
                  ELSE IF host.gap = IFG_NIBBLES THEN host.gap ELSE host.gap + 1
     IN  host' = [nibbles  |-> IF pins'.en = 1 THEN Append(host.nibbles, pins'.d)
                                               ELSE << >>,
                  gap      |-> gap,
                  odd      |-> IF ends THEN ~host.odd ELSE host.odd,
                  received |-> (host.received \/ ends) /\ ~freed]

\* The handler stores a body from index 0 on and publishes its length; what
\* an earlier packet left beyond it stays in the slot.
Publish(body) ==
  LET w == tx_queue.write_idx
      filled == [tx_queue EXCEPT !.bytes[w] =
                   [i \in BodyIndex |-> IF i < Len(body) THEN body[i + 1] ELSE @[i]]]
  IN
  /\ TQ!packet_queue_write_slot_available(tx_queue)
  /\ tx_queue' = TQ!packet_queue_publish_write_slot(filled, Len(body))
  /\ UNCHANGED << framer_active, framer_slot_idx, framer, pins, host >>

WireNext ==
  \/ Clock
  \/ \E body \in Bodies : Publish(body)

WireSafety == WireInit /\ [][WireNext]_wireVars

----------------------------------------------------------------------------
(* The reference: the frame a host must see for a packet. *)

Format == INSTANCE WireFormat WITH PreambleBytes <- SfdIndex

\* The body a slot of the ring holds.
SlotBody(q, s) == [i \in 1 .. q.meta[s] |-> q.bytes[s][i - 1]]

----------------------------------------------------------------------------
(* Properties. *)

\* Every frame the host sees is, complete and once only, the packet at the
\* head of the ring: preamble, SFD, body padded to the minimum with zeros
\* (never with an earlier packet's bytes), FCS.
FrameIsTheHeadPacket ==
  [][host.nibbles # << >> /\ host'.nibbles = << >> =>
       /\ ~host.received
       /\ tx_queue.valid[tx_queue.read_idx]
       /\ host.nibbles = Format!NibblesOf(Format!WireFrame(
                            SlotBody(tx_queue, tx_queue.read_idx)))]_wireVars

\* A packet leaves the ring only after the host has received it.
FreedOnlyWhenReceived ==
  [][tx_queue'.read_idx # tx_queue.read_idx => host.received]_wireVars

\* Frames are at least the inter-frame gap apart (IFG_NIBBLES,
\* ethernet_framer.h:177-188), also when the ring holds the next packet.
GapIsKept ==
  [][host.nibbles = << >> /\ host'.nibbles # << >> => host.gap = IFG_NIBBLES]_wireVars

\* tx_frame_toggle, from which the status logic sees frames, flips once per
\* frame: between frames it is the parity of the frames received.
ToggleCountsFrames == pins.en = 0 /\ host.nibbles = << >> => pins.toggle = host.odd

\* It flips in the cycle that completes the frame of the head of the ring and
\* in no other (ethernet_framer.h:164-167, 195), so that two flips are as far
\* apart as two frames with their gap, and none is undone within a frame.
ToggleFlipsWithFrame ==
  [][pins'.toggle # pins.toggle <=>
       /\ host'.nibbles # host.nibbles
       /\ host'.nibbles = Format!NibblesOf(Format!WireFrame(
                             SlotBody(tx_queue, tx_queue.read_idx)))]_wireVars

\* The ring as seen by the producer is a bounded FIFO.
PublishedBodies ==
  LET slots == TQ!PublishedSlots(tx_queue)
  IN  [k \in DOMAIN slots |-> SlotBody(tx_queue, slots[k])]

Fifo == INSTANCE PacketFifo WITH Capacity <- TxSlots, fifo <- PublishedBodies

TxRingIsFifo == Fifo!Spec
=============================================================================
