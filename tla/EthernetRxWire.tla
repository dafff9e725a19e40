--------------------------- MODULE EthernetRxWire ---------------------------
(***************************************************************************)
(* The receive path with the PHY that drives it.  The PHY presents frames  *)
(* of Frames nibble by nibble, low nibble first (as send_rx_frame of the   *)
(* test bench does), may drop eth_rx_dv after any nibble, so that every    *)
(* prefix of a frame occurs, also with an odd number of nibbles, and may   *)
(* raise eth_rxerr on any cycle.  wire records what it has presented since *)
(* eth_rx_dv rose; the properties compare it with what the ring receives.  *)
(***************************************************************************)
EXTENDS EthernetRx

CONSTANT Frames   \* byte sequences the PHY may present

ASSUME WireFramesAssumption == Frames \subseteq Seq(Byte) \ {<< >>}

\* The byte index does not wrap before the payload is full: 2^16 > 14 + 4 + 1500.
ASSUME WireIndexAssumption ==
  ByteIndexMod > ETH_HEADER_BYTES + FcsBytes + MAX_ETH_PAYLOAD_BYTES

VARIABLE wire     \* frame, nibbles sent of it, any error since it began,
                  \* some slot of the ring was free as it began

NibbleAt(frame, n) ==
  LET byte == frame[n \div 2 + 1] IN
  IF n % 2 = 0 THEN byte % 16 ELSE byte \div 16

NoFrame == [frame |-> << >>, nibbles |-> 0, errored |-> FALSE, admitted |-> FALSE]

WireInit ==
  /\ Init
  /\ wire = NoFrame

PhyStart(err) ==
  \E f \in Frames :
    /\ ~assembler.in_frame
    /\ ethernet_rx_queue_step(TRUE, NibbleAt(f, 0), err)
    /\ wire' = [frame |-> f, nibbles |-> 1, errored |-> err,
                admitted |-> \E s \in RQ!Slot : ~rx_queue.valid[s]]

PhyNibble(err) ==
  /\ assembler.in_frame
  /\ wire.nibbles < 2 * Len(wire.frame)
  /\ ethernet_rx_queue_step(TRUE, NibbleAt(wire.frame, wire.nibbles), err)
  /\ wire' = [wire EXCEPT !.nibbles = @ + 1, !.errored = @ \/ err]

PhyStop(err) ==
  /\ assembler.in_frame
  /\ ethernet_rx_queue_step(FALSE, 0, err)
  /\ wire' = [NoFrame EXCEPT !.errored = wire.errored \/ err]

PhyIdle(err) ==
  /\ ~assembler.in_frame
  /\ ethernet_rx_queue_step(FALSE, 0, err)
  /\ wire' = NoFrame

Consume == ConsumePacket /\ UNCHANGED wire

WireNext ==
  \/ \E err \in BOOLEAN : PhyStart(err) \/ PhyNibble(err) \/ PhyStop(err) \/ PhyIdle(err)
  \/ Consume

wireVars == << vars, wire >>

WireSpec == WireInit /\ [][WireNext]_wireVars

----------------------------------------------------------------------------
(* The reference: what a frame means, stated on the whole byte sequence.   *)

WireBytes(frame, nibbles) == SubSeq(frame, 1, nibbles \div 2)

\* What follows the longest run of 0x55, and the 0xd5 right after the run if
\* the run is not empty.
FrameData(bytes) ==
  LET run == CHOOSE k \in 0 .. Len(bytes) :
               /\ \A i \in 1 .. k : bytes[i] = 85
               /\ k < Len(bytes) => bytes[k + 1] # 85
      sfd == run > 0 /\ run < Len(bytes) /\ bytes[run + 1] = 213
  IN  SubSeq(bytes, IF sfd THEN run + 2 ELSE run + 1, Len(bytes))

FrameLongEnough(data) == Len(data) >= ETH_HEADER_BYTES + FcsBytes

\* Header and payload between the header and the FCS, as the ring has them.
FramePacket(data) ==
  [header |-> [i \in HeaderIndex |-> data[i + 1]],
   payload |-> SubSeq(data, ETH_HEADER_BYTES + 1, Len(data) - FcsBytes)]

Oversized(data) ==
  Len(data) - ETH_HEADER_BYTES - FcsBytes > MAX_ETH_PAYLOAD_BYTES

\* The packet a slot of the ring holds.
SlotPacket(q, s) ==
  [header |-> q.meta[s].header,
   payload |-> [i \in 1 .. q.meta[s].payload_len |-> q.bytes[s][i - 1]]]

Publishes ==
  LET w == rx_queue.write_idx IN ~rx_queue.valid[w] /\ rx_queue'.valid[w]

----------------------------------------------------------------------------
(* Properties. *)

\* A frame is published if and only if some slot was free as it began, no
\* eth_rxerr occurred from its first cycle to the one where eth_rx_dv fell,
\* and it has a header and an FCS (ethernet_rx.h:161-163).  Frames so long
\* that the 16-bit byte index wraps are left out of the "if".
PublishedIffClean ==
  [][assembler.in_frame /\ ~assembler'.in_frame =>
      LET data  == FrameData(WireBytes(wire.frame, wire.nibbles))
          clean == wire.admitted /\ ~wire'.errored /\ FrameLongEnough(data)
      IN  /\ Publishes => clean
          /\ clean /\ Len(data) < ByteIndexMod => Publishes]_wireVars

\* The packet published is the frame on the wire: preamble, SFD and FCS
\* stripped, nibbles paired in order, header and payload split where
\* ethernet_rx.h:104-157 splits them; truncated is set exactly when the
\* payload did not fit.  Holds also for frames that wrap the byte index.
PublishedIsTheFrame ==
  [][Publishes =>
      LET data == FrameData(WireBytes(wire.frame, wire.nibbles))
          w    == rx_queue.write_idx
          meta == rx_queue'.meta[w]
      IN  /\ meta.truncated <=> Oversized(data)
          /\ ~meta.truncated => SlotPacket(rx_queue', w) = FramePacket(data)]_wireVars

\* The ring as seen by the handler is a bounded FIFO: packets come out in
\* the order of the wire and no byte of a published packet changes while
\* later frames are being received.
PublishedPackets ==
  LET slots == RQ!PublishedSlots(rx_queue)
  IN  [k \in DOMAIN slots |->
         << SlotPacket(rx_queue, slots[k]), rx_queue.meta[slots[k]].truncated >>]

Fifo == INSTANCE PacketFifo WITH Capacity <- RxSlots, fifo <- PublishedPackets

RingIsFifo == Fifo!Spec
=============================================================================
