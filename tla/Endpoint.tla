------------------------------ MODULE Endpoint ------------------------------
(***************************************************************************)
(* ethernet_l2_endpoint_hls: in every cycle the receive step, the handler  *)
(* step and the transmit step, in this order, over the two rings.  The     *)
(* handler is extended; the two paths are instances that share its rings.  *)
(* On the wire sits a station that sends frames as send_rx_frame of the    *)
(* test bench does, with pauses between them, and collects what comes back *)
(* as collect_tx_frame does, both at the same time.                        *)
(***************************************************************************)
EXTENDS ProtocolHandler

CONSTANTS
  FcsBytes, PreambleCountMax, ByteIndexMod,      \* of EthernetRx
  MaxBodyLen, MIN_ETH_FRAME_BODY_BYTES, SfdIndex, IFG_NIBBLES,  \* of EthernetTx
  Frames,       \* byte sequences the station may send
  FirstPauses,  \* idle cycles before its first frame
  Pauses,       \* idle cycles it may add to the one after each frame
  MaxFrames     \* bound on how many frames it sends

VARIABLES
  assembler, parser, rx_drop_current,                  \* of the receive step
  framer_active, framer_slot_idx, framer, pins,        \* of the transmit step
  turn,      \* the step of the call that is next
  sender,    \* of the station: frame, nibbles sent, idle cycles to come,
             \* frames begun, frames ended modulo CounterMod
  collector  \* of the station: bytes so far, low nibble held, last frame,
             \* and the last frame's slot has not been freed yet

receiveVars == << assembler, parser, rx_drop_current >>
transmitVars == << framer_active, framer_slot_idx, framer, pins >>
vars == << protoVars, receiveVars, transmitVars, turn, sender, collector >>

Sending == sender.frame # << >>

\* The station as a PHY of EthernetRxWire that raises no error and never stops
\* in the middle of a frame.
Wire ==
  IF Sending
    THEN [frame |-> sender.frame, nibbles |-> sender.nibbles, errored |-> FALSE,
          admitted |-> ~rx_drop_current]
    ELSE [frame |-> << >>, nibbles |-> 0, errored |-> FALSE, admitted |-> FALSE]

Rx == INSTANCE EthernetRxWire WITH wire <- Wire
Tx == INSTANCE EthernetTx
Format == INSTANCE WireFormat WITH PreambleBytes <- SfdIndex

\* The two rings, and buffers and counters of some size.
ASSUME PathAssumption ==
  /\ MAX_ETH_PAYLOAD_BYTES \in Nat \ {0}
  /\ FcsBytes \in Nat \ {0}
  /\ PreambleCountMax \in Nat \ {0}
  /\ ByteIndexMod \in Nat
  /\ ByteIndexMod > ETH_HEADER_BYTES + FcsBytes + MAX_ETH_PAYLOAD_BYTES

\* What the station sends are whole Ethernet frames, with header and FCS and
\* not so long that the byte index wraps.
ASSUME StationAssumption ==
  /\ Frames \subseteq Seq(Rx!Byte) \ {<< >>}
  /\ \A frame \in Frames :
       LET data == Rx!FrameData(frame)
       IN  Rx!FrameLongEnough(data) /\ Len(data) < ByteIndexMod

\* The station notices that a slot is freed by the read index, and has the
\* frame before: 4 slots and a gap of 24 nibbles in the code.
ASSUME CollectorAssumption == TxSlots > 1 /\ IFG_NIBBLES > 1

\* A slot and a frame are no longer than an 11-bit length says (1514, 60 and
\* 7 in the code), and the handler sends bytes.
ASSUME LineAssumption ==
  /\ MaxBodyLen \in Nat
  /\ TX_FRAME_BODY_BYTES \in 1 .. MaxBodyLen
  /\ MIN_ETH_FRAME_BODY_BYTES \in 1 .. MaxBodyLen
  /\ SfdIndex \in 0 .. MaxBodyLen
  /\ IFG_NIBBLES \in Nat
  /\ {FPGA_MAC, BROADCAST_MAC, FPGA_IP, ARP_ETHERTYPE, DIAGNOSTIC_BEACON_ETHERTYPE,
      ArpReplyFields} \subseteq Seq(Tx!Byte)
  /\ \A counts \in [1 .. 7 -> 0 .. CounterMod - 1] : BeaconText(counts) \in Seq(Tx!Byte)

EndpointInit ==
  /\ Rx!Init /\ Init /\ Tx!Init
  /\ turn = "receive"
  /\ \E pause \in FirstPauses :
       sender = [frame |-> << >>, nibbles |-> 0, pause |-> pause, begun |-> 0, ended |-> 0]
  /\ collector = [bytes |-> << >>, low |-> << >>, last |-> << >>, delivered |-> FALSE]

----------------------------------------------------------------------------
(* The station sends.                                                      *)

ReceiveCycle(dv, rxd) ==
  /\ turn = "receive"
  /\ turn' = "handle"
  /\ Rx!ethernet_rx_queue_step(dv, rxd, FALSE)
  /\ UNCHANGED << tx_queue, handlerVars, transmitVars, collector >>

LastNibbleSent == sender.nibbles = 2 * Len(sender.frame)

BeginFrame ==
  \E frame \in Frames :
    /\ ~Sending /\ sender.pause = 0 /\ sender.begun < MaxFrames
    /\ ReceiveCycle(TRUE, Format!NibblesOf(frame)[1])
    /\ sender' = [sender EXCEPT !.frame = frame, !.nibbles = 1, !.begun = @ + 1]

SendNibble ==
  /\ Sending /\ ~LastNibbleSent
  /\ ReceiveCycle(TRUE, Format!NibblesOf(sender.frame)[sender.nibbles + 1])
  /\ sender' = [sender EXCEPT !.nibbles = @ + 1]

EndFrame ==
  \E pause \in Pauses :
    /\ Sending /\ LastNibbleSent
    /\ ReceiveCycle(FALSE, 0)
    /\ sender' = [sender EXCEPT !.frame = << >>, !.nibbles = 0, !.pause = pause,
                                !.ended = RQ!Bump(@)]

LeaveLineIdle ==
  /\ ~Sending /\ (sender.pause > 0 \/ sender.begun = MaxFrames)
  /\ ReceiveCycle(FALSE, 0)
  /\ sender' = [sender EXCEPT !.pause = IF @ = 0 THEN 0 ELSE @ - 1]

----------------------------------------------------------------------------
(* The rest of the call.                                                   *)

HandleCycle ==
  /\ turn = "handle"
  /\ turn' = "transmit"
  /\ protocol_queue_step
  /\ UNCHANGED << receiveVars, transmitVars, sender, collector >>

\* The station pairs the nibbles it sees and takes a frame for complete when
\* eth_tx_en falls.
Collected(c, en, d) ==
  IF en = 0 THEN [c EXCEPT !.bytes = << >>, !.low = << >>,
                           !.last = IF c.bytes = << >> THEN @ ELSE c.bytes,
                           !.delivered = @ \/ c.bytes # << >>]
  ELSE IF c.low = << >> THEN [c EXCEPT !.low = << d >>]
  ELSE [c EXCEPT !.low = << >>, !.bytes = Append(@, c.low[1] + 16 * d)]

TransmitCycle ==
  /\ turn = "transmit"
  /\ turn' = "receive"
  /\ Tx!ethernet_tx_queue_step
  /\ LET freed == tx_queue'.read_idx # tx_queue.read_idx
         seen  == Collected(collector, pins'.en, pins'.d)
     IN  collector' = [seen EXCEPT !.delivered = @ /\ ~freed]
  /\ UNCHANGED << rx_queue, handlerVars, receiveVars, sender >>

Call ==
  \/ BeginFrame \/ SendNibble \/ EndFrame \/ LeaveLineIdle
  \/ HandleCycle \/ TransmitCycle

EndpointSafety == EndpointInit /\ [][Call]_vars

NextTurn == [receive |-> "handle", handle |-> "transmit", transmit |-> "receive"]

\* One call per cycle, for ever (ap_ctrl_none, PIPELINE II = 1).
EndpointSpec == EndpointSafety /\ WF_turn(turn' = NextTurn[turn])

----------------------------------------------------------------------------
(* The abstract view. *)

ReceivedPacket(s) == [meta |-> rx_queue.meta[s], bytes |-> rx_queue.bytes[s]]

Inbox ==
  LET slots == RQ!PublishedSlots(rx_queue)
  IN  [k \in DOMAIN slots |-> ReceivedPacket(slots[k])]

Asks(packet) == LooksLikeArp(packet.meta) /\ ArpRequestInfo(packet.bytes).valid

Answer(packet) == ArpReplyBody(ArpRequestInfo(packet.bytes))

RequestedBody(request) ==
  CASE request.kind = "ARP_REPLY" ->
         ArpReplyBody([sender_mac |-> request.arp_requester_mac,
                       sender_ip  |-> request.arp_requester_ip])
    [] request.kind = "GRATUITOUS_ARP" -> GratuitousArpBody
    [] request.kind = "BEACON" -> BeaconBody(request.counts)

\* Frames published and not freed, and the one that is being prepared.
Outbox ==
  LET slots == TQ!PublishedSlots(tx_queue)
  IN  [k \in DOMAIN slots |-> SlotBody(tx_queue, slots[k])]
        \o IF prepare.active THEN << RequestedBody(prepare.request) >> ELSE << >>

\* The replies the frames of the station may call for.
Replies ==
  LET long == { f \in Frames : Len(f) >= ETH_HEADER_BYTES + ARP_PAYLOAD_BYTES + FcsBytes }
      payload(f) == [i \in 0 .. ARP_PAYLOAD_BYTES - 1 |-> f[ETH_HEADER_BYTES + i + 1]]
  IN  { ArpReplyBody(ArpRequestInfo(payload(f))) : f \in long }

Bodies == Replies \union { GratuitousArpBody }

FrameOf == [body \in Bodies |-> Format!WireFrame(body)]

EthernetHeader(body) == SubSeq(body, 1, ETH_HEADER_BYTES)

\* A beacon, whatever its counts.
IsBeacon(body) ==
  /\ Len(body) = Len(BeaconBody(NoCounts))
  /\ EthernetHeader(body) = EthernetHeader(BeaconBody(NoCounts))

Periodic(body) == body = GratuitousArpBody \/ IsBeacon(body)

\* From the nibbles of a request on one pair of the wire to the nibbles of
\* its reply on the other, the endpoint does what ArpResponder promises.
Service == INSTANCE ArpResponder WITH
  InboxSize <- RxSlots, OutboxSize <- TxSlots,
  IsRequest <- Asks, Reply <- Answer, IsPeriodic <- Periodic,
  OnWire <- Format!WireFrame,
  inbox <- Inbox, outbox <- Outbox,
  received <- collector.last, delivered <- collector.delivered

----------------------------------------------------------------------------
(* Properties. *)

\* The three steps of endpoint.cpp:43-52 together answer every request they
\* take while the TX ring has room, once, in order and with the right frame
\* on the wire, and send nothing else but announcements and beacons.
AnswersRequests == Service!Spec

\* The frame received last, less preamble and what follows the body, is a beacon.
BeaconReceived ==
  LET first == SfdIndex + 2
      end   == SfdIndex + 1 + Len(BeaconBody(NoCounts))
  IN  /\ collector.delivered
      /\ Len(collector.last) >= end
      /\ IsBeacon(SubSeq(collector.last, first, end))

\* Every reply and announcement the handler has begun to prepare reaches the
\* station as the frame it is, and after a beacon is begun a beacon does, as
\* long as cycles go by and whatever the station sends meanwhile:
\* preparation, ring, framer and release of the slot never wait for one
\* another in a circle (ethernet_l2_endpoint_hls.cpp:43-52).
AcceptedFramesArrive ==
  /\ \A body \in Bodies :
       (\E k \in DOMAIN Outbox : Outbox[k] = body)
         ~> collector.delivered /\ collector.last = FrameOf[body]
  /\ (\E k \in DOMAIN Outbox : IsBeacon(Outbox[k])) ~> BeaconReceived

\* The handler is fast enough: at full line rate no frame ever finds the RX
\* ring full, although a beacon occupies the handler longer than a short
\* frame lasts, and although replies take longer to send than requests.
ReceiverNotOverrun == rx_queue.drop_count = 0

\* When it is, in terms of the cycles the shortest frame lasts.  The RX ring
\* must hold what arrives while the longest frame is prepared and the request
\* after it is parsed, and one packet more what arrives until the reply is
\* prepared too.  In the code the shortest frame lasts 37 cycles:
\* 143 + 28 <= 7 * 37 + 1, and 143 + 28 + 42 <= 8 * 37 + 1.
HoldsWhatArrives(shortest) ==
  \A kind \in {"ARP_REPLY", "BEACON"} :
    LET busy == protocol_tx_frame_body_len(kind) + ARP_PAYLOAD_BYTES
    IN  /\ busy <= (RxSlots - 1) * shortest + 1
        /\ busy + protocol_tx_frame_body_len("ARP_REPLY") <= RxSlots * shortest + 1

KeepsUp ==
  \E shortest \in { 2 * Len(frame) + 1 : frame \in Frames } :
    /\ \A frame \in Frames : 2 * Len(frame) + 1 >= shortest
    /\ HoldsWhatArrives(shortest)

\* Every frame the station has finished found the RX ring full, waits there
\* or was taken by the handler (the beacon's RXQ and RX): none vanishes on
\* the way through two steps and a ring, and none is counted twice.
FramesAccountedFor ==
  LET refused == rx_queue.drop_count - (IF rx_drop_current THEN 1 ELSE 0)
      waiting == RQ!Depth(rx_queue)
                   - (IF protocol_state = "PROTO_PARSE_ARP" THEN 1 ELSE 0)
  IN  sender.ended = (refused + waiting + counters.rx_packet) % CounterMod

\* In the whole endpoint the receive path meets nothing but what the PHY and
\* the consumer of EthernetRxWire may do: the station decides when a frame
\* begins, the handler frees only packets it has seen valid, also the one it
\* took several cycles to parse, and the transmit step leaves the RX ring
\* alone.
ReceivePathIsDriven == Rx!WireSpec
=============================================================================
