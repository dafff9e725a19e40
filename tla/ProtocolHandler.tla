-------------------------- MODULE ProtocolHandler --------------------------
(***************************************************************************)
(* protocol_queue_step: once per clock it advances the two periodic        *)
(* timers, then either looks at the oldest received packet, or parses one  *)
(* byte of an ARP packet, or starts a periodic transmission, and then, if  *)
(* a frame is being prepared, stores one byte of it into the TX ring.      *)
(***************************************************************************)
EXTENDS ProtocolFrames

CONSTANTS
  RxSlots, TxSlots,             \* 8, 4
  CounterMod,                   \* 2^32
  MAX_ETH_PAYLOAD_BYTES,        \* 1500
  TX_FRAME_BODY_BYTES,          \* 1514
  BEACON_INTERVAL_CYCLES,       \* 25,000,000: one second
  GRATUITOUS_ARP_INTERVAL_CYCLES \* 125,000,000: five seconds

ASSUME HandlerAssumption ==
  /\ RxSlots \in Nat \ {0} /\ TxSlots \in Nat \ {0}
  /\ CounterMod \in Nat \ {0}

\* A beacon is as long whatever it counts, and a slot of the TX ring holds
\* the longest frame.
ASSUME BodiesAssumption ==
  /\ \A counts \in [1 .. 7 -> 0 .. CounterMod - 1] :
       /\ BeaconText(counts) \in Seq(Nat)
       /\ Len(BeaconText(counts)) = Len(BeaconText(NoCounts))
  /\ TX_FRAME_BODY_BYTES \in Nat
  /\ ETH_HEADER_BYTES + ARP_PAYLOAD_BYTES <= TX_FRAME_BODY_BYTES
  /\ ETH_HEADER_BYTES + Len(BeaconText(NoCounts)) <= TX_FRAME_BODY_BYTES

VARIABLES
  rx_queue, tx_queue,  \* shared with the receive and the transmit path
  protocol_state,
  parse,               \* parse_rx_idx, parse_index and the ARP bytes kept
  prepare,             \* preparing_payload, prepare_request, _index, _tx_idx
  counters,            \* the counts the handler keeps
  timers               \* beacon_count, gratuitous_arp_count

handlerVars == << protocol_state, parse, prepare, counters, timers >>
protoVars == << rx_queue, tx_queue, handlerVars >>

RQ == INSTANCE PacketQueue WITH Slots <- RxSlots
TQ == INSTANCE PacketQueue WITH Slots <- TxSlots

----------------------------------------------------------------------------
(* Starting a transmission. *)

\* A snapshot of all counts; the beacon does not count itself yet.
BeaconRequest ==
  [protocol_tx_beacon_request EXCEPT
     !.counts = << counters.rx_packet, rx_queue.drop_count,
                   counters.rx_protocol_drop, tx_queue.drop_count,
                   counters.arp_reply, 0, counters.uptime_beacon >>]

\* Seeded fault: the flag is not looked at.
start_protocol_tx_request_Unchecked(request) ==
  [prepare |-> [active |-> TRUE, request |-> request, index |-> 0,
                tx_idx |-> tx_queue.write_idx],
   queue |-> tx_queue]

\* Claims the free write slot for the request, or counts a drop: what the
\* preparation and the TX ring become.
start_protocol_tx_request(request) ==
  IF TQ!packet_queue_write_slot_available(tx_queue)
    THEN [prepare |-> [active |-> TRUE, request |-> request, index |-> 0,
                       tx_idx |-> tx_queue.write_idx],
          queue |-> tx_queue]
    ELSE [prepare |-> prepare, queue |-> TQ!packet_queue_drop_write(tx_queue)]

\* Seeded fault: the preparation that is done is not ended.
PrepareStep_StaysActive(p, queue) ==
  LET stored == TQ!StoreByte(queue, p.tx_idx, p.index,
                             FrameBodyByte(p.request, p.index))
  IN
  IF ~p.active \/ p.index = p.request.len THEN prepare' = p /\ tx_queue' = queue
  ELSE /\ prepare' = [p EXCEPT !.index = @ + 1]
       /\ tx_queue' = IF p.index = p.request.len - 1
                        THEN TQ!packet_queue_publish_write_slot(stored, p.request.len)
                        ELSE stored

\* The end of the step: one byte of the frame being prepared, which may have
\* been started in this very cycle; the last byte publishes the slot.
PrepareStep(p, queue) ==
  LET stored == TQ!StoreByte(queue, p.tx_idx, p.index,
                             FrameBodyByte(p.request, p.index))
      done == p.request.len = 0 \/ p.index = p.request.len - 1
  IN
  IF ~p.active THEN prepare' = p /\ tx_queue' = queue
  ELSE IF done
    THEN /\ tx_queue' = TQ!packet_queue_publish_write_slot(stored, p.request.len)
         /\ prepare' = [p EXCEPT !.active = FALSE, !.request.valid = FALSE,
                                 !.request.kind = "NONE"]
    ELSE /\ tx_queue' = stored
         /\ prepare' = [p EXCEPT !.index = @ + 1]

NothingStarted == PrepareStep(prepare, tx_queue)

Start(request) ==
  LET started == start_protocol_tx_request(request)
  IN  PrepareStep(started.prepare, started.queue)

----------------------------------------------------------------------------
(* The step, one action per branch. *)

Init ==
  /\ protocol_state = "PROTO_IDLE"
  /\ parse = [rx_idx |-> 0, index |-> 0,
              arp |-> [i \in 0 .. ARP_PAYLOAD_BYTES - 1 |-> 0]]
  /\ prepare = [active |-> FALSE, request |-> NoRequest, index |-> 0, tx_idx |-> 0]
  /\ counters = [rx_packet |-> 0, rx_protocol_drop |-> 0, arp_reply |-> 0,
                 uptime_beacon |-> 0]
  /\ timers = [beacon |-> 0, gratuitous |-> 0]

BeaconTick == timers.beacon = BEACON_INTERVAL_CYCLES - 1
GratuitousTick == timers.gratuitous = GRATUITOUS_ARP_INTERVAL_CYCLES - 1

\* The timers run in every cycle, whatever becomes of their ticks.
periodic_tx_timer_step ==
  timers' = [beacon     |-> IF BeaconTick THEN 0 ELSE timers.beacon + 1,
             gratuitous |-> IF GratuitousTick THEN 0 ELSE timers.gratuitous + 1]

Free == ~prepare.active /\ protocol_state = "PROTO_IDLE"

\* Seeded fault: no packet is looked at before there is room for an answer.
PacketWaiting_WaitsForRoom ==
  /\ RQ!packet_queue_read_slot_valid(rx_queue)
  /\ TQ!packet_queue_write_slot_available(tx_queue)

PacketWaiting == RQ!packet_queue_read_slot_valid(rx_queue)

Waiting == rx_queue.meta[rx_queue.read_idx]

DstMac(header) == Field(header, 0, MacBytes)
EtherType(header) == Field(header, 2 * MacBytes, Len(ARP_ETHERTYPE))

DestOk(header) == DstMac(header) \in {FPGA_MAC, BROADCAST_MAC}

LooksLikeArp(meta) ==
  /\ ~meta.truncated
  /\ DestOk(meta.header)
  /\ EtherType(meta.header) = ARP_ETHERTYPE
  /\ meta.payload_len >= ARP_PAYLOAD_BYTES

\* preparing_payload: nothing but the preparation and the timers moves.
Preparing ==
  /\ prepare.active
  /\ NothingStarted
  /\ periodic_tx_timer_step
  /\ UNCHANGED << rx_queue, protocol_state, parse, counters >>

\* Seeded fault: a packet dropped is not counted as dropped.
DropWaiting_Uncounted ==
  /\ Free /\ PacketWaiting /\ ~LooksLikeArp(Waiting)
  /\ rx_queue' = RQ!packet_queue_consume_read_slot(rx_queue)
  /\ counters' = [counters EXCEPT !.rx_packet = RQ!Bump(@)]
  /\ NothingStarted
  /\ periodic_tx_timer_step
  /\ UNCHANGED << protocol_state, parse >>

DropWaiting ==
  /\ Free /\ PacketWaiting /\ ~LooksLikeArp(Waiting)
  /\ rx_queue' = RQ!packet_queue_consume_read_slot(rx_queue)
  /\ counters' = [counters EXCEPT !.rx_packet = RQ!Bump(@),
                                  !.rx_protocol_drop = RQ!Bump(@)]
  /\ NothingStarted
  /\ periodic_tx_timer_step
  /\ UNCHANGED << protocol_state, parse >>

\* Seeded fault: the slot is freed as the parse begins, and again at its end.
BeginParse_FreesEarly ==
  /\ Free /\ PacketWaiting /\ LooksLikeArp(Waiting)
  /\ protocol_state' = "PROTO_PARSE_ARP"
  /\ parse' = [rx_idx |-> rx_queue.read_idx, index |-> 0,
               arp |-> [i \in 0 .. ARP_PAYLOAD_BYTES - 1 |-> 0]]
  /\ rx_queue' = RQ!packet_queue_consume_read_slot(rx_queue)
  /\ counters' = [counters EXCEPT !.rx_packet = RQ!Bump(@)]
  /\ NothingStarted
  /\ periodic_tx_timer_step

BeginParse ==
  /\ Free /\ PacketWaiting /\ LooksLikeArp(Waiting)
  /\ protocol_state' = "PROTO_PARSE_ARP"
  /\ parse' = [rx_idx |-> rx_queue.read_idx, index |-> 0,
               arp |-> [i \in 0 .. ARP_PAYLOAD_BYTES - 1 |-> 0]]
  /\ counters' = [counters EXCEPT !.rx_packet = RQ!Bump(@)]
  /\ NothingStarted
  /\ periodic_tx_timer_step
  /\ UNCHANGED rx_queue

\* A tick is acted on in its own cycle or not at all: these two, in this
\* order of precedence, only when no packet is waiting.
SendGratuitousArp ==
  /\ Free /\ ~PacketWaiting /\ GratuitousTick
  /\ Start(protocol_tx_gratuitous_arp_request)
  /\ periodic_tx_timer_step
  /\ UNCHANGED << rx_queue, protocol_state, parse, counters >>

\* Seeded fault: beacons that found no room are counted.
SendBeacon_CountsDrops ==
  /\ Free /\ ~PacketWaiting /\ ~GratuitousTick /\ BeaconTick
  /\ Start(BeaconRequest)
  /\ counters' = [counters EXCEPT !.uptime_beacon = RQ!Bump(@)]
  /\ periodic_tx_timer_step
  /\ UNCHANGED << rx_queue, protocol_state, parse >>

SendBeacon ==
  /\ Free /\ ~PacketWaiting /\ ~GratuitousTick /\ BeaconTick
  /\ Start(BeaconRequest)
  /\ counters' = IF TQ!packet_queue_write_slot_available(tx_queue)
                   THEN [counters EXCEPT !.uptime_beacon = RQ!Bump(@)]
                   ELSE counters
  /\ periodic_tx_timer_step
  /\ UNCHANGED << rx_queue, protocol_state, parse >>

NothingToDo ==
  /\ Free /\ ~PacketWaiting /\ ~GratuitousTick /\ ~BeaconTick
  /\ NothingStarted
  /\ periodic_tx_timer_step
  /\ UNCHANGED << rx_queue, protocol_state, parse, counters >>

\* Seeded fault: the first byte of the target IP is not kept.
ArpBytes_OffByOne ==
  IF parse.index \in TargetMacAt .. TargetIpAt THEN parse.arp
  ELSE [parse.arp EXCEPT ![parse.index] = rx_queue.bytes[parse.rx_idx][parse.index]]

\* The ARP bytes with the byte of this cycle; the target MAC is not kept.
ArpBytes ==
  IF parse.index \in TargetMacAt .. TargetIpAt - 1 THEN parse.arp
  ELSE [parse.arp EXCEPT ![parse.index] = rx_queue.bytes[parse.rx_idx][parse.index]]

\* Seeded fault: the last byte of the opcode is not compared.
ArpValid_AnyOpcode(arp) ==
  /\ Field(arp, 0, Len(ArpRequestFields) - 1)
       = SubSeq(ArpRequestFields, 1, Len(ArpRequestFields) - 1)
  /\ Field(arp, TargetIpAt, IpBytes) = FPGA_IP

ArpValid(arp) ==
  /\ Field(arp, 0, Len(ArpRequestFields)) = ArpRequestFields
  /\ Field(arp, TargetIpAt, IpBytes) = FPGA_IP

LastArpByte == parse.index = ARP_PAYLOAD_BYTES - 1

ParseArpByte ==
  /\ ~prepare.active /\ protocol_state = "PROTO_PARSE_ARP" /\ ~LastArpByte
  /\ parse' = [parse EXCEPT !.arp = ArpBytes, !.index = @ + 1]
  /\ NothingStarted
  /\ periodic_tx_timer_step
  /\ UNCHANGED << rx_queue, protocol_state, counters >>

\* The reply is counted whether or not the TX ring has room for it.
FinishArp ==
  LET arp == ArpBytes IN
  /\ ~prepare.active /\ protocol_state = "PROTO_PARSE_ARP" /\ LastArpByte
  /\ parse' = [parse EXCEPT !.arp = arp]
  /\ IF ArpValid(arp)
       THEN /\ Start(ArpReplyRequest(Field(arp, SenderMacAt, MacBytes),
                                     Field(arp, SenderIpAt, IpBytes)))
            /\ counters' = [counters EXCEPT !.arp_reply = RQ!Bump(@)]
       ELSE /\ NothingStarted
            /\ counters' = [counters EXCEPT !.rx_protocol_drop = RQ!Bump(@)]
  /\ rx_queue' = RQ!packet_queue_consume_read_slot(rx_queue)
  /\ protocol_state' = "PROTO_IDLE"
  /\ periodic_tx_timer_step

protocol_queue_step ==
  \/ Preparing \/ DropWaiting \/ BeginParse \/ SendGratuitousArp \/ SendBeacon
  \/ NothingToDo \/ ParseArpByte \/ FinishArp

SlotBody(q, s) == [i \in 1 .. q.meta[s] |-> q.bytes[s][i - 1]]

----------------------------------------------------------------------------
(* Properties. *)

\* The packet being parsed, and the slot claimed for the frame being
\* prepared, stay what they were over all the cycles it takes: the handler
\* parses from the published slot at the read index (handler:67, 141-143)
\* and fills the free slot at the write index (handler:35, 260-269), which
\* nobody else publishes or frees.
HandlerOwnsItsSlots ==
  /\ RQ!RingShape(rx_queue) /\ TQ!RingShape(tx_queue)
  /\ protocol_state = "PROTO_PARSE_ARP" =>
       /\ ~prepare.active
       /\ parse.rx_idx = rx_queue.read_idx
       /\ RQ!packet_queue_read_slot_valid(rx_queue)
       /\ LooksLikeArp(Waiting)
  /\ prepare.active =>
       /\ prepare.tx_idx = tx_queue.write_idx
       /\ TQ!packet_queue_write_slot_available(tx_queue)
       /\ prepare.index < prepare.request.len

\* Every packet taken is dropped by the protocol, answered, or being parsed:
\* the counts of the beacon add up (handler:89-110, 240-249), also when they
\* have wrapped.
CountsAddUp ==
  counters.rx_packet =
    (counters.rx_protocol_drop + counters.arp_reply
       + (IF protocol_state = "PROTO_PARSE_ARP" THEN 1 ELSE 0)) % CounterMod
=============================================================================
