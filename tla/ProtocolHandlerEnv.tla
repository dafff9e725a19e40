------------------------- MODULE ProtocolHandlerEnv -------------------------
(***************************************************************************)
(* The protocol handler between its neighbours, each reduced to what it    *)
(* does to the rings: the receive path publishes packets of Packets into   *)
(* free slots, the transmit path frees published slots.  Both do it in any *)
(* cycle or never.                                                         *)
(***************************************************************************)
EXTENDS ProtocolHandler

CONSTANTS
  Packets,      \* the packets that may arrive
  MaxArrivals   \* bound on how many do

VARIABLES
  arrivals,
  beacons       \* beacons published, modulo CounterMod

envVars == << protoVars, arrivals, beacons >>

HeaderIndex == 0 .. ETH_HEADER_BYTES - 1
PayloadIndex == 0 .. MAX_ETH_PAYLOAD_BYTES - 1
BodyIndex == 0 .. TX_FRAME_BODY_BYTES - 1

ZeroMeta ==
  [header |-> [i \in HeaderIndex |-> 0], payload_len |-> 0, truncated |-> FALSE]

EnvInit ==
  /\ Init
  /\ arrivals = 0
  /\ beacons = 0
  /\ rx_queue = RQ!EmptyQueue(ZeroMeta, [i \in PayloadIndex |-> 0])
  /\ tx_queue = TQ!EmptyQueue(0, [i \in BodyIndex |-> 0])

\* A packet is published complete: its bytes were stored before.
Receive(packet) ==
  LET w == rx_queue.write_idx
      filled == [rx_queue EXCEPT !.bytes[w] = packet.bytes]
  IN
  /\ arrivals < MaxArrivals
  /\ arrivals' = arrivals + 1
  /\ RQ!packet_queue_write_slot_available(rx_queue)
  /\ rx_queue' = RQ!packet_queue_publish_write_slot(filled, packet.meta)
  /\ UNCHANGED << tx_queue, handlerVars, beacons >>

Transmit ==
  /\ TQ!packet_queue_read_slot_valid(tx_queue)
  /\ tx_queue' = TQ!packet_queue_consume_read_slot(tx_queue)
  /\ UNCHANGED << rx_queue, handlerVars, arrivals, beacons >>

Published == tx_queue'.write_idx # tx_queue.write_idx

PublishesBeacon == Published /\ prepare.request.kind = "BEACON"

Clock ==
  /\ protocol_queue_step
  /\ beacons' = IF PublishesBeacon THEN TQ!Bump(beacons) ELSE beacons
  /\ UNCHANGED arrivals

EnvNext ==
  \/ Clock
  \/ \E packet \in Packets : Receive(packet)
  \/ Transmit

EnvSafety == EnvInit /\ [][EnvNext]_envVars

\* The clock runs; nothing is assumed of the neighbours.
EnvSpec == EnvSafety /\ WF_envVars(Clock)

\* A quiet network: nothing arrives.
QuietSpec == EnvInit /\ [][Clock \/ Transmit]_envVars

----------------------------------------------------------------------------
Starts(kind) == /\ ~prepare.active
                /\ prepare'.active
                /\ prepare'.request.kind = kind

TxRoom == TQ!packet_queue_write_slot_available(tx_queue)

----------------------------------------------------------------------------
(* Properties. *)

\* When the byte-by-byte parse ends, its verdict is that of the whole packet
\* in the slot, and the reply that is started is addressed to the sender the
\* packet names; a reply is never started for anything else.
VerdictIsTheParse ==
  LET info == ArpRequestInfo(rx_queue.bytes[rx_queue.read_idx])
      finishes == protocol_state = "PROTO_PARSE_ARP" /\ protocol_state' = "PROTO_IDLE"
  IN  /\ Starts("ARP_REPLY") => finishes
      /\ finishes => (Starts("ARP_REPLY") <=> info.valid /\ TxRoom)
      /\ Starts("ARP_REPLY") =>
           /\ prepare'.request.arp_requester_mac = info.sender_mac
           /\ prepare'.request.header.dst_mac = info.sender_mac
           /\ prepare'.request.arp_requester_ip = info.sender_ip

\* The above, of every step (handler:141-251).
StreamedParseIsParse == [][VerdictIsTheParse]_protoVars

\* The frame body published, written one byte per cycle into a slot that may
\* still hold a longer frame's bytes, is the one its request calls for, with
\* the counts of the moment the request was made.
BodyIsTheRequest ==
  Published =>
    LET body == SlotBody(tx_queue', tx_queue.write_idx)
        request == prepare.request
    IN  /\ prepare.active
        /\ request.kind = "ARP_REPLY" =>
              body = ArpReplyBody([sender_mac |-> request.arp_requester_mac,
                                   sender_ip  |-> request.arp_requester_ip])
        /\ request.kind = "GRATUITOUS_ARP" => body = GratuitousArpBody
        /\ request.kind = "BEACON" => body = BeaconBody(request.counts)

\* The above, of every step (handler:255-273).
PublishedBodyIsTheRequest == [][BodyIsTheRequest]_protoVars

\* Beacons are numbered without gaps: the count a beacon carries is the
\* number of beacons published before it, though ticks are lost, frames are
\* dropped at the full TX ring and replies come in between (handler:129-138).
BeaconsAreNumbered ==
  [][PublishesBeacon => prepare.request.counts[7] = beacons]_envVars

\* A packet received is taken out of its slot sooner or later, though the TX
\* ring stays full for ever and the timers keep ticking: the handler never
\* waits for the transmit path and prefers packets to ticks.
RxNeverBlocked ==
  \A s \in RQ!Slot : rx_queue.valid[s] ~> ~rx_queue.valid[s]

----------------------------------------------------------------------------
(* What README.md says of the periodic frames. *)

\* README.md:137-138 has the board announce its mapping every five seconds:
\* each tick of that timer, the TX ring having room, starts an announcement.
AnnouncedEveryInterval ==
  [][GratuitousTick /\ timers' # timers /\ TxRoom => Starts("GRATUITOUS_ARP")]_protoVars

\* README.md:27: periodic broadcast diagnostics beacons.  Each tick of the
\* one-second timer, the TX ring having room, starts a beacon.
BeaconEveryInterval ==
  [][BeaconTick /\ timers' # timers /\ TxRoom => Starts("BEACON")]_protoVars

\* What remains true as long as the network is quiet and the TX ring has
\* room: an announcement at each tick of its timer, and a beacon at each tick
\* of the other one unless both tick in the same cycle.
QuietCadence ==
  [][arrivals = 0 /\ timers' # timers /\ TxRoom =>
       /\ GratuitousTick => Starts("GRATUITOUS_ARP")
       /\ BeaconTick /\ ~GratuitousTick => Starts("BEACON")]_envVars

\* The longer interval is a multiple of the shorter one, which is long enough
\* to prepare any frame: 125,000,000 and 25,000,000 cycles, 143 bytes.
IntervalsFit ==
  /\ BEACON_INTERVAL_CYCLES \in Nat /\ GRATUITOUS_ARP_INTERVAL_CYCLES \in Nat \ {0}
  /\ \E k \in 1 .. GRATUITOUS_ARP_INTERVAL_CYCLES :
       GRATUITOUS_ARP_INTERVAL_CYCLES = k * BEACON_INTERVAL_CYCLES
  /\ \A kind \in {"ARP_REPLY", "GRATUITOUS_ARP", "BEACON"} :
       protocol_tx_frame_body_len(kind) <= BEACON_INTERVAL_CYCLES
=============================================================================
