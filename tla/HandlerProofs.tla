---------------------------- MODULE HandlerProofs ----------------------------
(***************************************************************************)
(* Proofs about the protocol handler for every number of slots, every      *)
(* layout of the frames, every width of the counters, every set of packets *)
(* that may arrive, and neighbours that act on the rings in any cycle or   *)
(* never.                                                                  *)
(***************************************************************************)
EXTENDS ProtocolHandlerEnv, SequenceTheorems, TLAPS

----------------------------------------------------------------------------
(* The counters. *)

\* What the remainder is where the counters meet it.
LEMMA SmallRemainders ==
  /\ \A x \in 0 .. CounterMod - 1 : x % CounterMod = x
  /\ \A x \in CounterMod .. 2 * CounterMod - 1 : x % CounterMod = x - CounterMod
<1>1. CounterMod \in Nat \ {0}
  BY HandlerAssumption
<1>2. \A x \in 0 .. CounterMod - 1 : x % CounterMod = x
  BY <1>1
<1>3. \A x \in CounterMod .. 2 * CounterMod - 1 : x % CounterMod = x - CounterMod
  BY <1>1
<1>4. QED BY <1>2, <1>3

Count == 0 .. CounterMod - 1

\* A counter wraps at CounterMod.
LEMMA BumpWraps ==
  \A n \in Count : /\ RQ!Bump(n) \in Count
                   /\ RQ!Bump(n) = IF n = CounterMod - 1 THEN 0 ELSE n + 1
  BY SmallRemainders, HandlerAssumption DEF RQ!Bump, Count

\* The packets dropped and answered, without and with one being parsed.
Settled(d, r) == (d + r) % CounterMod
Pending(d, r) == (d + r + 1) % CounterMod

\* Taking, dropping and answering a packet keep the sum, wrapped or not.
LEMMA SumKept ==
  ASSUME NEW d \in Count, NEW r \in Count
  PROVE  /\ RQ!Bump(Settled(d, r)) = Settled(RQ!Bump(d), r)
         /\ RQ!Bump(Settled(d, r)) = Pending(d, r)
         /\ Pending(d, r) = Settled(RQ!Bump(d), r)
         /\ Pending(d, r) = Settled(d, RQ!Bump(r))
<1>1. CounterMod \in Nat \ {0} /\ d + r \in 0 .. 2 * CounterMod - 2
  BY HandlerAssumption DEF Count
<1>2. /\ Settled(d, r) = IF d + r < CounterMod THEN d + r ELSE d + r - CounterMod
      /\ Pending(d, r) = IF d + r + 1 < CounterMod THEN d + r + 1
                                                     ELSE d + r + 1 - CounterMod
  <2> DEFINE Mod(x) == x % CounterMod
  <2>1. Settled(d, r) = Mod(d + r) /\ Pending(d, r) = Mod(d + r + 1)
    BY <1>1 DEF Settled, Pending, Count
  <2>2. \A x \in 0 .. 2 * CounterMod - 1 :
          Mod(x) = IF x < CounterMod THEN x ELSE x - CounterMod
    <3> SUFFICES ASSUME NEW x \in 0 .. 2 * CounterMod - 1
                 PROVE  Mod(x) = IF x < CounterMod THEN x ELSE x - CounterMod
      OBVIOUS
    <3>1. x \in 0 .. CounterMod - 1 \/ x \in CounterMod .. 2 * CounterMod - 1
      BY <1>1
    <3>2. QED BY <1>1, <3>1, SmallRemainders
  <2> HIDE DEF Mod
  <2>3. QED BY <1>1, <2>1, <2>2 DEF Count
<1>3. Settled(d, r) \in Count /\ Pending(d, r) \in Count
  BY <1>1, <1>2 DEF Count
<1>4. RQ!Bump(Settled(d, r)) = Pending(d, r)
  <2>1. RQ!Bump(Settled(d, r))
          = IF Settled(d, r) = CounterMod - 1 THEN 0 ELSE Settled(d, r) + 1
    BY <1>3, BumpWraps
  <2>2. QED BY <1>1, <1>2, <2>1 DEF Count
<1>5. ASSUME NEW n \in Count, NEW m \in Count
      PROVE  RQ!Bump(n) + m = n + m + 1 \/ (n = CounterMod - 1 /\ RQ!Bump(n) + m = m)
  BY <1>1, <1>5, BumpWraps DEF Count
<1>6. ASSUME NEW n \in Count, NEW m \in Count, n + m = d + r
      PROVE  (RQ!Bump(n) + m) % CounterMod = Pending(d, r)
  <2>1. CASE RQ!Bump(n) + m = n + m + 1
    BY <1>1, <1>6, <2>1 DEF Settled, Pending, Count
  <2>2. CASE n = CounterMod - 1 /\ RQ!Bump(n) + m = m
    <3>1. m % CounterMod = m
      BY SmallRemainders DEF Count
    <3>2. d + r + 1 = m + CounterMod
      BY <1>1, <1>6, <2>2 DEF Count
    <3>3. (RQ!Bump(n) + m) % CounterMod = m
      BY <2>2, <3>1
    <3>4. QED BY <1>1, <1>2, <3>2, <3>3 DEF Count
  <2>3. QED BY <1>5, <2>1, <2>2
<1>7. Settled(RQ!Bump(d), r) = Pending(d, r)
  <2>1. RQ!Bump(d) \in Count
    BY BumpWraps
  <2>2. QED BY <1>1, <1>6, <2>1 DEF Settled, Pending, Count
<1>8. Settled(d, RQ!Bump(r)) = Pending(d, r)
  <2>1. RQ!Bump(r) \in Count
    BY BumpWraps
  <2>2. QED BY <1>1, <1>6, <2>1 DEF Settled, Pending, Count
<1>9. QED BY <1>4, <1>7, <1>8

Counters ==
  [rx_packet : Count, rx_protocol_drop : Count, arp_reply : Count, uptime_beacon : Count]

\* The strengthening of CountsAddUp.
CountInv ==
  /\ counters \in Counters
  /\ protocol_state \in {"PROTO_IDLE", "PROTO_PARSE_ARP"}
  /\ CountsAddUp

\* One action at a time, what becomes of the counters.
LEMMA StepCounts ==
  ASSUME CountInv, protocol_queue_step
  PROVE  CountInv'
<1> DEFINE c == counters
           parsing == protocol_state = "PROTO_PARSE_ARP"
<1>0. CounterMod \in Nat \ {0}
  BY HandlerAssumption
<1>1. /\ c \in Counters
      /\ c.rx_packet = IF parsing THEN Pending(c.rx_protocol_drop, c.arp_reply)
                                ELSE Settled(c.rx_protocol_drop, c.arp_reply)
  BY <1>0 DEF CountInv, CountsAddUp, Settled, Pending, Counters, Count
<1>2. \A n \in Count : RQ!Bump(n) \in Count
  BY BumpWraps
<1>3. c.rx_protocol_drop \in Count /\ c.arp_reply \in Count /\ c.rx_packet \in Count
  BY <1>1 DEF Counters
<1>4. SUFFICES /\ counters' \in Counters
               /\ protocol_state' \in {"PROTO_IDLE", "PROTO_PARSE_ARP"}
               /\ counters'.rx_packet = 
                    IF protocol_state' = "PROTO_PARSE_ARP"
                      THEN Pending(counters'.rx_protocol_drop, counters'.arp_reply)
                      ELSE Settled(counters'.rx_protocol_drop, counters'.arp_reply)
  BY <1>0 DEF CountInv, CountsAddUp, Settled, Pending, Counters, Count
<1>5. CASE UNCHANGED << counters, protocol_state >>
  BY <1>1, <1>5 DEF CountInv
<1>6. CASE DropWaiting
  <2>1. /\ protocol_state = "PROTO_IDLE" /\ protocol_state' = "PROTO_IDLE"
        /\ counters' = [c EXCEPT !.rx_packet = RQ!Bump(@), !.rx_protocol_drop = RQ!Bump(@)]
    BY <1>6 DEF DropWaiting, Free
  <2>2. /\ counters'.rx_packet = RQ!Bump(c.rx_packet)
        /\ counters'.rx_protocol_drop = RQ!Bump(c.rx_protocol_drop)
        /\ counters'.arp_reply = c.arp_reply
        /\ counters' \in Counters
    BY <1>1, <1>2, <2>1 DEF Counters
  <2>3. QED BY <1>1, <1>3, <2>1, <2>2, SumKept
<1>7. CASE BeginParse
  <2>1. /\ protocol_state = "PROTO_IDLE" /\ protocol_state' = "PROTO_PARSE_ARP"
        /\ counters' = [c EXCEPT !.rx_packet = RQ!Bump(@)]
    BY <1>7 DEF BeginParse, Free
  <2>2. /\ counters'.rx_packet = RQ!Bump(c.rx_packet)
        /\ counters'.rx_protocol_drop = c.rx_protocol_drop
        /\ counters'.arp_reply = c.arp_reply
        /\ counters' \in Counters
    BY <1>1, <1>2, <2>1 DEF Counters
  <2>3. QED BY <1>1, <1>3, <2>1, <2>2, SumKept
<1>8. CASE SendBeacon
  <2>1. /\ protocol_state = "PROTO_IDLE" /\ protocol_state' = "PROTO_IDLE"
        /\ counters' \in {c, [c EXCEPT !.uptime_beacon = RQ!Bump(@)]}
    BY <1>8 DEF SendBeacon, Free
  <2>2. /\ counters'.rx_packet = c.rx_packet
        /\ counters'.rx_protocol_drop = c.rx_protocol_drop
        /\ counters'.arp_reply = c.arp_reply
        /\ counters' \in Counters
    BY <1>1, <1>2, <2>1 DEF Counters
  <2>3. QED BY <1>1, <2>1, <2>2
<1>9. CASE FinishArp
  <2>1. /\ protocol_state = "PROTO_PARSE_ARP" /\ protocol_state' = "PROTO_IDLE"
        /\ counters' \in {[c EXCEPT !.arp_reply = RQ!Bump(@)],
                          [c EXCEPT !.rx_protocol_drop = RQ!Bump(@)]}
    BY <1>9 DEF FinishArp
  <2>2. CASE counters' = [c EXCEPT !.arp_reply = RQ!Bump(@)]
    <3>1. /\ counters'.rx_packet = c.rx_packet
          /\ counters'.rx_protocol_drop = c.rx_protocol_drop
          /\ counters'.arp_reply = RQ!Bump(c.arp_reply)
          /\ counters' \in Counters
      BY <1>1, <1>2, <2>2 DEF Counters
    <3>2. QED BY <1>1, <1>3, <2>1, <3>1, SumKept
  <2>3. CASE counters' = [c EXCEPT !.rx_protocol_drop = RQ!Bump(@)]
    <3>1. /\ counters'.rx_packet = c.rx_packet
          /\ counters'.rx_protocol_drop = RQ!Bump(c.rx_protocol_drop)
          /\ counters'.arp_reply = c.arp_reply
          /\ counters' \in Counters
      BY <1>1, <1>2, <2>3 DEF Counters
    <3>2. QED BY <1>1, <1>3, <2>1, <3>1, SumKept
  <2>4. QED BY <2>1, <2>2, <2>3
<1>10. QED
  BY <1>5, <1>6, <1>7, <1>8, <1>9
  DEF protocol_queue_step, Preparing, SendGratuitousArp, NothingToDo, ParseArpByte

\* At first nothing has been counted.
LEMMA CountsAtFirst ==
  ASSUME Init
  PROVE  CountInv
<1>1. 0 \in Count /\ 0 % CounterMod = 0
  BY HandlerAssumption, SmallRemainders DEF Count
<1>2. counters \in Counters
  BY <1>1 DEF Init, Counters
<1>3. QED BY <1>1, <1>2 DEF Init, CountInv, CountsAddUp

\* No step breaks the sum; nobody but the handler counts.
LEMMA CountsNext ==
  ASSUME CountInv, protocol_queue_step \/ UNCHANGED handlerVars
  PROVE  CountInv'
<1>1. CASE UNCHANGED handlerVars
  BY <1>1 DEF CountInv, CountsAddUp, handlerVars
<1>2. QED BY <1>1, StepCounts

\* Every packet the handler has taken is accounted for in the counts a beacon
\* carries, for every width of the counters (ethernet_protocol_handler.h:89-110,
\* 240-249).
THEOREM CountsAgree == EnvSafety => []CountsAddUp
<1>1. EnvInit => CountInv
  BY CountsAtFirst DEF EnvInit
<1>2. CountInv /\ [EnvNext]_envVars => CountInv'
  BY CountsNext DEF EnvNext, Clock, Receive, Transmit, envVars, protoVars
<1>3. CountInv => CountsAddUp
  BY DEF CountInv
<1>4. QED BY <1>1, <1>2, <1>3, PTL DEF EnvSafety

----------------------------------------------------------------------------
(* The slots. *)

\* The rings' lemmas rest on these.
LEMMA RingSizes ==
  RxSlots \in Nat \ {0} /\ TxSlots \in Nat \ {0} /\ CounterMod \in Nat \ {0}
  BY HandlerAssumption

RequestFields ==
  {"valid", "kind", "len", "header", "arp_requester_mac", "arp_requester_ip", "counts"}

\* A request, of which only the length matters here.
Sized(request) == DOMAIN request = RequestFields /\ request.len \in Nat

\* A preparation under way fills the free write slot of ring q.
OwnsWriteSlot(p, q) ==
  /\ DOMAIN p = {"active", "request", "index", "tx_idx"}
  /\ p.active \in BOOLEAN
  /\ Sized(p.request)
  /\ p.index \in Nat
  /\ p.active =>
       /\ p.tx_idx = q.write_idx
       /\ TQ!packet_queue_write_slot_available(q)

OwnsReadSlot ==
  protocol_state = "PROTO_PARSE_ARP" =>
    /\ ~prepare.active
    /\ parse.rx_idx = rx_queue.read_idx
    /\ RQ!packet_queue_read_slot_valid(rx_queue)
    /\ LooksLikeArp(Waiting)

\* The strengthening of HandlerOwnsItsSlots.
SlotInv ==
  /\ RQ!Ring(rx_queue) /\ TQ!Ring(tx_queue)
  /\ protocol_state \in {"PROTO_IDLE", "PROTO_PARSE_ARP"}
  /\ OwnsReadSlot
  /\ OwnsWriteSlot(prepare, tx_queue)
  /\ prepare.active => prepare.index < prepare.request.len

\* The requests the handler makes have a length.
LEMMA RequestsAreSized ==
  /\ Sized(NoRequest)
  /\ Sized(protocol_tx_gratuitous_arp_request)
  /\ Sized(BeaconRequest)
  /\ \A mac, ip : Sized(ArpReplyRequest(mac, ip))
<1>1. /\ Len(FPGA_MAC) \in Nat /\ Len(FPGA_IP) \in Nat /\ Len(ARP_ETHERTYPE) \in Nat
      /\ Len(ArpRequestFields) \in Nat /\ Len(BeaconText(NoCounts)) \in Nat
  BY FramesAssumption
<1>2. ETH_HEADER_BYTES \in Nat /\ ARP_PAYLOAD_BYTES \in Nat
  BY <1>1 DEF ETH_HEADER_BYTES, ARP_PAYLOAD_BYTES, MacBytes, IpBytes
<1>3. \A kind : protocol_tx_frame_body_len(kind) \in Nat
  BY <1>1, <1>2 DEF protocol_tx_frame_body_len
<1>4. ASSUME NEW kind, NEW dst, NEW type, NEW len \in Nat, NEW mac, NEW ip
      PROVE  Sized(Request(kind, dst, type, len, mac, ip))
  BY DEF Request, Sized, RequestFields
<1>5. Sized(protocol_tx_gratuitous_arp_request)
  BY <1>3, <1>4 DEF protocol_tx_gratuitous_arp_request
<1>6. \A mac, ip : Sized(ArpReplyRequest(mac, ip))
  BY <1>3, <1>4 DEF ArpReplyRequest
<1>7. Sized(protocol_tx_beacon_request)
  BY <1>3, <1>4 DEF protocol_tx_beacon_request
<1>8. Sized(BeaconRequest)
  BY <1>7 DEF BeaconRequest, Sized
<1>9. Sized(NoRequest)
  BY <1>4 DEF NoRequest, Sized
<1>10. QED BY <1>5, <1>6, <1>8, <1>9

\* A byte stored disturbs no flag.
LEMMA StoreKeepsFlags ==
  ASSUME NEW q, NEW slot \in TQ!Slot, NEW i, NEW byte, TQ!Ring(q)
  PROVE  LET d == TQ!StoreByte(q, slot, i, byte)
         IN  TQ!Ring(d) /\ d.write_idx = q.write_idx /\ d.valid = q.valid
<1> DEFINE d == TQ!StoreByte(q, slot, i, byte)
<1>1. TQ!Ring(d)
  BY RingSizes, TQ!StoreKeepsRing, Zenon
<1>2. d.write_idx = q.write_idx /\ d.valid = q.valid
  BY DEF TQ!StoreByte, TQ!Ring
<1>3. QED BY <1>1, <1>2

\* A preparation goes on one byte in its slot, or ends by publishing it.
LEMMA PreparationGoesOn ==
  ASSUME NEW p, NEW q, TQ!Ring(q), OwnsWriteSlot(p, q), PrepareStep(p, q),
         p.active => p.index < p.request.len \/ p.request.len = 0
  PROVE  /\ TQ!Ring(tx_queue')
         /\ OwnsWriteSlot(prepare', tx_queue')
         /\ prepare'.active => prepare'.index < prepare'.request.len
<1> DEFINE stored == TQ!StoreByte(q, p.tx_idx, p.index, FrameBodyByte(p.request, p.index))
           done == p.request.len = 0 \/ p.index = p.request.len - 1
<1>1. CASE ~p.active
  BY <1>1 DEF PrepareStep
<1>2. ASSUME p.active
      PROVE  /\ TQ!Ring(stored)
             /\ stored.write_idx = q.write_idx
             /\ TQ!packet_queue_write_slot_available(stored)
  <2>1. p.tx_idx \in TQ!Slot
    BY <1>2 DEF OwnsWriteSlot, TQ!Ring
  <2>2. TQ!Ring(stored) /\ stored.write_idx = q.write_idx /\ stored.valid = q.valid
    <3>1. TQ!Ring(stored)
      BY <2>1, StoreKeepsFlags, Zenon
    <3>2. QED BY <3>1 DEF TQ!StoreByte, TQ!Ring
  <2>3. QED BY <1>2, <2>2 DEF OwnsWriteSlot, TQ!packet_queue_write_slot_available
<1>3. CASE p.active /\ done
  <2>1. /\ tx_queue' = TQ!packet_queue_publish_write_slot(stored, p.request.len)
        /\ prepare' = [p EXCEPT !.active = FALSE, !.request.valid = FALSE,
                                !.request.kind = "NONE"]
    BY <1>3 DEF PrepareStep
  <2> HIDE DEF stored
  <2>2. TQ!Ring(tx_queue')
    BY <1>2, <1>3, <2>1, RingSizes, TQ!PublishKeepsRing
  <2>3. OwnsWriteSlot(prepare', tx_queue') /\ ~prepare'.active
    BY <2>1 DEF OwnsWriteSlot, Sized, RequestFields
  <2>4. QED BY <2>2, <2>3
<1>4. CASE p.active /\ ~done
  <2>1. tx_queue' = stored /\ prepare' = [p EXCEPT !.index = @ + 1]
    BY <1>4 DEF PrepareStep
  <2> HIDE DEF stored
  <2>2. OwnsWriteSlot(prepare', tx_queue')
    <3>1. /\ DOMAIN prepare' = {"active", "request", "index", "tx_idx"}
          /\ prepare'.active = p.active /\ prepare'.request = p.request
          /\ prepare'.tx_idx = p.tx_idx /\ prepare'.index \in Nat
      BY <2>1 DEF OwnsWriteSlot
    <3>2. p.tx_idx = tx_queue'.write_idx /\ TQ!packet_queue_write_slot_available(tx_queue')
      BY <1>2, <1>4, <2>1 DEF OwnsWriteSlot
    <3>3. QED BY <1>4, <3>1, <3>2 DEF OwnsWriteSlot
  <2>3. prepare'.index < prepare'.request.len
    BY <1>4, <2>1 DEF OwnsWriteSlot, Sized
  <2>4. QED BY <1>2, <1>4, <2>1, <2>2, <2>3
<1>5. QED BY <1>1, <1>3, <1>4 DEF OwnsWriteSlot

\* A request started takes the write slot if it is free.
LEMMA StartTakesWriteSlot ==
  ASSUME NEW request, Sized(request), TQ!Ring(tx_queue),
         OwnsWriteSlot(prepare, tx_queue), ~prepare.active, Start(request)
  PROVE  /\ TQ!Ring(tx_queue')
         /\ OwnsWriteSlot(prepare', tx_queue')
         /\ prepare'.active => prepare'.index < prepare'.request.len
<1> DEFINE started == start_protocol_tx_request(request)
<1>1. TQ!Ring(started.queue) /\ OwnsWriteSlot(started.prepare, started.queue)
  <2>1. CASE TQ!packet_queue_write_slot_available(tx_queue)
    BY <2>1 DEF start_protocol_tx_request, OwnsWriteSlot
  <2>2. CASE ~TQ!packet_queue_write_slot_available(tx_queue)
    <3>1. /\ started.prepare = prepare
          /\ started.queue = TQ!packet_queue_drop_write(tx_queue)
      BY <2>2 DEF start_protocol_tx_request
    <3>2. TQ!Ring(started.queue)
      BY <3>1, RingSizes, TQ!DropKeepsRing
    <3>3. QED BY <3>1, <3>2 DEF OwnsWriteSlot
  <2>3. QED BY <2>1, <2>2
<1>2. started.prepare.active =>
        started.prepare.index < started.prepare.request.len \/ started.prepare.request.len = 0
  BY DEF start_protocol_tx_request, Sized
<1>3. PrepareStep(started.prepare, started.queue)
  BY DEF Start
<1> HIDE DEF started
<1>4. QED BY <1>1, <1>2, <1>3, PreparationGoesOn

\* One cycle of the handler keeps the ownership of both slots.
LEMMA HandlerKeepsSlots ==
  ASSUME SlotInv, protocol_queue_step
  PROVE  SlotInv'
<1> DEFINE TxPart == /\ TQ!Ring(tx_queue')
                     /\ OwnsWriteSlot(prepare', tx_queue')
                     /\ prepare'.active => prepare'.index < prepare'.request.len
<1>1. ASSUME NothingStarted PROVE TxPart
  BY <1>1, PreparationGoesOn DEF SlotInv, NothingStarted
<1>2. ASSUME NothingStarted, ~prepare.active PROVE prepare' = prepare
  BY <1>2 DEF NothingStarted, PrepareStep
<1>3. ASSUME NEW request, Sized(request), ~prepare.active, Start(request) PROVE TxPart
  BY <1>3, StartTakesWriteSlot DEF SlotInv
<1>4. ASSUME RQ!packet_queue_read_slot_valid(rx_queue)
      PROVE  RQ!Ring(RQ!packet_queue_consume_read_slot(rx_queue))
  BY <1>4, RingSizes, RQ!ConsumeKeepsRing DEF SlotInv
<1> HIDE DEF TxPart
<1>5. SUFFICES TxPart /\ RQ!Ring(rx_queue') /\ OwnsReadSlot'
               /\ protocol_state' \in {"PROTO_IDLE", "PROTO_PARSE_ARP"}
  BY DEF TxPart, SlotInv
<1>6. CASE Preparing
  <2>1. TxPart /\ UNCHANGED << rx_queue, protocol_state, parse >> /\ protocol_state = "PROTO_IDLE"
    BY <1>1, <1>6 DEF Preparing, SlotInv, OwnsReadSlot
  <2>2. QED BY <2>1 DEF SlotInv, OwnsReadSlot
<1>7. CASE DropWaiting
  <2>1. TxPart /\ RQ!Ring(rx_queue')
    BY <1>1, <1>4, <1>7 DEF DropWaiting, PacketWaiting
  <2>2. protocol_state' = "PROTO_IDLE"
    BY <1>7 DEF DropWaiting, Free
  <2>3. QED BY <2>1, <2>2 DEF OwnsReadSlot
<1>8. CASE BeginParse
  <2>1. TxPart /\ prepare' = prepare /\ ~prepare.active
    BY <1>1, <1>2, <1>8 DEF BeginParse, Free
  <2>2. /\ rx_queue' = rx_queue /\ parse'.rx_idx = rx_queue.read_idx
        /\ protocol_state' = "PROTO_PARSE_ARP"
        /\ RQ!packet_queue_read_slot_valid(rx_queue) /\ LooksLikeArp(Waiting)
    BY <1>8 DEF BeginParse, PacketWaiting
  <2>3. QED BY <2>1, <2>2 DEF OwnsReadSlot, Waiting, SlotInv
<1>9. CASE SendGratuitousArp
  <2>1. TxPart
    BY <1>3, <1>9, RequestsAreSized DEF SendGratuitousArp, Free
  <2>2. rx_queue' = rx_queue /\ protocol_state' = "PROTO_IDLE"
    BY <1>9 DEF SendGratuitousArp, Free
  <2>3. QED BY <2>1, <2>2 DEF OwnsReadSlot, SlotInv
<1>10. CASE SendBeacon
  <2>1. TxPart
    BY <1>3, <1>10, RequestsAreSized DEF SendBeacon, Free
  <2>2. rx_queue' = rx_queue /\ protocol_state' = "PROTO_IDLE"
    BY <1>10 DEF SendBeacon, Free
  <2>3. QED BY <2>1, <2>2 DEF OwnsReadSlot, SlotInv
<1>11. CASE NothingToDo
  <2>1. TxPart
    BY <1>1, <1>11 DEF NothingToDo
  <2>2. rx_queue' = rx_queue /\ protocol_state' = "PROTO_IDLE"
    BY <1>11 DEF NothingToDo, Free
  <2>3. QED BY <2>1, <2>2 DEF OwnsReadSlot, SlotInv
<1>12. CASE ParseArpByte
  <2>1. TxPart /\ prepare' = prepare
    BY <1>1, <1>2, <1>12 DEF ParseArpByte
  <2>2. /\ rx_queue' = rx_queue /\ protocol_state' = "PROTO_PARSE_ARP"
        /\ protocol_state = "PROTO_PARSE_ARP"
        /\ parse' = [parse EXCEPT !.arp = ArpBytes, !.index = @ + 1]
    BY <1>12 DEF ParseArpByte
  <2>3. parse'.rx_idx = parse.rx_idx
    BY <2>2
  <2>4. QED BY <2>1, <2>2, <2>3 DEF OwnsReadSlot, Waiting, SlotInv
<1>13. CASE FinishArp
  <2>1. TxPart
    BY <1>1, <1>3, <1>13, RequestsAreSized DEF FinishArp
  <2>2. RQ!packet_queue_read_slot_valid(rx_queue)
    BY <1>13 DEF FinishArp, SlotInv, OwnsReadSlot
  <2>3. RQ!Ring(rx_queue') /\ protocol_state' = "PROTO_IDLE"
    BY <1>4, <1>13, <2>2 DEF FinishArp
  <2>4. QED BY <2>1, <2>3 DEF OwnsReadSlot
<1>14. QED
  BY <1>6, <1>7, <1>8, <1>9, <1>10, <1>11, <1>12, <1>13 DEF protocol_queue_step

----------------------------------------------------------------------------
(* The neighbours.  Whatever fills the RX ring and empties the TX ring     *)
(* does to the handler nothing but this; a module that runs the handler    *)
(* between other neighbours needs to show it of them, and no more.         *)

Rely ==
  /\ UNCHANGED handlerVars
  /\ RQ!ByProducer(rx_queue, rx_queue') /\ TQ!ByConsumer(tx_queue, tx_queue')
  /\ rx_queue.drop_count \in Count => rx_queue'.drop_count \in Count

\* The packet under parsing stays, and the slot being filled stays free.
LEMMA RelyKeepsSlots ==
  ASSUME SlotInv, Rely
  PROVE  /\ SlotInv'
         /\ protocol_state = "PROTO_PARSE_ARP" =>
              rx_queue'.bytes[parse.rx_idx] = rx_queue.bytes[parse.rx_idx]
<1>1. /\ RQ!Ring(rx_queue') /\ TQ!Ring(tx_queue')
      /\ rx_queue'.read_idx = rx_queue.read_idx /\ rx_queue.read_idx \in RQ!Slot
      /\ tx_queue'.write_idx = tx_queue.write_idx /\ tx_queue.write_idx \in TQ!Slot
      /\ UNCHANGED << protocol_state, parse, prepare >>
  BY DEF Rely, SlotInv, RQ!ByProducer, TQ!ByConsumer, RQ!Ring, TQ!Ring, handlerVars
<1>2. ASSUME TQ!packet_queue_write_slot_available(tx_queue)
      PROVE  TQ!packet_queue_write_slot_available(tx_queue')
  BY <1>1, <1>2 DEF Rely, TQ!ByConsumer, TQ!packet_queue_write_slot_available
<1>3. OwnsWriteSlot(prepare', tx_queue')
  BY <1>1, <1>2 DEF SlotInv, OwnsWriteSlot
<1>4. ASSUME protocol_state = "PROTO_PARSE_ARP"
      PROVE  /\ ~prepare.active /\ parse.rx_idx = rx_queue'.read_idx
             /\ RQ!packet_queue_read_slot_valid(rx_queue')
             /\ LooksLikeArp(Waiting')
             /\ rx_queue'.bytes[parse.rx_idx] = rx_queue.bytes[parse.rx_idx]
  <2>1. /\ ~prepare.active /\ parse.rx_idx = rx_queue.read_idx
        /\ rx_queue.valid[rx_queue.read_idx] /\ LooksLikeArp(Waiting)
    BY <1>4 DEF SlotInv, OwnsReadSlot, RQ!packet_queue_read_slot_valid
  <2>2. /\ rx_queue'.valid[rx_queue.read_idx] /\ Waiting' = Waiting
        /\ rx_queue'.bytes[rx_queue.read_idx] = rx_queue.bytes[rx_queue.read_idx]
    BY <1>1, <2>1 DEF Rely, RQ!ByProducer, Waiting
  <2>3. QED BY <1>1, <2>1, <2>2 DEF RQ!packet_queue_read_slot_valid
<1>5. OwnsReadSlot'
  BY <1>1, <1>4 DEF OwnsReadSlot
<1>6. QED BY <1>1, <1>3, <1>4, <1>5 DEF SlotInv

\* The receiver and the transmitter of ProtocolHandlerEnv are such neighbours.
LEMMA ReceiverIsRely ==
  ASSUME SlotInv, NEW packet, Receive(packet)
  PROVE  Rely
<1> DEFINE w == rx_queue.write_idx
           filled == [rx_queue EXCEPT !.bytes[w] = packet.bytes]
<1>1. /\ rx_queue' = RQ!packet_queue_publish_write_slot(filled, packet.meta)
      /\ RQ!packet_queue_write_slot_available(rx_queue)
      /\ UNCHANGED << tx_queue, handlerVars >>
  BY DEF Receive
<1>2. /\ RQ!Ring(filled) /\ RQ!packet_queue_write_slot_available(filled)
      /\ filled.valid = rx_queue.valid /\ filled.meta = rx_queue.meta
      /\ filled.read_idx = rx_queue.read_idx /\ filled.drop_count = rx_queue.drop_count
      /\ \A s \in RQ!Slot : s # w => filled.bytes[s] = rx_queue.bytes[s]
  BY <1>1 DEF SlotInv, RQ!Ring, RQ!RingShape, RQ!packet_queue_write_slot_available
<1> HIDE DEF filled
<1>3. RQ!ByProducer(rx_queue, filled)
  BY <1>1, <1>2 DEF RQ!ByProducer, RQ!packet_queue_write_slot_available
<1>4. RQ!ByProducer(filled, rx_queue')
  BY <1>1, <1>2, RingSizes, RQ!ProducerSteps
<1>5. RQ!ByProducer(rx_queue, rx_queue')
  BY <1>3, <1>4, RingSizes, RQ!ProducerStepsCompose
<1>6. rx_queue'.drop_count = rx_queue.drop_count
  BY <1>1, <1>2 DEF RQ!packet_queue_publish_write_slot, RQ!Ring,
                    RQ!packet_queue_write_slot_available
<1>7. TQ!ByConsumer(tx_queue, tx_queue')
  BY <1>1, RingSizes, TQ!ConsumerSteps DEF SlotInv
<1>8. QED BY <1>1, <1>5, <1>6, <1>7 DEF Rely

LEMMA TransmitterIsRely ==
  ASSUME SlotInv, Transmit
  PROVE  Rely
  BY RingSizes, TQ!ConsumerSteps, RQ!ProducerSteps DEF Transmit, SlotInv, Rely

\* So every step is one of the handler or one it relies on.
LEMMA EnvStepIsRely ==
  ASSUME SlotInv, [EnvNext]_envVars
  PROVE  protocol_queue_step \/ Rely
<1>1. CASE UNCHANGED envVars
  BY <1>1, RingSizes, TQ!ConsumerSteps, RQ!ProducerSteps
  DEF envVars, protoVars, SlotInv, Rely
<1>2. QED BY <1>1, ReceiverIsRely, TransmitterIsRely DEF EnvNext, Clock

\* Reset, between two empty rings.
AtRest ==
  /\ Init
  /\ \E meta, bytes : rx_queue = RQ!EmptyQueue(meta, bytes)
  /\ tx_queue = TQ!EmptyQueue(0, [i \in BodyIndex |-> 0])

LEMMA EnvAtRest == EnvInit => AtRest
  BY DEF EnvInit, AtRest

\* At first no slot is in use.
LEMMA SlotsAtFirst ==
  ASSUME AtRest
  PROVE  SlotInv
<1>1. 0 \in RQ!Slot /\ 0 \in TQ!Slot
  BY HandlerAssumption DEF RQ!Slot, TQ!Slot
<1>2. RQ!Ring(rx_queue)
  BY <1>1 DEF AtRest, RQ!EmptyQueue, RQ!Ring, RQ!RingShape, RQ!Shape
<1>3. TQ!Ring(tx_queue)
  BY <1>1 DEF AtRest, TQ!EmptyQueue, TQ!Ring, TQ!RingShape, TQ!Shape
<1>4. OwnsWriteSlot(prepare, tx_queue) /\ ~prepare.active
  BY RequestsAreSized DEF AtRest, Init, OwnsWriteSlot
<1>5. QED BY <1>2, <1>3, <1>4 DEF AtRest, Init, SlotInv, OwnsReadSlot

\* No step of the handler or of a neighbour breaks the ownership.
LEMMA SlotsNext ==
  ASSUME SlotInv, protocol_queue_step \/ Rely
  PROVE  SlotInv'
  BY HandlerKeepsSlots, RelyKeepsSlots

\* The packet being parsed and the slot being filled stay the handler's over
\* all the cycles of a parse and a preparation, for every size of the rings
\* and of the frames, whatever the receiver and the transmitter do meanwhile
\* (ethernet_protocol_handler.h:35, 67, 141-143, 260-269).
THEOREM SlotsAreOwned == EnvSafety => []HandlerOwnsItsSlots
<1>1. EnvInit => SlotInv
  BY EnvAtRest, SlotsAtFirst
<1>2. SlotInv /\ [EnvNext]_envVars => SlotInv'
  BY EnvStepIsRely, SlotsNext
<1>3. SlotInv => HandlerOwnsItsSlots
  BY DEF SlotInv, OwnsReadSlot, OwnsWriteSlot, HandlerOwnsItsSlots, RQ!Ring, TQ!Ring
<1>4. QED BY <1>1, <1>2, <1>3, PTL DEF EnvSafety

----------------------------------------------------------------------------
(* What the neighbours may rely on in turn: of the TX ring the handler     *)
(* alters nothing that is published.                                       *)

\* One cycle of a preparation stores into the free write slot, and publishes.
LEMMA PreparationOnTxRing ==
  ASSUME NEW p, NEW q, TQ!Ring(q), OwnsWriteSlot(p, q), PrepareStep(p, q)
  PROVE  TQ!ByProducer(q, tx_queue')
<1> DEFINE stored == TQ!StoreByte(q, p.tx_idx, p.index, FrameBodyByte(p.request, p.index))
<1>1. CASE ~p.active
  <2>1. tx_queue' = q
    BY <1>1 DEF PrepareStep
  <2>2. QED BY <2>1, RingSizes, TQ!ProducerSteps
<1>2. CASE p.active
  <2>1. p.tx_idx \in TQ!Slot /\ ~q.valid[p.tx_idx]
    BY <1>2 DEF OwnsWriteSlot, TQ!Ring, TQ!packet_queue_write_slot_available
  <2>2. TQ!ByProducer(q, stored) /\ TQ!Ring(stored)
    BY <2>1, RingSizes, TQ!ProducerSteps, StoreKeepsFlags, Zenon
  <2>3. stored.write_idx = q.write_idx /\ stored.valid = q.valid
    BY DEF TQ!StoreByte, TQ!Ring
  <2>4. TQ!packet_queue_write_slot_available(stored)
    BY <1>2, <2>3 DEF OwnsWriteSlot, TQ!packet_queue_write_slot_available
  <2>5. \/ tx_queue' = stored
        \/ tx_queue' = TQ!packet_queue_publish_write_slot(stored, p.request.len)
    BY <1>2 DEF PrepareStep
  <2> HIDE DEF stored
  <2>6. TQ!ByProducer(stored, tx_queue')
    BY <2>2, <2>4, <2>5, RingSizes, TQ!ProducerSteps
  <2>7. QED BY <2>2, <2>6, RingSizes, TQ!ProducerStepsCompose
<1>3. QED BY <1>1, <1>2

\* A request that finds no room is counted before.
LEMMA StartOnTxRing ==
  ASSUME SlotInv, NEW request, Sized(request), ~prepare.active, Start(request)
  PROVE  TQ!ByProducer(tx_queue, tx_queue')
<1> DEFINE started == start_protocol_tx_request(request)
<1>1. /\ TQ!ByProducer(tx_queue, started.queue) /\ TQ!Ring(started.queue)
      /\ OwnsWriteSlot(started.prepare, started.queue)
  <2>1. CASE TQ!packet_queue_write_slot_available(tx_queue)
    <3>1. started.queue = tx_queue /\ OwnsWriteSlot(started.prepare, started.queue)
      BY <2>1 DEF start_protocol_tx_request, OwnsWriteSlot, SlotInv
    <3>2. QED BY <3>1, RingSizes, TQ!ProducerSteps DEF SlotInv
  <2>2. CASE ~TQ!packet_queue_write_slot_available(tx_queue)
    <3>1. /\ started.prepare = prepare
          /\ started.queue = TQ!packet_queue_drop_write(tx_queue)
      BY <2>2 DEF start_protocol_tx_request
    <3>2. TQ!ByProducer(tx_queue, started.queue)
      BY <3>1, RingSizes, TQ!ProducerSteps DEF SlotInv
    <3>3. QED BY <3>1, <3>2 DEF OwnsWriteSlot, SlotInv, TQ!ByProducer
  <2>3. QED BY <2>1, <2>2
<1>2. PrepareStep(started.prepare, started.queue)
  BY DEF Start
<1> HIDE DEF started
<1>3. TQ!ByProducer(started.queue, tx_queue')
  BY <1>1, <1>2, PreparationOnTxRing
<1>4. QED BY <1>1, <1>3, RingSizes, TQ!ProducerStepsCompose

\* So no cycle of the handler alters a packet that is published.
LEMMA HandlerOnTxRing ==
  ASSUME SlotInv, protocol_queue_step
  PROVE  TQ!ByProducer(tx_queue, tx_queue')
<1>1. ASSUME NothingStarted PROVE TQ!ByProducer(tx_queue, tx_queue')
  BY <1>1, PreparationOnTxRing DEF SlotInv, NothingStarted
<1>2. ASSUME NEW request, Sized(request), ~prepare.active, Start(request)
      PROVE  TQ!ByProducer(tx_queue, tx_queue')
  BY <1>2, StartOnTxRing
<1>3. CASE NothingStarted
  BY <1>1, <1>3
<1>4. CASE SendGratuitousArp \/ SendBeacon
  BY <1>2, <1>4, RequestsAreSized DEF SendGratuitousArp, SendBeacon, Free
<1>5. CASE FinishArp /\ ~NothingStarted
  BY <1>2, <1>5, RequestsAreSized DEF FinishArp
<1>6. QED
  BY <1>3, <1>4, <1>5
  DEF protocol_queue_step, Preparing, DropWaiting, BeginParse, NothingToDo, ParseArpByte

----------------------------------------------------------------------------
(* What starts a preparation, and what ends one. *)

\* Every frame is longer than what one cycle stores.
Long(request) == Sized(request) /\ request.len >= 2

\* The frames the handler makes are: their header alone is.
LEMMA RequestsAreLong ==
  /\ Long(protocol_tx_gratuitous_arp_request)
  /\ Long(BeaconRequest)
  /\ \A mac, ip : Long(ArpReplyRequest(mac, ip))
<1>1. /\ Len(FPGA_MAC) \in Nat \ {0} /\ Len(FPGA_IP) \in Nat /\ Len(ARP_ETHERTYPE) \in Nat
      /\ Len(ArpRequestFields) \in Nat /\ Len(BeaconText(NoCounts)) \in Nat
  BY FramesAssumption
<1>2. ETH_HEADER_BYTES \in Nat /\ ETH_HEADER_BYTES >= 2 /\ ARP_PAYLOAD_BYTES \in Nat
  BY <1>1 DEF ETH_HEADER_BYTES, ARP_PAYLOAD_BYTES, MacBytes, IpBytes
<1>3. \A kind : protocol_tx_frame_body_len(kind) >= 2
  BY <1>1, <1>2 DEF protocol_tx_frame_body_len
<1>4. /\ protocol_tx_gratuitous_arp_request.len >= 2
      /\ protocol_tx_beacon_request.len >= 2
      /\ \A mac, ip : ArpReplyRequest(mac, ip).len >= 2
  BY <1>3 DEF protocol_tx_gratuitous_arp_request, protocol_tx_beacon_request,
              ArpReplyRequest, Request
<1>5. BeaconRequest.len = protocol_tx_beacon_request.len
  BY DEF BeaconRequest, protocol_tx_beacon_request, Request
<1>6. QED BY <1>4, <1>5, RequestsAreSized DEF Long

\* A request is under way after its first cycle if it found room, and nothing
\* has happened to the preparation otherwise; nothing is published yet.
LEMMA StartedRequest ==
  ASSUME SlotInv, NEW request, Long(request), ~prepare.active, Start(request)
  PROVE  /\ tx_queue'.write_idx = tx_queue.write_idx
         /\ TxRoom => prepare'.active /\ prepare'.request = request
         /\ ~TxRoom => prepare' = prepare
<1> DEFINE p == [active |-> TRUE, request |-> request, index |-> 0,
                 tx_idx |-> tx_queue.write_idx]
           stored == TQ!StoreByte(tx_queue, p.tx_idx, p.index,
                                  FrameBodyByte(p.request, p.index))
<1>1. CASE TxRoom
  <2>1. PrepareStep(p, tx_queue)
    BY <1>1 DEF Start, start_protocol_tx_request, TxRoom
  <2>2. tx_queue' = stored /\ prepare' = [p EXCEPT !.index = @ + 1]
    <3>1. p.active /\ p.request.len # 0 /\ p.index # p.request.len - 1
      BY DEF Long, Sized
    <3> HIDE DEF p
    <3>2. QED BY <2>1, <3>1 DEF PrepareStep
  <2>3. stored.write_idx = tx_queue.write_idx
    BY DEF TQ!StoreByte, TQ!Ring, SlotInv
  <2> HIDE DEF stored
  <2>4. QED BY <1>1, <2>2, <2>3
<1>2. CASE ~TxRoom
  <2>1. prepare' = prepare /\ tx_queue' = TQ!packet_queue_drop_write(tx_queue)
    BY <1>2 DEF Start, start_protocol_tx_request, TxRoom, PrepareStep
  <2>2. tx_queue'.write_idx = tx_queue.write_idx
    BY <2>1 DEF TQ!packet_queue_drop_write, TQ!Ring, SlotInv
  <2>3. QED BY <1>2, <2>1, <2>2
<1>3. QED BY <1>1, <1>2

\* A preparation under way goes on for the same request, or ends and
\* publishes.
LEMMA PreparationContinues ==
  ASSUME SlotInv, prepare.active, NothingStarted
  PROVE  \/ /\ prepare'.active /\ prepare'.request = prepare.request
            /\ tx_queue'.write_idx = tx_queue.write_idx
         \/ /\ ~prepare'.active
            /\ tx_queue'.write_idx = TQ!NextSlot(tx_queue.write_idx)
<1> DEFINE stored == TQ!StoreByte(tx_queue, prepare.tx_idx, prepare.index,
                                  FrameBodyByte(prepare.request, prepare.index))
<1>1. prepare.tx_idx \in TQ!Slot
  BY DEF SlotInv, OwnsWriteSlot, TQ!Ring
<1>2. TQ!Ring(stored) /\ stored.write_idx = tx_queue.write_idx /\ stored.valid = tx_queue.valid
  <2>1. TQ!Ring(tx_queue)
    BY DEF SlotInv
  <2>2. TQ!Ring(stored)
    BY <1>1, <2>1, StoreKeepsFlags, Zenon
  <2>3. stored.write_idx = tx_queue.write_idx /\ stored.valid = tx_queue.valid
    BY <2>1 DEF TQ!StoreByte, TQ!Ring
  <2>4. QED BY <2>2, <2>3
<1>3. TQ!packet_queue_write_slot_available(stored)
  BY <1>2 DEF SlotInv, OwnsWriteSlot, TQ!packet_queue_write_slot_available
<1>4. CASE prepare.request.len = 0 \/ prepare.index = prepare.request.len - 1
  <2>1. /\ tx_queue' = TQ!packet_queue_publish_write_slot(stored, prepare.request.len)
        /\ prepare' = [prepare EXCEPT !.active = FALSE, !.request.valid = FALSE,
                                      !.request.kind = "NONE"]
    BY <1>4 DEF NothingStarted, PrepareStep
  <2> HIDE DEF stored
  <2>2. tx_queue'.write_idx = TQ!NextSlot(tx_queue.write_idx)
    BY <1>2, <1>3, <2>1 DEF TQ!packet_queue_publish_write_slot, TQ!Ring,
                           TQ!packet_queue_write_slot_available
  <2>3. ~prepare'.active
    BY <2>1 DEF SlotInv, OwnsWriteSlot
  <2>4. QED BY <2>2, <2>3
<1>5. CASE ~(prepare.request.len = 0 \/ prepare.index = prepare.request.len - 1)
  <2>1. tx_queue' = stored /\ prepare' = [prepare EXCEPT !.index = @ + 1]
    BY <1>5 DEF NothingStarted, PrepareStep
  <2> HIDE DEF stored
  <2>2. QED BY <1>2, <2>1 DEF SlotInv, OwnsWriteSlot
<1>6. QED BY <1>4, <1>5

\* Without a preparation under way none appears and nothing is published.
LEMMA NothingUnderWay ==
  ASSUME ~prepare.active, NothingStarted
  PROVE  prepare' = prepare /\ tx_queue' = tx_queue
  BY DEF NothingStarted, PrepareStep

----------------------------------------------------------------------------
(* The numbers of the beacons. *)

PreparingBeacon == prepare.active /\ prepare.request.kind = "BEACON"

\* The handler counts a beacon when it starts, the observer when it is
\* published.  With a single slot the write index does not tell.
NumberInv ==
  /\ SlotInv /\ CountInv
  /\ beacons \in Count
  /\ TxSlots > 1 =>
       /\ counters.uptime_beacon = IF PreparingBeacon THEN RQ!Bump(beacons) ELSE beacons
       /\ PreparingBeacon => prepare.request.counts[7] = beacons

\* The kinds of the requests, and the number a beacon carries.
LEMMA RequestKinds ==
  /\ protocol_tx_gratuitous_arp_request.kind = "GRATUITOUS_ARP"
  /\ BeaconRequest.kind = "BEACON" /\ BeaconRequest.counts[7] = counters.uptime_beacon
  /\ \A mac, ip : ArpReplyRequest(mac, ip).kind = "ARP_REPLY"
  BY DEF protocol_tx_gratuitous_arp_request, BeaconRequest, protocol_tx_beacon_request,
         ArpReplyRequest, Request

\* What the observer of the publications does in a step.
Observed == beacons' = IF PublishesBeacon THEN TQ!Bump(beacons) ELSE beacons

\* What one cycle does to the number of beacons and the one under way.
LEMMA ClockNumbers ==
  ASSUME NumberInv, protocol_queue_step, Observed, TxSlots > 1
  PROVE  /\ PublishesBeacon => PreparingBeacon
         /\ counters'.uptime_beacon = IF PreparingBeacon' THEN RQ!Bump(beacons') ELSE beacons'
         /\ PreparingBeacon' => prepare'.request.counts[7] = beacons'
<1> DEFINE Goal == /\ PublishesBeacon => PreparingBeacon
                   /\ counters'.uptime_beacon
                        = IF PreparingBeacon' THEN RQ!Bump(beacons') ELSE beacons'
                   /\ PreparingBeacon' => prepare'.request.counts[7] = beacons'
<1>1. beacons' = IF PublishesBeacon THEN RQ!Bump(beacons) ELSE beacons
  BY DEF Observed, RQ!Bump, TQ!Bump
<1>2. /\ counters.uptime_beacon = IF PreparingBeacon THEN RQ!Bump(beacons) ELSE beacons
      /\ PreparingBeacon => prepare.request.counts[7] = beacons
  BY DEF NumberInv
<1>3. ASSUME ~prepare.active, NothingStarted, counters'.uptime_beacon = counters.uptime_beacon
      PROVE  Goal
  <2>1. prepare' = prepare /\ ~Published
    BY <1>3, NothingUnderWay DEF Published
  <2>2. QED BY <1>1, <1>2, <1>3, <2>1 DEF PublishesBeacon, PreparingBeacon
<1>4. ASSUME NEW request, Long(request), ~prepare.active, Start(request),
             request.kind # "BEACON", counters'.uptime_beacon = counters.uptime_beacon
      PROVE  Goal
  <2>1. ~Published /\ (prepare' = prepare \/ prepare'.request = request)
    BY <1>4, StartedRequest DEF Published, NumberInv
  <2>2. QED BY <1>1, <1>2, <1>4, <2>1 DEF PublishesBeacon, PreparingBeacon
<1>5. CASE Preparing
  <2>1. tx_queue.write_idx \in TQ!Slot
    BY DEF NumberInv, SlotInv, TQ!Ring
  <2>2. TQ!NextSlot(tx_queue.write_idx) # tx_queue.write_idx
    BY <2>1, RingSizes, TQ!NextSlotType
  <2>3. prepare.active /\ counters' = counters
    BY <1>5 DEF Preparing
  <2>4. \/ prepare'.active /\ prepare'.request = prepare.request /\ ~Published
        \/ ~prepare'.active /\ Published
    BY <1>5, <2>2, PreparationContinues DEF Preparing, NumberInv, Published
  <2>5. QED BY <1>1, <1>2, <2>3, <2>4 DEF PublishesBeacon, PreparingBeacon
<1>6. CASE DropWaiting
  <2>1. counters'.uptime_beacon = counters.uptime_beacon
    BY <1>6 DEF DropWaiting, NumberInv, CountInv, Counters
  <2>2. QED BY <1>3, <1>6, <2>1 DEF DropWaiting, Free
<1>7. CASE BeginParse
  <2>1. counters'.uptime_beacon = counters.uptime_beacon
    BY <1>7 DEF BeginParse, NumberInv, CountInv, Counters
  <2>2. QED BY <1>3, <1>7, <2>1 DEF BeginParse, Free
<1>8. CASE SendGratuitousArp
  BY <1>4, <1>8, RequestsAreLong, RequestKinds DEF SendGratuitousArp, Free
<1>9. CASE SendBeacon
  <2>1. ~prepare.active /\ ~PreparingBeacon /\ Start(BeaconRequest)
    BY <1>9 DEF SendBeacon, Free, PreparingBeacon
  <2>2. /\ ~Published
        /\ TxRoom => prepare'.active /\ prepare'.request = BeaconRequest
        /\ ~TxRoom => prepare' = prepare
    BY <2>1, RequestsAreLong, StartedRequest DEF NumberInv, Published
  <2>3. /\ TxRoom => counters'.uptime_beacon = RQ!Bump(counters.uptime_beacon)
        /\ ~TxRoom => counters' = counters
    BY <1>9 DEF SendBeacon, TxRoom, NumberInv, CountInv, Counters
  <2>4. beacons' = beacons /\ counters.uptime_beacon = beacons
    BY <1>1, <1>2, <2>1, <2>2 DEF PublishesBeacon
  <2>5. QED
    BY <2>1, <2>2, <2>3, <2>4, RequestKinds DEF PublishesBeacon, PreparingBeacon
<1>10. CASE NothingToDo
  BY <1>3, <1>10 DEF NothingToDo, Free
<1>11. CASE ParseArpByte
  BY <1>3, <1>11 DEF ParseArpByte
<1>12. CASE FinishArp
  <2>1. counters'.uptime_beacon = counters.uptime_beacon /\ ~prepare.active
    BY <1>12 DEF FinishArp, NumberInv, CountInv, Counters
  <2>2. NothingStarted \/ \E mac, ip : Start(ArpReplyRequest(mac, ip))
    BY <1>12 DEF FinishArp
  <2>3. QED BY <1>3, <1>4, <2>1, <2>2, RequestsAreLong, RequestKinds
<1>13. QED
  BY <1>5, <1>6, <1>7, <1>8, <1>9, <1>10, <1>11, <1>12 DEF protocol_queue_step

\* With one slot the write index never moves.
LEMMA OneSlotNeverMoves ==
  ASSUME SlotInv, protocol_queue_step \/ Rely, tx_queue'.write_idx # tx_queue.write_idx
  PROVE  TxSlots > 1
<1>1. tx_queue.write_idx \in TQ!Slot /\ tx_queue'.write_idx \in TQ!Slot
  BY SlotsNext DEF SlotInv, TQ!Ring
<1>2. QED BY <1>1, RingSizes DEF TQ!Slot

\* Nor does a neighbour move it.
LEMMA RelyKeepsIndex ==
  ASSUME Rely
  PROVE  tx_queue'.write_idx = tx_queue.write_idx
  BY DEF Rely, TQ!ByConsumer

\* At first no beacon is published and none is under way.
LEMMA NumbersAtFirst ==
  ASSUME AtRest, beacons = 0
  PROVE  NumberInv
<1>1. 0 \in Count
  BY HandlerAssumption DEF Count
<1>2. counters.uptime_beacon = beacons /\ beacons \in Count /\ ~PreparingBeacon
  BY <1>1 DEF AtRest, Init, PreparingBeacon
<1>3. SlotInv /\ CountInv
  BY SlotsAtFirst, CountsAtFirst DEF AtRest
<1>4. QED BY <1>2, <1>3 DEF NumberInv

\* A step of the handler, or of a neighbour, which publishes nothing.
LEMMA NumbersNext ==
  ASSUME NumberInv, protocol_queue_step \/ Rely, Observed
  PROVE  /\ NumberInv'
         /\ PublishesBeacon => prepare.request.counts[7] = beacons
<1>1. SlotInv' /\ CountInv'
  BY SlotsNext, CountsNext DEF NumberInv, Rely
<1>2. beacons' \in Count
  BY BumpWraps DEF Observed, NumberInv, RQ!Bump, TQ!Bump
<1>3. CASE protocol_queue_step
  <2>1. NumberInv'
    BY <1>1, <1>2, <1>3, ClockNumbers DEF NumberInv
  <2>2. ASSUME PublishesBeacon PROVE prepare.request.counts[7] = beacons
    <3>1. TxSlots > 1
      BY <1>3, <2>2, OneSlotNeverMoves DEF NumberInv, PublishesBeacon, Published
    <3>2. PreparingBeacon
      BY <1>3, <2>2, <3>1, ClockNumbers
    <3>3. QED BY <3>1, <3>2 DEF NumberInv
  <2>3. QED BY <2>1, <2>2
<1>4. CASE Rely
  <2>1. ~PublishesBeacon
    BY <1>4, RelyKeepsIndex DEF PublishesBeacon, Published
  <2>2. UNCHANGED << prepare, counters, beacons >>
    BY <1>4, <2>1 DEF Rely, Observed, handlerVars
  <2>3. QED BY <1>1, <2>1, <2>2 DEF NumberInv, PreparingBeacon
<1>5. QED BY <1>3, <1>4

\* Every beacon published carries the number of beacons published before it,
\* modulo the width of the counter, for every size of the rings and whatever
\* the neighbours do (ethernet_protocol_handler.h:129-138).
THEOREM BeaconNumbers == EnvSafety => BeaconsAreNumbered
<1>1. EnvInit => NumberInv
  BY EnvAtRest, NumbersAtFirst DEF EnvInit
<1>2. NumberInv /\ [EnvNext]_envVars
        => /\ NumberInv'
           /\ [PublishesBeacon => prepare.request.counts[7] = beacons]_envVars
  <2> SUFFICES ASSUME NumberInv, [EnvNext]_envVars
               PROVE  /\ NumberInv'
                      /\ PublishesBeacon => prepare.request.counts[7] = beacons
    OBVIOUS
  <2>1. protocol_queue_step \/ Rely
    BY EnvStepIsRely DEF NumberInv
  <2>2. CASE Clock
    BY <2>1, <2>2, NumbersNext DEF Clock, Observed
  <2>3. CASE ~Clock
    <3>1. tx_queue'.write_idx = tx_queue.write_idx /\ beacons' = beacons
      BY <2>3, ReceiverIsRely, TransmitterIsRely, RelyKeepsIndex
      DEF EnvNext, NumberInv, Receive, Transmit, envVars, protoVars
    <3>2. Observed
      BY <3>1 DEF Observed, PublishesBeacon, Published
    <3>3. QED BY <2>1, <3>2, NumbersNext
  <2>4. QED BY <2>2, <2>3
<1>3. QED BY <1>1, <1>2, PTL DEF EnvSafety, BeaconsAreNumbered

----------------------------------------------------------------------------
(* The streamed parse. *)

\* The bytes of an ARP packet the handler keeps: all but the target MAC.
Kept == (0 .. ARP_PAYLOAD_BYTES - 1) \ (TargetMacAt .. TargetIpAt - 1)

ParseInv ==
  /\ SlotInv
  /\ DOMAIN parse = {"rx_idx", "index", "arp"}
  /\ DOMAIN parse.arp = 0 .. ARP_PAYLOAD_BYTES - 1
  /\ protocol_state = "PROTO_PARSE_ARP" =>
       /\ parse.index \in 0 .. ARP_PAYLOAD_BYTES - 1
       /\ \A i \in Kept : i < parse.index => parse.arp[i] = rx_queue.bytes[parse.rx_idx][i]

\* Where the fields of an ARP packet are.
LEMMA ArpLayout ==
  /\ Len(ArpRequestFields) \in Nat /\ MacBytes \in Nat \ {0} /\ IpBytes \in Nat
  /\ SenderMacAt = Len(ArpRequestFields)
  /\ SenderIpAt = SenderMacAt + MacBytes /\ TargetMacAt = SenderIpAt + IpBytes
  /\ TargetIpAt = TargetMacAt + MacBytes
  /\ ARP_PAYLOAD_BYTES = TargetIpAt + IpBytes
<1>1. Len(ArpRequestFields) \in Nat /\ MacBytes \in Nat \ {0} /\ IpBytes \in Nat
  BY FramesAssumption DEF MacBytes, IpBytes
<1>2. QED
  BY <1>1 DEF SenderMacAt, SenderIpAt, TargetMacAt, TargetIpAt, ARP_PAYLOAD_BYTES

\* Two arrays that agree on the bytes kept agree on the fields compared and
\* copied.
LEMMA FieldsAgree ==
  ASSUME NEW a, NEW b, \A i \in Kept : a[i] = b[i]
  PROVE  /\ Field(a, 0, Len(ArpRequestFields)) = Field(b, 0, Len(ArpRequestFields))
         /\ Field(a, SenderMacAt, MacBytes) = Field(b, SenderMacAt, MacBytes)
         /\ Field(a, SenderIpAt, IpBytes) = Field(b, SenderIpAt, IpBytes)
         /\ Field(a, TargetIpAt, IpBytes) = Field(b, TargetIpAt, IpBytes)
<1>1. ASSUME NEW at \in Nat, NEW n \in Nat, \A k \in 1 .. n : at + k - 1 \in Kept
      PROVE  Field(a, at, n) = Field(b, at, n)
  <2>1. \A k \in 1 .. n : a[at + k - 1] = b[at + k - 1]
    BY <1>1
  <2>2. QED BY <2>1 DEF Field
<1>2. /\ \A k \in 1 .. Len(ArpRequestFields) : 0 + k - 1 \in Kept
      /\ \A k \in 1 .. MacBytes : SenderMacAt + k - 1 \in Kept
      /\ \A k \in 1 .. IpBytes : SenderIpAt + k - 1 \in Kept
      /\ \A k \in 1 .. IpBytes : TargetIpAt + k - 1 \in Kept
  BY ArpLayout DEF Kept
<1>3. /\ 0 \in Nat /\ SenderMacAt \in Nat /\ SenderIpAt \in Nat /\ TargetIpAt \in Nat
      /\ Len(ArpRequestFields) \in Nat /\ MacBytes \in Nat /\ IpBytes \in Nat
  BY ArpLayout
<1>4. QED BY <1>1, <1>2, <1>3, Zenon

\* The byte of this cycle joins those before it.
LEMMA ArpBytesGrow ==
  ASSUME ParseInv, protocol_state = "PROTO_PARSE_ARP"
  PROVE  /\ DOMAIN ArpBytes = 0 .. ARP_PAYLOAD_BYTES - 1
         /\ \A i \in Kept : i <= parse.index => ArpBytes[i] = rx_queue.bytes[parse.rx_idx][i]
<1>1. parse.index \in 0 .. ARP_PAYLOAD_BYTES - 1 /\ ARP_PAYLOAD_BYTES \in Nat
  BY ArpLayout DEF ParseInv
<1>2. DOMAIN ArpBytes = 0 .. ARP_PAYLOAD_BYTES - 1
  BY DEF ArpBytes, ParseInv
<1>3. ASSUME NEW i \in Kept, i <= parse.index
      PROVE  ArpBytes[i] = rx_queue.bytes[parse.rx_idx][i]
  <2>1. i \in Nat /\ i \in 0 .. ARP_PAYLOAD_BYTES - 1
        /\ i \notin TargetMacAt .. TargetIpAt - 1
    BY <1>1 DEF Kept
  <2>2. CASE i = parse.index
    BY <2>1, <2>2 DEF ArpBytes, ParseInv
  <2>3. CASE i < parse.index
    <3>1. parse.arp[i] = rx_queue.bytes[parse.rx_idx][i]
      BY <1>3, <2>3 DEF ParseInv
    <3>2. ArpBytes[i] = parse.arp[i]
      BY <1>1, <2>1, <2>3 DEF ArpBytes, ParseInv
    <3>3. QED BY <3>1, <3>2
  <2>4. QED BY <1>1, <1>3, <2>1, <2>2, <2>3
<1>4. QED BY <1>2, <1>3

\* No step of the handler or of a neighbour makes the bytes kept differ from
\* those in the slot.
LEMMA ParseNext ==
  ASSUME ParseInv, protocol_queue_step \/ Rely
  PROVE  ParseInv'
<1>1. SlotInv'
  BY SlotsNext DEF ParseInv
<1>2. CASE UNCHANGED << parse, protocol_state >> /\ rx_queue' = rx_queue
  BY <1>1, <1>2 DEF ParseInv
<1>3. CASE protocol_state' = "PROTO_IDLE" /\ UNCHANGED parse
  BY <1>1, <1>3 DEF ParseInv
<1>4. CASE BeginParse
  <2>1. parse' = [rx_idx |-> rx_queue.read_idx, index |-> 0,
                  arp |-> [i \in 0 .. ARP_PAYLOAD_BYTES - 1 |-> 0]]
    BY <1>4 DEF BeginParse
  <2>2. 0 \in 0 .. ARP_PAYLOAD_BYTES - 1 /\ \A i \in Kept : ~(i < 0)
    BY ArpLayout DEF Kept
  <2>3. QED BY <1>1, <2>1, <2>2 DEF ParseInv
<1>5. CASE ParseArpByte
  <2>1. /\ parse' = [parse EXCEPT !.arp = ArpBytes, !.index = @ + 1]
        /\ protocol_state = "PROTO_PARSE_ARP" /\ rx_queue' = rx_queue
        /\ parse.index # ARP_PAYLOAD_BYTES - 1
    BY <1>5 DEF ParseArpByte, LastArpByte
  <2>2. /\ DOMAIN parse' = {"rx_idx", "index", "arp"}
        /\ parse'.arp = ArpBytes /\ parse'.index = parse.index + 1
        /\ parse'.rx_idx = parse.rx_idx
    BY <2>1 DEF ParseInv
  <2>3. parse.index \in 0 .. ARP_PAYLOAD_BYTES - 1 /\ ARP_PAYLOAD_BYTES \in Nat
    BY <2>1, ArpLayout DEF ParseInv
  <2>4. parse'.index \in 0 .. ARP_PAYLOAD_BYTES - 1
    BY <2>1, <2>2, <2>3
  <2>5. \A i \in Kept : i < parse'.index => i <= parse.index
    BY <2>2, <2>3 DEF Kept
  <2>6. QED BY <1>1, <2>1, <2>2, <2>4, <2>5, ArpBytesGrow DEF ParseInv
<1>6. CASE FinishArp
  <2>1. /\ parse' = [parse EXCEPT !.arp = ArpBytes]
        /\ protocol_state = "PROTO_PARSE_ARP" /\ protocol_state' = "PROTO_IDLE"
    BY <1>6 DEF FinishArp
  <2>2. DOMAIN parse' = {"rx_idx", "index", "arp"} /\ parse'.arp = ArpBytes
    BY <2>1 DEF ParseInv
  <2>3. QED BY <1>1, <2>1, <2>2, ArpBytesGrow DEF ParseInv
<1>7. CASE Rely
  <2>1. UNCHANGED << parse, protocol_state >>
    BY <1>7 DEF Rely, handlerVars
  <2>2. protocol_state = "PROTO_PARSE_ARP" =>
          rx_queue'.bytes[parse.rx_idx] = rx_queue.bytes[parse.rx_idx]
    BY <1>7, RelyKeepsSlots DEF ParseInv
  <2>3. QED BY <1>1, <2>1, <2>2 DEF ParseInv
<1>8. QED
  BY <1>2, <1>3, <1>4, <1>5, <1>6, <1>7
  DEF protocol_queue_step, Preparing, DropWaiting, SendGratuitousArp, SendBeacon,
      NothingToDo, Free

\* A reply starts at the end of a parse and nowhere else.
LEMMA WhoReplies ==
  ASSUME SlotInv, protocol_queue_step \/ Rely, Starts("ARP_REPLY")
  PROVE  FinishArp
<1>1. ~prepare.active /\ prepare'.active /\ prepare'.request.kind = "ARP_REPLY"
  BY DEF Starts
<1>2. ~NothingStarted
  BY <1>1, NothingUnderWay
<1>3. ASSUME NEW request, Long(request), Start(request) PROVE request.kind = "ARP_REPLY"
  BY <1>1, <1>3, StartedRequest
<1>4. ~SendGratuitousArp /\ ~SendBeacon
  BY <1>3, RequestsAreLong, RequestKinds DEF SendGratuitousArp, SendBeacon
<1>5. prepare' # prepare
  BY <1>1
<1>6. QED
  BY <1>2, <1>4, <1>5
  DEF Rely, handlerVars, protocol_queue_step, Preparing, DropWaiting, BeginParse,
      NothingToDo, ParseArpByte

\* At its end the verdict and the reply are those of the whole packet.
LEMMA FinishedParse ==
  ASSUME ParseInv, FinishArp
  PROVE  VerdictIsTheParse
<1> DEFINE info == ArpRequestInfo(rx_queue.bytes[rx_queue.read_idx])
           finishes == protocol_state = "PROTO_PARSE_ARP" /\ protocol_state' = "PROTO_IDLE"
           Correct == /\ Starts("ARP_REPLY") => finishes
                      /\ finishes => (Starts("ARP_REPLY") <=> info.valid /\ TxRoom)
                      /\ Starts("ARP_REPLY") =>
                           /\ prepare'.request.arp_requester_mac = info.sender_mac
                           /\ prepare'.request.header.dst_mac = info.sender_mac
                           /\ prepare'.request.arp_requester_ip = info.sender_ip
           bytes == rx_queue.bytes[rx_queue.read_idx]
           mac == Field(bytes, SenderMacAt, MacBytes)
           ip == Field(bytes, SenderIpAt, IpBytes)
<1> SUFFICES Correct
  BY DEF VerdictIsTheParse
<1>1. /\ protocol_state = "PROTO_PARSE_ARP" /\ ~prepare.active /\ LastArpByte
      /\ finishes
  BY DEF FinishArp
<1>2. \A i \in Kept : ArpBytes[i] = bytes[i]
  <2>1. parse.rx_idx = rx_queue.read_idx
    BY <1>1 DEF ParseInv, SlotInv, OwnsReadSlot
  <2>2. \A i \in Kept : i <= parse.index
    BY <1>1, ArpLayout DEF Kept, LastArpByte
  <2>3. QED BY <1>1, <2>1, <2>2, ArpBytesGrow
<1>3. /\ ArpValid(ArpBytes) <=> info.valid
      /\ Field(ArpBytes, SenderMacAt, MacBytes) = mac
      /\ Field(ArpBytes, SenderIpAt, IpBytes) = ip
  BY <1>2, FieldsAgree DEF ArpValid, ArpRequestInfo
<1>4. info.sender_mac = mac /\ info.sender_ip = ip
  BY DEF ArpRequestInfo
<1>5. CASE info.valid
  <2>1. Start(ArpReplyRequest(mac, ip))
    BY <1>3, <1>5 DEF FinishArp
  <2>2. /\ TxRoom => prepare'.active /\ prepare'.request = ArpReplyRequest(mac, ip)
        /\ ~TxRoom => prepare' = prepare
    BY <1>1, <2>1, RequestsAreLong, StartedRequest DEF ParseInv
  <2>3. /\ ArpReplyRequest(mac, ip).kind = "ARP_REPLY"
        /\ ArpReplyRequest(mac, ip).arp_requester_mac = mac
        /\ ArpReplyRequest(mac, ip).header.dst_mac = mac
        /\ ArpReplyRequest(mac, ip).arp_requester_ip = ip
    BY DEF ArpReplyRequest, Request
  <2> HIDE DEF mac, ip, info
  <2>4. Correct
    BY <1>1, <1>4, <1>5, <2>2, <2>3 DEF Starts
  <2>5. QED BY <2>4
<1>6. CASE ~info.valid
  <2>1. prepare' = prepare
    BY <1>1, <1>3, <1>6, NothingUnderWay DEF FinishArp
  <2>2. QED BY <1>1, <1>6, <2>1 DEF Starts
<1>7. QED BY <1>5, <1>6

\* Before its end, and between two parses, there is no verdict.
LEMMA VerdictStep ==
  ASSUME ParseInv, protocol_queue_step \/ Rely
  PROVE  VerdictIsTheParse
<1>1. CASE FinishArp
  BY <1>1, FinishedParse
<1>2. CASE ~FinishArp
  <2>1. ~Starts("ARP_REPLY")
    BY <1>2, WhoReplies DEF ParseInv
  <2>2. ~(protocol_state = "PROTO_PARSE_ARP" /\ protocol_state' = "PROTO_IDLE")
    BY <1>2 DEF Rely, handlerVars, protocol_queue_step,
                Preparing, DropWaiting, BeginParse, SendGratuitousArp, SendBeacon,
                NothingToDo, ParseArpByte, Free, ParseInv, SlotInv, OwnsReadSlot
  <2>3. QED BY <2>1, <2>2 DEF VerdictIsTheParse
<1>3. QED BY <1>1, <1>2

\* At first nothing is parsed.
LEMMA ParseAtFirst ==
  ASSUME AtRest
  PROVE  ParseInv
<1>1. SlotInv
  BY SlotsAtFirst
<1>2. QED BY <1>1 DEF AtRest, Init, ParseInv

\* The verdict and the reply of the byte-by-byte parse are those of the whole
\* packet, for every layout of an ARP packet and every interleaving with the
\* receiver and the transmitter (ethernet_protocol_handler.h:141-251).
THEOREM ParseIsParse == EnvSafety => StreamedParseIsParse
<1>1. EnvInit => ParseInv
  BY EnvAtRest, ParseAtFirst
<1>2. ParseInv /\ [EnvNext]_envVars => ParseInv' /\ VerdictIsTheParse
  BY EnvStepIsRely, ParseNext, VerdictStep DEF ParseInv
<1>3. QED BY <1>1, <1>2, PTL DEF EnvSafety, StreamedParseIsParse

----------------------------------------------------------------------------
(* The frame bodies. *)

\* The array a sequence is read from, and back.
Listed(s, n) == s = [i \in 1 .. n |-> s[i]]

\* The requests the handler makes.
Announces(r) == r = protocol_tx_gratuitous_arp_request

Reports(r) ==
  /\ r = [protocol_tx_beacon_request EXCEPT !.counts = r.counts]
  /\ r.counts \in [1 .. 7 -> Count]

Answers(r) ==
  /\ r = ArpReplyRequest(r.arp_requester_mac, r.arp_requester_ip)
  /\ Listed(r.arp_requester_mac, MacBytes) /\ Listed(r.arp_requester_ip, IpBytes)

Made(r) == Announces(r) \/ Reports(r) \/ Answers(r)

\* The first n bytes of a slot are those of a request's frame.
Stores(bytes, r, n) == \A i \in BodyIndex : i < n => bytes[i] = FrameBodyByte(r, i)

BodySlots(q) == \A s \in TQ!Slot : DOMAIN q.bytes[s] = BodyIndex

\* A preparation fills the slot of ring q with the frame of its request.
Fills(p, q) ==
  /\ BodySlots(q)
  /\ p.active => Made(p.request) /\ Stores(q.bytes[p.tx_idx], p.request, p.index)

\* The strengthening of PublishedBodyIsTheRequest.
BodyInv ==
  /\ SlotInv /\ CountInv
  /\ rx_queue.drop_count \in Count /\ tx_queue.drop_count \in Count
  /\ Fills(prepare, tx_queue)

\* A list read from an array is a sequence.
LEMMA ListedIsSeq ==
  ASSUME NEW n \in Nat, NEW s, Listed(s, n)
  PROVE  Len(s) = n /\ s \in Seq({ s[i] : i \in 1 .. n })
<1> DEFINE U == { s[i] : i \in 1 .. n }
<1>1. s \in [1 .. n -> U]
  BY DEF Listed
<1> HIDE DEF U
<1>2. s \in Seq(U) /\ Len(s) = n
  BY <1>1
<1>3. QED BY <1>2 DEF U

\* The frame of a request, header and payload.
HeaderOf(r) == r.header.dst_mac \o r.header.src_mac \o r.header.ethertype

PayloadOf(r) ==
  IF r.kind \in {"ARP_REPLY", "GRATUITOUS_ARP"}
    THEN ArpReplyPayload(r.arp_requester_mac, r.arp_requester_ip)
    ELSE BeaconText(r.counts)

\* A header and a payload of the lengths the request says.
Consistent(r) ==
  \E U : /\ HeaderOf(r) \in Seq(U) /\ PayloadOf(r) \in Seq(U)
         /\ Len(HeaderOf(r)) = ETH_HEADER_BYTES
         /\ Len(HeaderOf(r)) + Len(PayloadOf(r)) = r.len

\* Header bytes and payload bytes one after the other are the frame.
LEMMA BytesMakeTheFrame ==
  ASSUME NEW r, Consistent(r)
  PROVE  [i \in 1 .. r.len |-> FrameBodyByte(r, i - 1)] = HeaderOf(r) \o PayloadOf(r)
<1> DEFINE h == HeaderOf(r)
           p == PayloadOf(r)
<1>1. PICK U : /\ h \in Seq(U) /\ p \in Seq(U) /\ Len(h) = ETH_HEADER_BYTES
               /\ Len(h) + Len(p) = r.len
  BY DEF Consistent
<1>2. ASSUME NEW i \in Nat
      PROVE  FrameBodyByte(r, i) = IF i < ETH_HEADER_BYTES
                                     THEN h[i + 1] ELSE p[i - ETH_HEADER_BYTES + 1]
  BY DEF FrameBodyByte, ethernet_header_byte, protocol_tx_payload_byte, HeaderOf, PayloadOf
<1> HIDE DEF h, p
<1>3. /\ h \o p \in Seq(U) /\ Len(h \o p) = r.len
      /\ \A i \in 1 .. Len(h) + Len(p) : (h \o p)[i] =
           IF i <= Len(h) THEN h[i] ELSE p[i - Len(h)]
  BY <1>1, ConcatProperties
<1>4. Len(h) \in Nat /\ r.len \in Nat
  BY <1>1, <1>3
<1>5. ASSUME NEW i \in 1 .. r.len PROVE FrameBodyByte(r, i - 1) = (h \o p)[i]
  <2>1. i \in Nat /\ i - 1 \in Nat /\ i \in 1 .. Len(h) + Len(p)
    BY <1>1, <1>4
  <2>2. FrameBodyByte(r, i - 1) = IF i - 1 < Len(h) THEN h[i - 1 + 1]
                                                    ELSE p[i - 1 - Len(h) + 1]
    BY <1>1, <1>2, <2>1
  <2>3. /\ i - 1 < Len(h) <=> i <= Len(h)
        /\ i - 1 + 1 = i /\ i - 1 - Len(h) + 1 = i - Len(h)
    BY <1>4, <2>1
  <2>4. QED BY <1>3, <2>1, <2>2, <2>3
<1>6. h \o p = [i \in 1 .. r.len |-> (h \o p)[i]]
  <2> DEFINE s == h \o p
  <2>1. s \in Seq(U) /\ Len(s) = r.len
    BY <1>3
  <2> HIDE DEF s
  <2>2. s = [i \in 1 .. r.len |-> s[i]]
    BY <2>1
  <2>3. QED BY <2>2 DEF s
<1>7. QED BY <1>5, <1>6 DEF h, p

\* Every request the handler makes has a header and a payload of the lengths
\* it says, and fits a slot.
LEMMA MadeIsConsistent ==
  ASSUME NEW r, Made(r)
  PROVE  Consistent(r) /\ r.len <= TX_FRAME_BODY_BYTES
<1>1. /\ FPGA_MAC \in Seq(Nat) /\ Len(FPGA_MAC) = MacBytes /\ MacBytes \in Nat
      /\ BROADCAST_MAC \in Seq(Nat) /\ Len(BROADCAST_MAC) = MacBytes
      /\ FPGA_IP \in Seq(Nat) /\ Len(FPGA_IP) = IpBytes /\ IpBytes \in Nat
      /\ ARP_ETHERTYPE \in Seq(Nat) /\ DIAGNOSTIC_BEACON_ETHERTYPE \in Seq(Nat)
      /\ Len(DIAGNOSTIC_BEACON_ETHERTYPE) = Len(ARP_ETHERTYPE)
      /\ ArpReplyFields \in Seq(Nat) /\ Len(ArpReplyFields) = Len(ArpRequestFields)
      /\ Len(ArpRequestFields) \in Nat /\ Len(ARP_ETHERTYPE) \in Nat
  BY FramesAssumption, WidthsAssumption DEF MacBytes, IpBytes
<1>4. /\ protocol_tx_frame_body_len("BEACON") = ETH_HEADER_BYTES + Len(BeaconText(NoCounts))
      /\ protocol_tx_frame_body_len("GRATUITOUS_ARP") = ETH_HEADER_BYTES + ARP_PAYLOAD_BYTES
      /\ protocol_tx_frame_body_len("ARP_REPLY") = ETH_HEADER_BYTES + ARP_PAYLOAD_BYTES
      /\ ETH_HEADER_BYTES = 2 * MacBytes + Len(ARP_ETHERTYPE)
      /\ ARP_PAYLOAD_BYTES = Len(ArpRequestFields) + 2 * (MacBytes + IpBytes)
  BY DEF protocol_tx_frame_body_len, ETH_HEADER_BYTES, ARP_PAYLOAD_BYTES
<1>5. ASSUME NEW U, Nat \subseteq U, NEW mac \in Seq(U), Len(mac) = MacBytes,
             NEW ip \in Seq(U), Len(ip) = IpBytes,
             r.header.dst_mac \in Seq(U), Len(r.header.dst_mac) = MacBytes,
             r.header.src_mac = FPGA_MAC, r.header.ethertype = ARP_ETHERTYPE,
             PayloadOf(r) = ArpReplyPayload(mac, ip),
             r.len = ETH_HEADER_BYTES + ARP_PAYLOAD_BYTES
      PROVE  Consistent(r) /\ r.len <= TX_FRAME_BODY_BYTES
  <2>1. /\ FPGA_MAC \in Seq(U) /\ FPGA_IP \in Seq(U) /\ ARP_ETHERTYPE \in Seq(U)
        /\ ArpReplyFields \in Seq(U)
    BY <1>1, <1>5
  <2>2. /\ HeaderOf(r) \in Seq(U)
        /\ Len(HeaderOf(r)) = MacBytes + MacBytes + Len(ARP_ETHERTYPE)
    <3>1. HeaderOf(r) = r.header.dst_mac \o FPGA_MAC \o ARP_ETHERTYPE
      BY <1>5 DEF HeaderOf
    <3>2. r.header.dst_mac \in Seq(U) /\ FPGA_MAC \in Seq(U) /\ ARP_ETHERTYPE \in Seq(U)
      BY <1>5, <2>1
    <3>3. /\ HeaderOf(r) \in Seq(U)
          /\ Len(HeaderOf(r)) = Len(r.header.dst_mac) + Len(FPGA_MAC) + Len(ARP_ETHERTYPE)
      BY ONLY <3>1, <3>2
    <3>4. QED BY <1>1, <1>5, <3>3
  <2>3. /\ PayloadOf(r) \in Seq(U)
        /\ Len(PayloadOf(r)) = Len(ArpRequestFields) + MacBytes + IpBytes + MacBytes + IpBytes
    <3>1. PayloadOf(r) = ArpReplyFields \o FPGA_MAC \o FPGA_IP \o mac \o ip
      BY <1>5 DEF ArpReplyPayload
    <3>2. mac \in Seq(U) /\ ip \in Seq(U)
      BY <1>5
    <3>3. /\ PayloadOf(r) \in Seq(U)
          /\ Len(PayloadOf(r))
               = Len(ArpReplyFields) + Len(FPGA_MAC) + Len(FPGA_IP) + Len(mac) + Len(ip)
      BY ONLY <2>1, <3>1, <3>2
    <3>4. QED BY <1>1, <1>5, <3>3
  <2>4. /\ Len(HeaderOf(r)) = ETH_HEADER_BYTES
        /\ Len(HeaderOf(r)) + Len(PayloadOf(r)) = r.len
    BY <1>1, <1>4, <1>5, <2>2, <2>3
  <2>5. r.len <= TX_FRAME_BODY_BYTES
    BY <1>5, BodiesAssumption
  <2>6. QED BY <2>2, <2>3, <2>4, <2>5 DEF Consistent
<1>6. CASE Announces(r)
  <2>1. /\ r.header.dst_mac = BROADCAST_MAC /\ r.header.src_mac = FPGA_MAC
        /\ r.header.ethertype = ARP_ETHERTYPE
        /\ r.kind = "GRATUITOUS_ARP" /\ r.len = ETH_HEADER_BYTES + ARP_PAYLOAD_BYTES
        /\ r.arp_requester_mac = BROADCAST_MAC /\ r.arp_requester_ip = FPGA_IP
    BY <1>4, <1>6 DEF Announces, protocol_tx_gratuitous_arp_request, Request
  <2>2. PayloadOf(r) = ArpReplyPayload(BROADCAST_MAC, FPGA_IP)
    BY <2>1 DEF PayloadOf
  <2>3. QED BY <1>1, <1>5, <2>1, <2>2
<1>7. CASE Answers(r)
  <2> DEFINE mac == r.arp_requester_mac
             ip == r.arp_requester_ip
             M == { mac[i] : i \in 1 .. MacBytes }
             I == { ip[i] : i \in 1 .. IpBytes }
             U == Nat \cup M \cup I
  <2>1. /\ r.header.dst_mac = mac /\ r.header.src_mac = FPGA_MAC
        /\ r.header.ethertype = ARP_ETHERTYPE
        /\ r.kind = "ARP_REPLY" /\ r.len = ETH_HEADER_BYTES + ARP_PAYLOAD_BYTES
    BY <1>4, <1>7 DEF Answers, ArpReplyRequest, Request
  <2>2. PayloadOf(r) = ArpReplyPayload(mac, ip)
    BY <2>1 DEF PayloadOf
  <2>3. Listed(mac, MacBytes) /\ Listed(ip, IpBytes)
    BY <1>7 DEF Answers
  <2> HIDE DEF mac, ip
  <2>4. mac \in Seq(M) /\ Len(mac) = MacBytes /\ ip \in Seq(I) /\ Len(ip) = IpBytes
    BY <1>1, <2>3, ListedIsSeq
  <2> HIDE DEF M, I
  <2>5. mac \in Seq(U) /\ ip \in Seq(U) /\ Nat \subseteq U
    BY <2>4
  <2> HIDE DEF U
  <2>6. QED BY <1>5, <2>1, <2>2, <2>4, <2>5
<1>8. CASE Reports(r)
  <2>1. /\ r.header.dst_mac = BROADCAST_MAC /\ r.header.src_mac = FPGA_MAC
        /\ r.header.ethertype = DIAGNOSTIC_BEACON_ETHERTYPE
        /\ r.kind = "BEACON" /\ r.len = ETH_HEADER_BYTES + Len(BeaconText(NoCounts))
    <3>1. DOMAIN protocol_tx_beacon_request = RequestFields
      BY DEF protocol_tx_beacon_request, Request, RequestFields
    <3>2. /\ r.header = protocol_tx_beacon_request.header
          /\ r.kind = protocol_tx_beacon_request.kind
          /\ r.len = protocol_tx_beacon_request.len
      BY <1>8, <3>1 DEF Reports, RequestFields
    <3>3. QED BY <1>4, <3>2 DEF protocol_tx_beacon_request, Request
  <2>2. PayloadOf(r) = BeaconText(r.counts)
    BY <2>1 DEF PayloadOf
  <2>3. /\ BeaconText(r.counts) \in Seq(Nat)
        /\ Len(BeaconText(r.counts)) = Len(BeaconText(NoCounts))
    BY <1>8, BodiesAssumption DEF Reports, Count
  <2>4. /\ HeaderOf(r) \in Seq(Nat)
        /\ Len(HeaderOf(r)) = MacBytes + MacBytes + Len(ARP_ETHERTYPE)
    <3>1. HeaderOf(r) = BROADCAST_MAC \o FPGA_MAC \o DIAGNOSTIC_BEACON_ETHERTYPE
      BY <2>1 DEF HeaderOf
    <3>2. /\ BROADCAST_MAC \in Seq(Nat) /\ FPGA_MAC \in Seq(Nat)
          /\ DIAGNOSTIC_BEACON_ETHERTYPE \in Seq(Nat)
      BY <1>1
    <3>3. /\ HeaderOf(r) \in Seq(Nat)
          /\ Len(HeaderOf(r))
               = Len(BROADCAST_MAC) + Len(FPGA_MAC) + Len(DIAGNOSTIC_BEACON_ETHERTYPE)
      BY ONLY <3>1, <3>2
    <3>4. QED BY <1>1, <3>3
  <2>5. /\ Len(HeaderOf(r)) = ETH_HEADER_BYTES
        /\ Len(HeaderOf(r)) + Len(PayloadOf(r)) = r.len
    BY <1>1, <1>4, <2>1, <2>2, <2>3, <2>4
  <2>6. r.len <= TX_FRAME_BODY_BYTES
    BY <2>1, BodiesAssumption
  <2>7. QED BY <2>2, <2>3, <2>4, <2>5, <2>6 DEF Consistent
<1>9. QED BY <1>6, <1>7, <1>8 DEF Made

\* The frame of a made request is the body its kind calls for.
LEMMA FrameIsTheBody ==
  ASSUME NEW r, Made(r)
  PROVE  /\ r.kind = "ARP_REPLY" =>
              HeaderOf(r) \o PayloadOf(r)
                = ArpReplyBody([sender_mac |-> r.arp_requester_mac,
                                sender_ip  |-> r.arp_requester_ip])
         /\ r.kind = "GRATUITOUS_ARP" => HeaderOf(r) \o PayloadOf(r) = GratuitousArpBody
         /\ r.kind = "BEACON" => HeaderOf(r) \o PayloadOf(r) = BeaconBody(r.counts)
<1> DEFINE Goal == /\ r.kind = "ARP_REPLY" =>
                        HeaderOf(r) \o PayloadOf(r)
                          = ArpReplyBody([sender_mac |-> r.arp_requester_mac,
                                          sender_ip  |-> r.arp_requester_ip])
                   /\ r.kind = "GRATUITOUS_ARP" =>
                        HeaderOf(r) \o PayloadOf(r) = GratuitousArpBody
                   /\ r.kind = "BEACON" => HeaderOf(r) \o PayloadOf(r) = BeaconBody(r.counts)
<1>1. PICK U : HeaderOf(r) \in Seq(U)
  BY MadeIsConsistent DEF Consistent
<1>2. /\ FPGA_MAC \in Seq(Nat) /\ FPGA_IP \in Seq(Nat) /\ ArpReplyFields \in Seq(Nat)
      /\ BROADCAST_MAC \in Seq(Nat) /\ MacBytes \in Nat /\ IpBytes \in Nat
  BY FramesAssumption DEF MacBytes, IpBytes
<1>3. CASE Announces(r)
  <2>1. /\ r.header.dst_mac = BROADCAST_MAC /\ r.header.src_mac = FPGA_MAC
        /\ r.header.ethertype = ARP_ETHERTYPE /\ r.kind = "GRATUITOUS_ARP"
        /\ r.arp_requester_mac = BROADCAST_MAC /\ r.arp_requester_ip = FPGA_IP
    BY <1>3 DEF Announces, protocol_tx_gratuitous_arp_request, Request
  <2>2. /\ HeaderOf(r) = BROADCAST_MAC \o FPGA_MAC \o ARP_ETHERTYPE
        /\ PayloadOf(r)
             = ArpReplyFields \o FPGA_MAC \o FPGA_IP \o BROADCAST_MAC \o FPGA_IP
    BY <2>1 DEF HeaderOf, PayloadOf, ArpReplyPayload
  <2> DEFINE h == HeaderOf(r)
             V == U \cup Nat
  <2>3. /\ h \in Seq(V) /\ FPGA_MAC \in Seq(V) /\ FPGA_IP \in Seq(V)
        /\ ArpReplyFields \in Seq(V) /\ BROADCAST_MAC \in Seq(V)
    <3>1. U \subseteq V /\ Nat \subseteq V /\ h \in Seq(U)
      BY <1>1
    <3> HIDE DEF h, V
    <3>2. QED BY <1>2, <3>1
  <2> HIDE DEF h, V
  <2>4. h \o (ArpReplyFields \o FPGA_MAC \o FPGA_IP \o BROADCAST_MAC \o FPGA_IP)
          = h \o ArpReplyFields \o FPGA_MAC \o FPGA_IP \o BROADCAST_MAC \o FPGA_IP
    BY ONLY <2>3
  <2>5. h \o PayloadOf(r) = GratuitousArpBody
    BY <2>2, <2>4 DEF GratuitousArpBody, h
  <2>6. QED BY <2>1, <2>5 DEF h
<1>4. CASE Answers(r)
  <2> DEFINE mac == r.arp_requester_mac
             ip == r.arp_requester_ip
             h == HeaderOf(r)
             M == { mac[i] : i \in 1 .. MacBytes }
             I == { ip[i] : i \in 1 .. IpBytes }
             V == U \cup Nat \cup M \cup I
  <2>1. /\ r.header.dst_mac = mac /\ r.header.src_mac = FPGA_MAC
        /\ r.header.ethertype = ARP_ETHERTYPE /\ r.kind = "ARP_REPLY"
    BY <1>4 DEF Answers, ArpReplyRequest, Request
  <2>2. /\ h = mac \o FPGA_MAC \o ARP_ETHERTYPE
        /\ PayloadOf(r) = ArpReplyFields \o FPGA_MAC \o FPGA_IP \o mac \o ip
    BY <2>1 DEF HeaderOf, PayloadOf, ArpReplyPayload
  <2>3. Listed(mac, MacBytes) /\ Listed(ip, IpBytes)
    BY <1>4 DEF Answers
  <2>4. h \in Seq(U)
    BY <1>1
  <2> HIDE DEF mac, ip, h
  <2>5. mac \in Seq(M) /\ ip \in Seq(I)
    BY <1>2, <2>3, ListedIsSeq
  <2> HIDE DEF M, I
  <2>6. /\ h \in Seq(V) /\ FPGA_MAC \in Seq(V) /\ FPGA_IP \in Seq(V)
        /\ ArpReplyFields \in Seq(V) /\ mac \in Seq(V) /\ ip \in Seq(V)
    <3>1. U \subseteq V /\ Nat \subseteq V /\ M \subseteq V /\ I \subseteq V
      OBVIOUS
    <3> HIDE DEF V
    <3>2. QED BY <1>2, <2>4, <2>5, <3>1
  <2> HIDE DEF V
  <2>7. h \o (ArpReplyFields \o FPGA_MAC \o FPGA_IP \o mac \o ip)
          = h \o ArpReplyFields \o FPGA_MAC \o FPGA_IP \o mac \o ip
    BY ONLY <2>6
  <2>8. h \o PayloadOf(r) = ArpReplyBody([sender_mac |-> mac, sender_ip |-> ip])
    BY <2>2, <2>7 DEF ArpReplyBody
  <2>9. QED BY <2>1, <2>8 DEF h, mac, ip
<1>5. CASE Reports(r)
  <2>1. /\ r.header.dst_mac = BROADCAST_MAC /\ r.header.src_mac = FPGA_MAC
        /\ r.header.ethertype = DIAGNOSTIC_BEACON_ETHERTYPE /\ r.kind = "BEACON"
    <3>1. DOMAIN protocol_tx_beacon_request = RequestFields
      BY DEF protocol_tx_beacon_request, Request, RequestFields
    <3>2. /\ r.header = protocol_tx_beacon_request.header
          /\ r.kind = protocol_tx_beacon_request.kind
      BY <1>5, <3>1 DEF Reports, RequestFields
    <3>3. QED BY <3>2 DEF protocol_tx_beacon_request, Request
  <2>2. /\ HeaderOf(r) = BROADCAST_MAC \o FPGA_MAC \o DIAGNOSTIC_BEACON_ETHERTYPE
        /\ PayloadOf(r) = BeaconText(r.counts)
    BY <2>1 DEF HeaderOf, PayloadOf
  <2>3. HeaderOf(r) \o PayloadOf(r) = BeaconBody(r.counts)
    BY <2>2 DEF BeaconBody
  <2>4. QED BY <2>1, <2>3
<1>6. QED BY <1>3, <1>4, <1>5 DEF Made

\* The requests of the code are made requests.
LEMMA RequestsAreMade ==
  /\ Made(protocol_tx_gratuitous_arp_request)
  /\ BodyInv => Made(BeaconRequest)
  /\ \A a, b : Made(ArpReplyRequest(Field(a, SenderMacAt, MacBytes),
                                    Field(b, SenderIpAt, IpBytes)))
<1>1. Made(protocol_tx_gratuitous_arp_request)
  BY DEF Made, Announces
<1>2. ASSUME BodyInv PROVE Made(BeaconRequest)
  <2> DEFINE snapshot == << counters.rx_packet, rx_queue.drop_count,
                            counters.rx_protocol_drop, tx_queue.drop_count,
                            counters.arp_reply, 0, counters.uptime_beacon >>
  <2>1. 0 \in Count
    BY HandlerAssumption DEF Count
  <2>2. snapshot \in [1 .. 7 -> Count]
    BY <1>2, <2>1 DEF BodyInv, CountInv, Counters
  <2>3. BeaconRequest = [protocol_tx_beacon_request EXCEPT !.counts = snapshot]
    BY DEF BeaconRequest
  <2> HIDE DEF snapshot
  <2>4. BeaconRequest.counts = snapshot
    BY <2>3 DEF protocol_tx_beacon_request, Request
  <2>5. Reports(BeaconRequest)
    BY <2>2, <2>3, <2>4 DEF Reports
  <2>6. QED BY <2>5 DEF Made
<1>3. ASSUME NEW a, NEW b
      PROVE  Made(ArpReplyRequest(Field(a, SenderMacAt, MacBytes),
                                  Field(b, SenderIpAt, IpBytes)))
  <2> DEFINE mac == Field(a, SenderMacAt, MacBytes)
             ip == Field(b, SenderIpAt, IpBytes)
  <2>1. Listed(mac, MacBytes) /\ Listed(ip, IpBytes)
    BY DEF Listed, Field
  <2> HIDE DEF mac, ip
  <2>2. /\ ArpReplyRequest(mac, ip).arp_requester_mac = mac
        /\ ArpReplyRequest(mac, ip).arp_requester_ip = ip
    BY DEF ArpReplyRequest, Request
  <2>3. QED BY <2>1, <2>2 DEF Made, Answers, mac, ip
<1>4. QED BY <1>1, <1>2, <1>3

\* The step of a preparation: one more byte is the frame's, and at the last
\* byte the slot holds the whole frame under its length.
LEMMA PreparationFills ==
  ASSUME NEW p, NEW q, TQ!Ring(q), OwnsWriteSlot(p, q), Fills(p, q), PrepareStep(p, q),
         p.active => p.index < p.request.len /\ p.request.len >= 2
  PROVE  /\ Fills(prepare', tx_queue')
         /\ p.active /\ p.index = p.request.len - 1 =>
              /\ tx_queue'.meta[q.write_idx] = p.request.len
              /\ Stores(tx_queue'.bytes[q.write_idx], p.request, p.request.len)
<1> DEFINE byte == FrameBodyByte(p.request, p.index)
           stored == TQ!StoreByte(q, p.tx_idx, p.index, byte)
<1>1. CASE ~p.active
  BY <1>1 DEF PrepareStep
<1>2. CASE p.active
  <2>1. /\ p.tx_idx = q.write_idx /\ p.tx_idx \in TQ!Slot /\ p.index \in Nat
        /\ p.request.len \in Nat /\ p.index < p.request.len
        /\ TQ!packet_queue_write_slot_available(q)
    BY <1>2 DEF OwnsWriteSlot, TQ!Ring, Sized
  <2>2. /\ Made(p.request) /\ Stores(q.bytes[p.tx_idx], p.request, p.index)
        /\ DOMAIN q.bytes[p.tx_idx] = BodyIndex /\ DOMAIN q.bytes = TQ!Slot
    BY <1>2, <2>1 DEF Fills, BodySlots, TQ!Ring
  <2>3. p.index \in BodyIndex
    <3>1. p.request.len <= TX_FRAME_BODY_BYTES /\ TX_FRAME_BODY_BYTES \in Nat
      BY <2>2, MadeIsConsistent, BodiesAssumption
    <3>2. QED BY <2>1, <3>1 DEF BodyIndex
  <2>4. /\ TQ!Ring(stored) /\ stored.valid = q.valid /\ stored.write_idx = q.write_idx
        /\ stored.bytes = [q.bytes EXCEPT ![p.tx_idx] = [@ EXCEPT ![p.index] = byte]]
    <3>1. TQ!Ring(stored)
      BY <2>1, StoreKeepsFlags, Zenon
    <3>2. QED BY <3>1 DEF TQ!StoreByte, TQ!Ring
  <2>5. BodySlots(stored)
    BY <1>2, <2>2, <2>4 DEF Fills, BodySlots
  <2>6. Stores(stored.bytes[p.tx_idx], p.request, p.index + 1)
    <3>1. stored.bytes[p.tx_idx] = [q.bytes[p.tx_idx] EXCEPT ![p.index] = byte]
      BY <2>1, <2>2, <2>4
    <3>2. \A i \in BodyIndex : i < p.index + 1 => i = p.index \/ i < p.index
      BY <2>1 DEF BodyIndex
    <3> HIDE DEF stored
    <3>3. QED BY <2>2, <2>3, <3>1, <3>2 DEF Stores
  <2>7. CASE p.index = p.request.len - 1
    <3>1. /\ tx_queue' = TQ!packet_queue_publish_write_slot(stored, p.request.len)
          /\ prepare' = [p EXCEPT !.active = FALSE, !.request.valid = FALSE,
                                  !.request.kind = "NONE"]
      BY <1>2, <2>7 DEF PrepareStep
    <3>2. TQ!packet_queue_write_slot_available(stored)
      BY <2>1, <2>4 DEF TQ!packet_queue_write_slot_available
    <3> HIDE DEF stored
    <3>3. tx_queue'.bytes = stored.bytes /\ tx_queue'.meta[q.write_idx] = p.request.len
      BY <2>1, <2>4, <3>1, <3>2 DEF TQ!packet_queue_publish_write_slot, TQ!Ring,
                                   TQ!packet_queue_write_slot_available
    <3>4. ~prepare'.active
      BY <3>1 DEF OwnsWriteSlot
    <3>5. Fills(prepare', tx_queue')
      BY <2>5, <3>3, <3>4 DEF Fills, BodySlots
    <3>6. p.index + 1 = p.request.len
      BY <2>1, <2>7
    <3>7. Stores(tx_queue'.bytes[q.write_idx], p.request, p.request.len)
      BY <2>1, <2>6, <3>3, <3>6
    <3>8. QED BY <3>3, <3>5, <3>7
  <2>8. CASE p.index # p.request.len - 1
    <3>1. tx_queue' = stored /\ prepare' = [p EXCEPT !.index = @ + 1]
      <4>1. ~(p.request.len = 0 \/ p.index = p.request.len - 1)
        BY <1>2, <2>1, <2>8
      <4>2. QED BY <1>2, <4>1 DEF PrepareStep
    <3> HIDE DEF stored
    <3>2. /\ prepare'.request = p.request /\ prepare'.tx_idx = p.tx_idx
          /\ prepare'.index = p.index + 1
      BY <3>1 DEF OwnsWriteSlot
    <3>3. Fills(prepare', tx_queue')
      BY <2>2, <2>5, <2>6, <3>1, <3>2 DEF Fills
    <3>4. QED BY <2>8, <3>3
  <2>9. QED BY <2>7, <2>8
<1>3. QED BY <1>1, <1>2 DEF OwnsWriteSlot

\* A request started begins with an empty part of its frame.
LEMMA StartFills ==
  ASSUME BodyInv, NEW request, Long(request), Made(request), ~prepare.active, Start(request)
  PROVE  Fills(prepare', tx_queue')
<1> DEFINE started == start_protocol_tx_request(request)
<1>1. \A i \in BodyIndex : ~(i < 0)
  BY BodiesAssumption DEF BodyIndex
<1>2. /\ TQ!Ring(started.queue) /\ OwnsWriteSlot(started.prepare, started.queue)
      /\ Fills(started.prepare, started.queue)
      /\ started.prepare.active =>
           /\ started.prepare.index < started.prepare.request.len
           /\ started.prepare.request.len >= 2
  <2>1. CASE TxRoom
    <3>1. /\ started.queue = tx_queue
          /\ started.prepare = [active |-> TRUE, request |-> request, index |-> 0,
                                tx_idx |-> tx_queue.write_idx]
      BY <2>1 DEF start_protocol_tx_request, TxRoom
    <3> HIDE DEF started
    <3>2. /\ started.prepare.active /\ started.prepare.request = request
          /\ started.prepare.index = 0 /\ started.prepare.tx_idx = tx_queue.write_idx
          /\ DOMAIN started.prepare = {"active", "request", "index", "tx_idx"}
      BY <3>1
    <3>3. OwnsWriteSlot(started.prepare, started.queue)
      BY <2>1, <3>1, <3>2 DEF OwnsWriteSlot, TxRoom, Long
    <3>4. Fills(started.prepare, started.queue)
      BY <1>1, <3>1, <3>2 DEF Fills, Stores, BodyInv
    <3>5. 0 < request.len /\ request.len >= 2
      BY DEF Long, Sized
    <3>6. QED BY <3>1, <3>2, <3>3, <3>4, <3>5 DEF BodyInv, SlotInv
  <2>2. CASE ~TxRoom
    <3>1. /\ started.prepare = prepare
          /\ started.queue = TQ!packet_queue_drop_write(tx_queue)
      BY <2>2 DEF start_protocol_tx_request, TxRoom
    <3>2. /\ TQ!Ring(started.queue) /\ started.queue.bytes = tx_queue.bytes
          /\ started.queue.valid = tx_queue.valid
          /\ started.queue.write_idx = tx_queue.write_idx
      BY <3>1, RingSizes, TQ!DropKeepsRing DEF BodyInv, SlotInv
    <3> HIDE DEF started
    <3>3. OwnsWriteSlot(started.prepare, started.queue)
      BY <3>1, <3>2 DEF BodyInv, SlotInv, OwnsWriteSlot
    <3>4. Fills(started.prepare, started.queue)
      BY <3>1, <3>2 DEF Fills, BodySlots, BodyInv
    <3>5. QED BY <3>1, <3>2, <3>3, <3>4
  <2>3. QED BY <2>1, <2>2
<1>3. PrepareStep(started.prepare, started.queue)
  BY DEF Start
<1> HIDE DEF started
<1>4. QED BY <1>2, <1>3, PreparationFills

\* Every request the handler makes is longer than what one cycle stores.
LEMMA MadeIsLong ==
  ASSUME NEW r, Made(r)
  PROVE  r.len >= 2
<1>1. CASE Reports(r)
  <2>1. /\ r.len = protocol_tx_beacon_request.len
        /\ BeaconRequest.len = protocol_tx_beacon_request.len
    BY <1>1 DEF Reports, BeaconRequest, protocol_tx_beacon_request, Request
  <2>2. QED BY <2>1, RequestsAreLong DEF Long
<1>2. CASE Announces(r) \/ Answers(r)
  BY <1>2, RequestsAreLong DEF Announces, Answers, Long
<1>3. QED BY <1>1, <1>2 DEF Made

\* No preparation that owns its slot is counted as a drop.
LEMMA PreparationCountsNothing ==
  ASSUME NEW p, NEW q, TQ!Ring(q), OwnsWriteSlot(p, q), PrepareStep(p, q)
  PROVE  tx_queue'.drop_count = q.drop_count
<1> DEFINE stored == TQ!StoreByte(q, p.tx_idx, p.index, FrameBodyByte(p.request, p.index))
<1>1. CASE ~p.active
  BY <1>1 DEF PrepareStep
<1>2. CASE p.active
  <2>1. /\ DOMAIN stored = DOMAIN q /\ stored.drop_count = q.drop_count
        /\ stored.valid = q.valid /\ stored.write_idx = q.write_idx
    BY DEF TQ!StoreByte, TQ!Ring
  <2>2. tx_queue' \in {stored, TQ!packet_queue_publish_write_slot(stored, p.request.len)}
    BY <1>2 DEF PrepareStep
  <2>3. ~stored.valid[stored.write_idx]
    BY <1>2, <2>1 DEF OwnsWriteSlot, TQ!packet_queue_write_slot_available
  <2> HIDE DEF stored
  <2>4. QED BY <2>1, <2>2, <2>3 DEF TQ!packet_queue_publish_write_slot, TQ!Ring
<1>3. QED BY <1>1, <1>2

\* A step of the handler that goes on, starts nothing or starts a request.
LEMMA HandlerFills ==
  ASSUME BodyInv, protocol_queue_step
  PROVE  /\ Fills(prepare', tx_queue')
         /\ tx_queue'.drop_count \in Count
         /\ rx_queue'.drop_count = rx_queue.drop_count
<1> DEFINE Goal == Fills(prepare', tx_queue') /\ tx_queue'.drop_count \in Count
<1>1. ASSUME NothingStarted PROVE Goal
  <2>1. prepare.active => prepare.index < prepare.request.len /\ prepare.request.len >= 2
    BY MadeIsLong DEF BodyInv, SlotInv, Fills
  <2>2. QED
    BY <1>1, <2>1, PreparationFills, PreparationCountsNothing
    DEF NothingStarted, BodyInv, SlotInv
<1>2. ASSUME NEW request, Long(request), Made(request), ~prepare.active, Start(request)
      PROVE  Goal
  <2>1. Fills(prepare', tx_queue')
    BY <1>2, StartFills
  <2>2. CASE TxRoom
    <3> DEFINE p == [active |-> TRUE, request |-> request, index |-> 0,
                     tx_idx |-> tx_queue.write_idx]
    <3>1. PrepareStep(p, tx_queue)
      BY <1>2, <2>2 DEF Start, start_protocol_tx_request, TxRoom
    <3>2. OwnsWriteSlot(p, tx_queue)
      BY <1>2, <2>2 DEF OwnsWriteSlot, TxRoom, Long
    <3> HIDE DEF p
    <3>3. QED
      BY <2>1, <3>1, <3>2, PreparationCountsNothing DEF BodyInv, SlotInv
  <2>3. CASE ~TxRoom
    <3>1. tx_queue' = TQ!packet_queue_drop_write(tx_queue)
      BY <1>2, <2>3 DEF Start, start_protocol_tx_request, TxRoom, PrepareStep
    <3>2. tx_queue'.drop_count = RQ!Bump(tx_queue.drop_count)
      BY <3>1 DEF TQ!packet_queue_drop_write, TQ!Bump, RQ!Bump, BodyInv, SlotInv, TQ!Ring
    <3>3. QED BY <2>1, <3>2, BumpWraps DEF BodyInv
  <2>4. QED BY <2>2, <2>3
<1>3. Goal
  <2> HIDE DEF Goal
  <2>1. CASE SendGratuitousArp
    BY <1>2, <2>1, RequestsAreLong, RequestsAreMade DEF SendGratuitousArp, Free
  <2>2. CASE SendBeacon
    BY <1>2, <2>2, RequestsAreLong, RequestsAreMade DEF SendBeacon, Free
  <2>3. CASE FinishArp
    BY <1>1, <1>2, <2>3, RequestsAreLong, RequestsAreMade DEF FinishArp
  <2>4. QED
    BY <1>1, <2>1, <2>2, <2>3
    DEF protocol_queue_step, Preparing, DropWaiting, BeginParse, NothingToDo, ParseArpByte
<1>4. rx_queue'.drop_count = rx_queue.drop_count
  <2>1. \/ rx_queue' = rx_queue
        \/ rx_queue' = RQ!packet_queue_consume_read_slot(rx_queue)
    BY DEF protocol_queue_step, Preparing, DropWaiting, BeginParse, SendGratuitousArp,
           SendBeacon, NothingToDo, ParseArpByte, FinishArp
  <2>2. QED BY <2>1 DEF RQ!packet_queue_consume_read_slot, BodyInv, SlotInv, RQ!Ring
<1>5. QED BY <1>3, <1>4

\* No step of the handler or of a neighbour spoils a frame under preparation.
LEMMA BodyNext ==
  ASSUME BodyInv, protocol_queue_step \/ Rely
  PROVE  BodyInv'
<1>1. SlotInv' /\ CountInv'
  BY SlotsNext, CountsNext DEF BodyInv, Rely
<1>2. CASE protocol_queue_step
  BY <1>1, <1>2, HandlerFills DEF BodyInv
<1>3. CASE Rely
  <2>1. /\ tx_queue'.drop_count = tx_queue.drop_count /\ tx_queue'.bytes = tx_queue.bytes
        /\ rx_queue'.drop_count \in Count /\ prepare' = prepare
    BY <1>3 DEF Rely, TQ!ByConsumer, handlerVars, BodyInv
  <2>2. QED BY <1>1, <2>1 DEF BodyInv, Fills, BodySlots
<1>4. QED BY <1>2, <1>3

\* At first nothing is being prepared.
LEMMA BodyAtFirst ==
  ASSUME AtRest
  PROVE  BodyInv
<1>1. 0 \in Count
  BY HandlerAssumption DEF Count
<1>2. rx_queue.drop_count = 0 /\ tx_queue.drop_count = 0
  BY DEF AtRest, RQ!EmptyQueue, TQ!EmptyQueue
<1>3. BodySlots(tx_queue) /\ ~prepare.active
  BY DEF AtRest, Init, TQ!EmptyQueue, BodySlots
<1>4. QED BY <1>1, <1>2, <1>3, SlotsAtFirst, CountsAtFirst DEF AtRest, BodyInv, Fills

\* The last byte stored completes the frame of the request.
LEMMA CompletedFrame ==
  ASSUME BodyInv, prepare.active, NothingStarted,
         prepare.index = prepare.request.len - 1
  PROVE  SlotBody(tx_queue', tx_queue.write_idx)
           = HeaderOf(prepare.request) \o PayloadOf(prepare.request)
<1> DEFINE body == SlotBody(tx_queue', tx_queue.write_idx)
           request == prepare.request
<1>1. /\ Made(request) /\ prepare.index < request.len /\ request.len >= 2
      /\ request.len \in Nat
  BY MadeIsLong DEF BodyInv, SlotInv, Fills, OwnsWriteSlot, Sized
<1>2. /\ tx_queue'.meta[tx_queue.write_idx] = request.len
      /\ Stores(tx_queue'.bytes[tx_queue.write_idx], request, request.len)
  BY <1>1, PreparationFills DEF BodyInv, SlotInv, NothingStarted
<1>3. body = [i \in 1 .. request.len |-> FrameBodyByte(request, i - 1)]
  <2>1. request.len <= TX_FRAME_BODY_BYTES /\ TX_FRAME_BODY_BYTES \in Nat
    BY <1>1, MadeIsConsistent, BodiesAssumption
  <2>2. \A i \in 1 .. request.len : i - 1 \in BodyIndex /\ i - 1 < request.len
    BY <1>1, <2>1 DEF BodyIndex
  <2>3. QED BY <1>2, <2>2 DEF SlotBody, Stores
<1>4. QED BY <1>1, <1>3, BytesMakeTheFrame, MadeIsConsistent

\* What a cycle publishes is the frame called for.
LEMMA BodyStep ==
  ASSUME BodyInv, protocol_queue_step \/ Rely
  PROVE  BodyIsTheRequest
<1> DEFINE body == SlotBody(tx_queue', tx_queue.write_idx)
           request == prepare.request
<1> SUFFICES ASSUME Published
             PROVE  /\ prepare.active
                    /\ request.kind = "ARP_REPLY" =>
                         body = ArpReplyBody([sender_mac |-> request.arp_requester_mac,
                                              sender_ip  |-> request.arp_requester_ip])
                    /\ request.kind = "GRATUITOUS_ARP" => body = GratuitousArpBody
                    /\ request.kind = "BEACON" => body = BeaconBody(request.counts)
  BY DEF BodyIsTheRequest
<1>1. protocol_queue_step
  BY RelyKeepsIndex DEF Published
<1>2. ASSUME NEW r, Long(r), ~prepare.active, Start(r) PROVE FALSE
  BY <1>2, StartedRequest DEF Published, BodyInv
<1>3. prepare.active
  <2>1. SUFFICES ASSUME ~prepare.active PROVE FALSE
    OBVIOUS
  <2>2. ~NothingStarted
    BY <2>1, NothingUnderWay DEF Published
  <2>3. QED
    BY <1>1, <1>2, <2>1, <2>2, RequestsAreLong
    DEF protocol_queue_step, Preparing, DropWaiting, BeginParse,
        SendGratuitousArp, SendBeacon, NothingToDo, ParseArpByte, FinishArp
<1>4. PrepareStep(prepare, tx_queue)
  BY <1>1, <1>3
  DEF protocol_queue_step, Preparing, DropWaiting, BeginParse, SendGratuitousArp,
      SendBeacon, NothingToDo, ParseArpByte, FinishArp, Free, NothingStarted
<1>5. /\ Made(request) /\ prepare.index < request.len /\ request.len >= 2
      /\ request.len \in Nat
  BY <1>3, MadeIsLong DEF BodyInv, SlotInv, Fills, OwnsWriteSlot, Sized
<1>6. prepare.index = request.len - 1
  <2>1. SUFFICES ASSUME prepare.index # request.len - 1 PROVE FALSE
    OBVIOUS
  <2>2. prepare' = [prepare EXCEPT !.index = @ + 1]
    BY <1>3, <1>4, <1>5, <2>1 DEF PrepareStep
  <2>3. prepare'.active
    BY <1>3, <2>2 DEF BodyInv, SlotInv, OwnsWriteSlot
  <2>4. QED
    BY <1>3, <1>4, <2>3, PreparationContinues
    DEF Published, NothingStarted, BodyInv
<1>7. body = HeaderOf(request) \o PayloadOf(request)
  BY <1>3, <1>4, <1>6, CompletedFrame DEF NothingStarted
<1> HIDE DEF body
<1>8. QED BY <1>3, <1>5, <1>7, FrameIsTheBody

\* Every frame the handler publishes is the one its request calls for: an ARP
\* reply to the requester, an announcement, or a beacon with the counts of the
\* moment it was started, for every layout of the frames, every size of the
\* rings and every interleaving with the receiver and the transmitter
\* (ethernet_protocol_handler.h:255-273, ethernet_tx_payloads.h:224-310).
THEOREM PublishedBodyIsCalledFor == EnvSafety => PublishedBodyIsTheRequest
<1>1. EnvInit => BodyInv
  BY EnvAtRest, BodyAtFirst
<1>2. BodyInv /\ [EnvNext]_envVars => BodyInv' /\ BodyIsTheRequest
  BY EnvStepIsRely, BodyNext, BodyStep DEF BodyInv
<1>3. QED BY <1>1, <1>2, PTL DEF EnvSafety, PublishedBodyIsTheRequest

----------------------------------------------------------------------------
(* How long the handler is busy.                                           *)

\* The cycles the preparation under way still takes.
Left == IF prepare.active THEN prepare.request.len - prepare.index ELSE 0

\* A preparation takes a cycle per byte.
LEMMA PreparationShortens ==
  ASSUME SlotInv, prepare.active, NothingStarted
  PROVE  Left \in Nat \ {0} /\ Left' = Left - 1
<1>1. /\ prepare.index \in Nat /\ prepare.request.len \in Nat
      /\ prepare.index < prepare.request.len
  BY DEF SlotInv, OwnsWriteSlot, Sized
<1>2. CASE prepare.index = prepare.request.len - 1
  <2>1. prepare' = [prepare EXCEPT !.active = FALSE, !.request.valid = FALSE,
                                   !.request.kind = "NONE"]
    BY <1>2 DEF NothingStarted, PrepareStep
  <2>2. ~prepare'.active
    BY <2>1 DEF SlotInv, OwnsWriteSlot
  <2>3. QED BY <1>1, <1>2, <2>2 DEF Left
<1>3. CASE prepare.index # prepare.request.len - 1
  <2>1. prepare' = [prepare EXCEPT !.index = @ + 1]
    BY <1>1, <1>3 DEF NothingStarted, PrepareStep
  <2>2. /\ prepare'.active /\ prepare'.request = prepare.request
        /\ prepare'.index = prepare.index + 1
    BY <2>1 DEF SlotInv, OwnsWriteSlot
  <2>3. QED BY <1>1, <2>2 DEF Left
<1>4. QED BY <1>2, <1>3

\* A request that finds room takes a cycle per byte, the first of them now;
\* one that finds none takes no time.
LEMMA StartTakesItsLength ==
  ASSUME SlotInv, NEW request, Long(request), ~prepare.active, Start(request)
  PROVE  /\ TxRoom => prepare'.active /\ Left' = request.len - 1
         /\ ~TxRoom => ~prepare'.active /\ Left' = 0
<1> DEFINE p == [active |-> TRUE, request |-> request, index |-> 0,
                 tx_idx |-> tx_queue.write_idx]
<1>1. CASE TxRoom
  <2>1. PrepareStep(p, tx_queue)
    BY <1>1 DEF Start, start_protocol_tx_request, TxRoom
  <2>2. p.active /\ p.request.len # 0 /\ p.index # p.request.len - 1
    BY DEF Long, Sized
  <2>3. prepare' = [p EXCEPT !.index = @ + 1]
    <3> HIDE DEF p
    <3>1. QED BY <2>1, <2>2 DEF PrepareStep
  <2>4. prepare'.active /\ prepare'.request = request /\ prepare'.index = 1
    BY <2>3
  <2>5. QED BY <1>1, <2>4 DEF Left, Long, Sized
<1>2. CASE ~TxRoom
  BY <1>2, StartedRequest DEF Left
<1>3. QED BY <1>1, <1>2

\* Without a preparation there is nothing left to do, before and after.
LEMMA NothingLeft ==
  ASSUME ~prepare.active, NothingStarted
  PROVE  Left = 0 /\ Left' = 0
  BY NothingUnderWay DEF Left

----------------------------------------------------------------------------
(* The periodic frames of a quiet network. *)

\* No packet waits, and no preparation outlasts the beacon's interval.
QuietInv ==
  /\ protocol_state = "PROTO_IDLE"
  /\ \A s \in RQ!Slot : ~rx_queue.valid[s]
  /\ prepare.active => Left + timers.beacon + 1 <= BEACON_INTERVAL_CYCLES

\* The two timers are in step.
TimersInv ==
  /\ timers.beacon \in 0 .. BEACON_INTERVAL_CYCLES - 1
  /\ timers.gratuitous \in 0 .. GRATUITOUS_ARP_INTERVAL_CYCLES - 1
  /\ \E j \in Nat : timers.gratuitous = j * BEACON_INTERVAL_CYCLES + timers.beacon

CadenceInv == SlotInv /\ TimersInv /\ arrivals \in Nat /\ (arrivals = 0 => QuietInv)

\* The last cycle of many intervals is the last cycle of the last of them.
LEMMA LastOfTheLast ==
  ASSUME NEW n \in Nat \ {0}, NEW k \in Nat, NEW j \in Nat, NEW r \in 0 .. n - 1,
         k * n - 1 = j * n + r
  PROVE  r = n - 1
<1>1. CASE j >= k
  <2>1. PICK d \in Nat : j = k + d
    BY <1>1
  <2>2. j * n = k * n + d * n /\ d * n \in Nat /\ k * n \in Nat
    BY <2>1
  <2>3. QED BY <2>2
<1>2. CASE j <= k - 2
  <2>1. PICK d \in Nat : k = j + 2 + d
    BY <1>2
  <2>2. k * n = j * n + n + n + d * n /\ d * n \in Nat /\ j * n \in Nat
    BY <2>1
  <2>3. QED BY <2>2
<1>3. CASE j = k - 1
  <2>1. k * n = j * n + n /\ j * n \in Nat
    BY <1>3
  <2>2. QED BY <2>1
<1>4. QED BY <1>1, <1>2, <1>3

\* The intervals are long, and a tick of the announcement is one of both.
LEMMA TimersMeet ==
  ASSUME IntervalsFit, TimersInv
  PROVE  /\ BEACON_INTERVAL_CYCLES \in Nat \ {0}
         /\ GratuitousTick => BeaconTick
<1>1. BEACON_INTERVAL_CYCLES \in Nat \ {0}
  BY DEF IntervalsFit, TimersInv
<1>2. ASSUME GratuitousTick PROVE BeaconTick
  <2>1. PICK k \in 1 .. GRATUITOUS_ARP_INTERVAL_CYCLES :
          GRATUITOUS_ARP_INTERVAL_CYCLES = k * BEACON_INTERVAL_CYCLES
    BY DEF IntervalsFit
  <2>2. PICK j \in Nat : timers.gratuitous = j * BEACON_INTERVAL_CYCLES + timers.beacon
    BY DEF TimersInv
  <2>3. k \in Nat /\ timers.beacon \in 0 .. BEACON_INTERVAL_CYCLES - 1
    BY DEF TimersInv, IntervalsFit
  <2>4. k * BEACON_INTERVAL_CYCLES - 1 = j * BEACON_INTERVAL_CYCLES + timers.beacon
    BY <1>2, <2>1, <2>2 DEF GratuitousTick
  <2>5. timers.beacon = BEACON_INTERVAL_CYCLES - 1
    BY <1>1, <2>2, <2>3, <2>4, LastOfTheLast
  <2>6. QED BY <2>5 DEF BeaconTick
<1>3. QED BY <1>1, <1>2

\* The timers stay in step.
LEMMA TimersNext ==
  ASSUME IntervalsFit, TimersInv, periodic_tx_timer_step
  PROVE  TimersInv'
<1>1. BEACON_INTERVAL_CYCLES \in Nat \ {0} /\ GRATUITOUS_ARP_INTERVAL_CYCLES \in Nat \ {0}
  BY TimersMeet DEF IntervalsFit
<1>2. /\ timers'.beacon = IF BeaconTick THEN 0 ELSE timers.beacon + 1
      /\ timers'.gratuitous = IF GratuitousTick THEN 0 ELSE timers.gratuitous + 1
  BY DEF periodic_tx_timer_step
<1>3. /\ timers'.beacon \in 0 .. BEACON_INTERVAL_CYCLES - 1
      /\ timers'.gratuitous \in 0 .. GRATUITOUS_ARP_INTERVAL_CYCLES - 1
  BY <1>1, <1>2 DEF TimersInv, BeaconTick, GratuitousTick
<1>4. PICK j \in Nat : timers.gratuitous = j * BEACON_INTERVAL_CYCLES + timers.beacon
  BY DEF TimersInv
<1>5. \E i \in Nat : timers'.gratuitous = i * BEACON_INTERVAL_CYCLES + timers'.beacon
  <2>1. CASE GratuitousTick
    <3>1. timers'.gratuitous = 0 * BEACON_INTERVAL_CYCLES + timers'.beacon
      BY <1>1, <1>2, <2>1, TimersMeet
    <3>2. QED BY <3>1
  <2>2. CASE ~GratuitousTick /\ ~BeaconTick
    <3>1. timers'.gratuitous = j * BEACON_INTERVAL_CYCLES + timers'.beacon
      <4>1. j * BEACON_INTERVAL_CYCLES \in Nat /\ timers.beacon \in Nat
        BY <1>1 DEF TimersInv
      <4>2. QED BY <1>2, <1>4, <2>2, <4>1
    <3>2. QED BY <3>1
  <2>3. CASE ~GratuitousTick /\ BeaconTick
    <3>1. /\ j * BEACON_INTERVAL_CYCLES \in Nat
          /\ (j + 1) * BEACON_INTERVAL_CYCLES = j * BEACON_INTERVAL_CYCLES + BEACON_INTERVAL_CYCLES
      BY <1>1
    <3>2. timers'.gratuitous = (j + 1) * BEACON_INTERVAL_CYCLES + timers'.beacon
      BY <1>1, <1>2, <1>4, <2>3, <3>1 DEF BeaconTick
    <3>3. QED BY <3>2
  <2>4. QED BY <2>1, <2>2, <2>3
<1>6. QED BY <1>3, <1>5 DEF TimersInv

\* Every cycle runs the timers.
LEMMA CycleRunsTimers ==
  ASSUME protocol_queue_step
  PROVE  periodic_tx_timer_step
  BY DEF protocol_queue_step, Preparing, DropWaiting, BeginParse, SendGratuitousArp,
         SendBeacon, NothingToDo, ParseArpByte, FinishArp

\* A cycle in which nothing waits: a tick finds no preparation in its way, and
\* one that starts is over before the next tick.
LEMMA QuietCycle ==
  ASSUME IntervalsFit, SlotInv, TimersInv, QuietInv, protocol_queue_step
  PROVE  /\ QuietInv'
         /\ TxRoom => /\ GratuitousTick => Starts("GRATUITOUS_ARP")
                      /\ BeaconTick /\ ~GratuitousTick => Starts("BEACON")
<1> DEFINE Goal ==
      /\ prepare'.active => Left' + timers'.beacon + 1 <= BEACON_INTERVAL_CYCLES
      /\ TxRoom => /\ GratuitousTick => Starts("GRATUITOUS_ARP")
                   /\ BeaconTick /\ ~GratuitousTick => Starts("BEACON")
<1>1. /\ BEACON_INTERVAL_CYCLES \in Nat \ {0} /\ timers.beacon \in 0 .. BEACON_INTERVAL_CYCLES - 1
      /\ GratuitousTick => BeaconTick
  BY TimersMeet DEF TimersInv
<1>2. timers'.beacon = IF BeaconTick THEN 0 ELSE timers.beacon + 1
  BY CycleRunsTimers DEF periodic_tx_timer_step
<1>3. protocol_state = "PROTO_IDLE" /\ ~PacketWaiting
  BY DEF QuietInv, PacketWaiting, RQ!packet_queue_read_slot_valid, SlotInv, RQ!Ring
<1>4. ASSUME NEW request, Long(request), request.len <= BEACON_INTERVAL_CYCLES, BeaconTick,
             ~prepare.active, Start(request)
      PROVE  /\ prepare'.active => Left' + timers'.beacon + 1 <= BEACON_INTERVAL_CYCLES
             /\ TxRoom => Starts(request.kind)
  <2>1. /\ TxRoom => prepare'.active /\ Left' = request.len - 1 /\ prepare'.request = request
        /\ ~TxRoom => ~prepare'.active
    BY <1>4, StartTakesItsLength, StartedRequest
  <2>2. request.len \in Nat
    BY <1>4 DEF Long, Sized
  <2>3. QED BY <1>1, <1>2, <1>4, <2>1, <2>2 DEF Starts
<1>5. CASE Preparing
  <2>1. prepare.active /\ Left \in Nat \ {0} /\ Left' = Left - 1
    BY <1>5, PreparationShortens DEF Preparing
  <2>2. ~BeaconTick /\ Left + timers.beacon + 1 <= BEACON_INTERVAL_CYCLES
    BY <1>1, <2>1 DEF QuietInv, BeaconTick
  <2>3. Goal
    BY <1>1, <1>2, <2>1, <2>2
  <2>4. UNCHANGED << rx_queue, protocol_state >>
    BY <1>5 DEF Preparing
  <2>5. QED BY <2>3, <2>4 DEF QuietInv
<1>6. CASE SendGratuitousArp
  <2>1. /\ ~prepare.active /\ Start(protocol_tx_gratuitous_arp_request) /\ GratuitousTick
        /\ UNCHANGED << rx_queue, protocol_state >>
    BY <1>6 DEF SendGratuitousArp, Free
  <2>2. protocol_tx_gratuitous_arp_request.len <= BEACON_INTERVAL_CYCLES
    BY DEF IntervalsFit, protocol_tx_gratuitous_arp_request, Request
  <2>3. Goal
    BY <1>1, <1>4, <2>1, <2>2, RequestsAreLong, RequestKinds
  <2>4. QED BY <2>1, <2>3 DEF QuietInv
<1>7. CASE SendBeacon
  <2>1. /\ ~prepare.active /\ Start(BeaconRequest) /\ BeaconTick /\ ~GratuitousTick
        /\ UNCHANGED << rx_queue, protocol_state >>
    BY <1>7 DEF SendBeacon, Free
  <2>2. BeaconRequest.len <= BEACON_INTERVAL_CYCLES
    BY DEF IntervalsFit, BeaconRequest, protocol_tx_beacon_request, Request
  <2>3. Goal
    BY <1>4, <2>1, <2>2, RequestsAreLong, RequestKinds
  <2>4. QED BY <2>1, <2>3 DEF QuietInv
<1>8. CASE NothingToDo
  <2>1. /\ ~prepare.active /\ NothingStarted /\ ~BeaconTick
        /\ UNCHANGED << rx_queue, protocol_state >>
    BY <1>8 DEF NothingToDo, Free
  <2>2. ~prepare'.active
    BY <2>1, NothingUnderWay
  <2>3. QED BY <1>1, <2>1, <2>2 DEF QuietInv
<1>9. QED
  BY <1>3, <1>5, <1>6, <1>7, <1>8
  DEF protocol_queue_step, DropWaiting, BeginParse, ParseArpByte, FinishArp

\* Nothing has arrived as long as nothing waits; the transmitter disturbs
\* no timer.
LEMMA CadenceNext ==
  ASSUME IntervalsFit, CadenceInv, [EnvNext]_envVars
  PROVE  CadenceInv'
<1>1. SlotInv'
  BY EnvStepIsRely, SlotsNext DEF CadenceInv
<1>2. CASE Clock
  <2>1. TimersInv' /\ arrivals' = arrivals
    BY <1>2, CycleRunsTimers, TimersNext DEF Clock, CadenceInv
  <2>2. arrivals = 0 => QuietInv'
    BY <1>2, QuietCycle DEF Clock, CadenceInv
  <2>3. QED BY <1>1, <2>1, <2>2 DEF CadenceInv
<1>3. CASE \E packet \in Packets : Receive(packet)
  <2>1. arrivals' = arrivals + 1 /\ UNCHANGED timers
    BY <1>3 DEF Receive, handlerVars
  <2>2. TimersInv' /\ arrivals' \in Nat /\ arrivals' # 0
    BY <2>1 DEF CadenceInv, TimersInv
  <2>3. QED BY <1>1, <2>2 DEF CadenceInv
<1>4. CASE Transmit \/ UNCHANGED envVars
  <2>1. UNCHANGED << rx_queue, handlerVars, arrivals >>
    BY <1>4 DEF Transmit, envVars, protoVars
  <2>2. TimersInv' /\ (QuietInv => QuietInv')
    BY <2>1 DEF CadenceInv, TimersInv, QuietInv, Left, handlerVars
  <2>3. QED BY <1>1, <2>1, <2>2 DEF CadenceInv
<1>5. QED BY <1>2, <1>3, <1>4 DEF EnvNext

\* At first the timers are at zero.
LEMMA CadenceAtFirst ==
  ASSUME IntervalsFit, EnvInit
  PROVE  CadenceInv
<1>1. SlotInv
  BY EnvAtRest, SlotsAtFirst
<1>2. BEACON_INTERVAL_CYCLES \in Nat \ {0}
  <2>1. PICK k \in 1 .. GRATUITOUS_ARP_INTERVAL_CYCLES :
          GRATUITOUS_ARP_INTERVAL_CYCLES = k * BEACON_INTERVAL_CYCLES
    BY DEF IntervalsFit
  <2>2. BEACON_INTERVAL_CYCLES # 0
    BY <2>1 DEF IntervalsFit
  <2>3. QED BY <2>2 DEF IntervalsFit
<1>3. TimersInv
  <2>1. timers.beacon = 0 /\ timers.gratuitous = 0
    BY DEF EnvInit, Init
  <2>2. timers.gratuitous = 0 * BEACON_INTERVAL_CYCLES + timers.beacon
    BY <1>2, <2>1
  <2>3. QED BY <1>2, <2>1, <2>2 DEF TimersInv, IntervalsFit
<1>4. QuietInv
  BY DEF QuietInv, EnvInit, Init, RQ!EmptyQueue
<1>5. QED BY <1>1, <1>3, <1>4 DEF CadenceInv, EnvInit

\* As long as nothing arrives and the TX ring has room, the board announces
\* itself at every tick of that timer, and a beacon goes out at every other
\* tick of the shorter one, for every pair of intervals of which the longer
\* is a multiple of the shorter and no preparation outlasts that
\* (ethernet_protocol_handler.h:112-138, ethernet_periodic_timers.h:24-36).
THEOREM QuietBoardIsPunctual == IntervalsFit => (EnvSafety => QuietCadence)
<1> SUFFICES ASSUME IntervalsFit PROVE EnvSafety => QuietCadence
  OBVIOUS
<1>1. EnvInit => CadenceInv
  BY CadenceAtFirst
<1>2. CadenceInv /\ [EnvNext]_envVars => CadenceInv'
  BY CadenceNext
<1>3. CadenceInv /\ [EnvNext]_envVars
        => [arrivals = 0 /\ timers' # timers /\ TxRoom =>
              /\ GratuitousTick => Starts("GRATUITOUS_ARP")
              /\ BeaconTick /\ ~GratuitousTick => Starts("BEACON")]_envVars
  <2> SUFFICES ASSUME CadenceInv, [EnvNext]_envVars, arrivals = 0, timers' # timers, TxRoom
               PROVE  /\ GratuitousTick => Starts("GRATUITOUS_ARP")
                      /\ BeaconTick /\ ~GratuitousTick => Starts("BEACON")
    OBVIOUS
  <2>1. protocol_queue_step
    BY DEF EnvNext, Clock, Receive, Transmit, envVars, protoVars, handlerVars
  <2>2. QED BY <2>1, QuietCycle DEF CadenceInv
<1>4. QED BY <1>1, <1>2, <1>3, PTL DEF EnvSafety, QuietCadence
=============================================================================
