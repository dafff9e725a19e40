# Specifications of the Arty Ethernet endpoint

TLA+ modules that describe the Layer-2 Ethernet endpoint of this repository
(`hls_ethernet/src`), TLC configurations that check them on small instances, and
proofs of their central invariants that TLAPS checks for all sizes.

Paths below are relative to `hls_ethernet/src` unless they say otherwise.

## 1. The system

The endpoint is one HLS function, `ethernet_l2_endpoint_hls`, which the hardware
calls once per cycle of the 25 MHz MII clock (`PIPELINE II=1`). Each call runs three
steps, in this order, over two packet rings:

    PHY --> ethernet_rx_queue_step --> rx_queue (8) --> protocol_queue_step
                                                              |
    PHY <-- ethernet_tx_queue_step <-- tx_queue (4) <---------+

There are no threads. The concurrency is that of state machines which all advance
in every cycle, share the rings, and each spread one job over thousands of cycles:
a packet is received, parsed, answered and sent nibble by nibble and byte by byte,
while the other machines go on.

### Inventory

| component | file | state it keeps | operations | must be right |
|---|---|---|---|---|
| packet ring | `ethernet_packet_queue.h` | `meta`, `valid`, `bytes` per slot, `read_idx`, `write_idx`, `drop_count` | claim, publish, consume, drop | bounded FIFO; a slot has one owner at a time |
| MII assembler / emitter | `ethernet_mii.h` | `rx_in_frame`, `rx_have_low`, `rx_low_nibble`; nibble phase | one nibble per cycle | pairing of nibbles, also after odd ends |
| RX parser | `ethernet_rx.h` | search/data state, preamble count, byte index, header, FCS delay line, payload count, error, truncated | one byte | exactly header and payload are kept, FCS stripped |
| RX queue step | `ethernet_rx_queue.h` | `rx_drop_current` | admit at frame start, store, publish at frame end | clean frames that found a slot are published, nothing else |
| protocol handler | `ethernet_protocol_handler.h` | protocol state, parse state, frame being prepared, four counters | drop, parse, reply, announce, beacon, prepare | answers exactly the requests for the board; never blocks the receiver; counts agree |
| periodic timers | `ethernet_periodic_timers.h` | two counters | tick | cadence of periodic frames |
| ARP, byte helpers | `arp.h`, `protocol_helpers.h` | none | parse, reply bytes | streamed parse equals whole-packet parse |
| TX payloads | `ethernet_tx_payloads.h` | none | frame body byte by byte | body is what the request asks for |
| TX framer, CRC | `ethernet_framer.h` | state, nibble phase, indices, CRC, FCS, gap count, toggle | one nibble | wire frame = preamble, body, padding, FCS, gap |
| TX queue step | `ethernet_tx_queue.h` | `framer_active`, `framer_slot_idx` | start, hold, free | a slot is held exactly while its frame is sent |
| endpoint top | `ethernet_l2_endpoint_hls.cpp` | the rings | the three calls, HLS pragmas | the pragmas do not break the rings |
| packet views | `packet_views.h` | none | IPv4 and UDP views (nothing in the design calls them yet) | a view is what its sender meant, and never leaves what was received |
| status block | `ethernet_status_hls.cpp` | frame count, hold-off | count, drive the LEDs | LED follows the wire |
| board top | `hls_top.v` | toggle and activity synchronisers | clock crossing | no frame event lost or doubled |
| host of the hardware tests | `tests/hw/ethernet.py` | none | build a request, recognise the board's frames | recognises each frame as what it is |
| RX monitor | `mii_rx_monitor.v` | counters (not instantiated) | count frames | |
| older design, test benches, build scripts | `rtl/`, `hls_ethernet/tb/`, `scripts/` | | | |

### How the parts interact, and what is hard

* **Shared rings.** Nothing but the `valid` flag of a slot tells its owner. The receiver
  asks for a slot at the first nibble and publishes at the end of the frame, and its
  bytes go into the slot long before that. The handler frees a slot 28 cycles after it
  looked at the flag. The framer reads a slot throughout a frame and frees it after the
  gap. None of them looks at the flag again before it acts, except `publish`.
* **Stale flags.** `DEPENDENCE ... valid inter false` lets the scheduler read a flag
  before an earlier call has written it.
* **Lost ticks.** A timer tick lasts one cycle and is lost if the handler is busy.
* **Slot reuse.** Slots are never cleared; lengths alone keep old bytes out of new frames.
* **Edges.** Saturating, wrapping and equality-tested counters (4, 11, 16 and 32 bits).
* **Errors.** `eth_rxerr` on any cycle, frames cut off anywhere, rings that are full.

`PROJECT.json` lists these hazards one by one, with line and covering properties.

## 2. The modules

| module | what it is |
|---|---|
| `PacketQueue` | the ring's operations as functions of a queue record, the shape of a ring, and lemmas about both |
| `PacketFifo` | the abstract specification of a ring: a bounded FIFO |
| `EthernetRx` | `ethernet_rx_queue_step` with assembler and parser; consumer reduced to freeing a valid slot |
| `EthernetRxWire` | `EthernetRx` driven by a PHY; wire-level properties |
| `EthernetRxProofs` | theorems about `EthernetRx` and `EthernetRxWire` |
| `Crc32`, `Crc32Check` | the CRC register; its comparison with polynomial division |
| `EthernetTx` | `ethernet_tx_queue_step` with the framer; producer reduced to filling and publishing the free slot |
| `EthernetTxWire` | `EthernetTx` observed by a host; wire-level properties |
| `EthernetTxProofs` | theorems about `EthernetTx`, `EthernetTxWire` and `Crc32Check` |
| `ProtocolFrames` | `arp.h`, `protocol_helpers.h`, `ethernet_tx_payloads.h`: the frames sent, the packets understood |
| `ProtocolHandler` | `protocol_queue_step` with timers, ARP parse and frame preparation; extends `ProtocolFrames` |
| `ProtocolHandlerEnv` | the handler between a receiver and a transmitter reduced to what they do to the rings |
| `HandlerProofs` | theorems about `ProtocolHandlerEnv` |
| `RingLag`, `RingLagProofs` | a ring whose flags may be read late; theorems about it |
| `WireFormat` | the reference frame on the wire: preamble, padding, FCS, nibbles |
| `ArpResponder` | the abstract specification of the endpoint: an inbox, an outbox, and what is answered; `PostSpec` says which frames are sent and when, `Spec` also what the station receives |
| `Endpoint` | the three steps of a call over both rings, between a station's sender and collector |
| `EndpointProofs` | theorems about `Endpoint` |
| `StatusCrossing`, `StatusCrossingProofs` | toggle and activity from the eth clock to counter and LED; theorems about them |
| `PacketViews`, `Datagram`, `DatagramProofs` | `packet_views.h`; a payload read with both parsers; theorems about it |
| `DiagnosticsBeacon` | the text of a beacon, byte for byte |
| `HostHelpers` | how the hardware tests build requests and recognise frames |
| `FormatCheck` | an exchange between the host and the board, and datagrams, with real addresses |
| `MC*` | values for TLC |

**State.** The static variables of a function are one record per function
(`assembler`, `parser`, `framer`, `parse`, `prepare`, ...), with the names of the code less
their prefixes. A ring is one record with the fields of `PacketSlotQueue`. Output
pins are state only in `EthernetTx` (`pins`), where a host samples them.

**Steps.** One action is one clock cycle of one step function in one of its states, with
every call it makes. `FrameStart`, `LowNibble`, `HighNibble`, `FrameEnd` and `LineIdle`
partition the calls of `ethernet_rx_queue_step`; `IdleCycle`, `PreambleCycle`, `DataCycle`,
`FcsCycle` and `GapCycle` those of `ethernet_tx_queue_step`; the eight actions of
`ProtocolHandler` are the branches of `protocol_queue_step`, each ending in `PrepareStep`, so
that the first byte of a frame is stored in the very cycle that starts it. The other users
of a ring appear as actions of their own that may occur any number of times between two
cycles. This allows more than the code does (at most one operation per cycle), so safety
carries over.

**Abstractions.**
* Sizes are constants.
* Addresses, EtherTypes and the fixed ARP fields are byte sequences given as constants.
  A big-endian field of the code is the sequence of its bytes; the handler compares and
  copies whole fields, so that only the order of bytes matters and it is kept.
* Bytes of a refused frame go to a scratch buffer nobody reads; it is left out.
* The payload of a beacon is the constant operator `BeaconText` of the seven counts: the
  handler knows only its length, the order of the counts and the moment they are taken.
  The text itself is `DiagnosticsBeacon`, which takes its place in `FormatCheck`. There a
  32-bit count is the integer of the same bits in two's complement, since TLC's integers
  end at 2^31 - 1.
* The CRC register is the set of its one bits, so that xor is symmetric difference.
* Reset: a run begins after configuration, with all statics at their initial values.

**Composition.** `Endpoint` extends `ProtocolHandler` and instantiates `EthernetRxWire` and
`EthernetTx` over the same two rings. `Wire` is the station's sender as a PHY of `EthernetRxWire`,
so that what is stated there of a PHY can be asked of the station. `turn` orders the three steps of a call as
`ethernet_l2_endpoint_hls.cpp:43-52` does; each of its actions is a whole step of the instance
and what the station does at its end of that wire. `Inbox` and `Outbox`, the packets
published and the bodies published or being prepared, are the refinement mapping to
`ArpResponder`.

**Clock crossing.** In `StatusCrossing` any number of system edges from `MinEdges` to
`MaxEdges` falls between two eth edges, so that every phase and drift occurs, and the first
of them takes the old or the new value, each signal for itself: this is the metastability
the synchronisers are there for.

## 3. The runs

| run | instance | shows |
|---|---|---|
| `rx_wire` | 2 slots, 2 header, 2 payload, 2 FCS bytes, byte index wraps at 7, preamble count saturates at 1 | the receive path; 319,000 states |
| `tx_wire` | 3 slots of 4 bytes, padding to 3, one preamble byte, gap of 3 | the transmit path; 178,000 states |
| `crc` | messages up to 5 bytes over 5 byte values | the FCS is the IEEE 802.3 one; 3,900 states |
| `handler` | 2 + 2 slots, a request and a request for another board; 3 arrivals | the handler between busy neighbours; 2.0 million states |
| `handler_live` | TX ring of one slot that need never be drained, six kinds of packet, intervals 12 and 24 | every reason to ignore a packet; the receiver is never blocked; cadence before the first packet; 262,000 states |
| `ring_lag` | 3 slots, flags up to 2 calls late, frames of 2 calls | the pragmas are safe |
| `endpoint` | 2 + 2 slots, counters modulo 4, two requests and a runt, up to 4 frames, no pause or 9 cycles between them | the endpoint implements `ArpResponder`; 230,000 states |
| `endpoint_rate` | 4 + 2 slots, 6 frames back to back, in every phase of the beacon timer (0 to 39) | the receiver is not overrun; 1.3 million states |
| `status` | 2 to 5 system edges per eth cycle, hold-off of 6, counter modulo 5 | clock crossing and LED; 41,000 states |
| `formats` | buffers of 96 bytes, real addresses | IPv4, UDP, beacon text and the host's reading; 69,000 states |
| `beacon_cadence`, `announce_cadence` | intervals 12 and 60 | two statements of the README that the code does not keep |

**Receive path.** `PublishedIffClean` and `PublishedIsTheFrame` compare the ring with the
bytes presented since `eth_rx_dv` rose, parsed by a reference definition that sees the whole
frame at once. `RingIsFifo` is `PacketFifo!Spec` under the refinement mapping from a ring to the
sequence of its published packets: no packet is lost, doubled, reordered or altered
between publication and consumption. The frames of the run have a long preamble, no preamble
or no SFD, hold 0x55 and 0xd5 as data, are cut off after any nibble, and are long enough to
overflow the payload and to wrap the byte index.

**Transmit path.** `FrameIsTheHeadPacket` compares the nibbles a host has seen when
`eth_tx_en` falls with the frame the head packet calls for. Bodies shorter than, equal to and
longer than the minimum share slots, so that stale bytes would show.
`GapIsKept`, `FreedOnlyWhenReceived`, `ToggleCountsFrames` and `ToggleFlipsWithFrame` relate wire,
ring and status pin: between frames the toggle is the parity of the frames, and it flips in
the cycle that completes a frame and in no other, so that no flip is undone within a frame and two
are a whole frame apart. `StatusCrossing` asks less: it counts right with a flip at every eth edge.

**Handler.** `StreamedParseIsParse` compares the byte-by-byte parse with
`parse_arp_ipv4_request`, which the code has but does not use here. `CountsAddUp` relates
three counters and the protocol state modulo their width. `BeaconsAreNumbered` says that
the count in a beacon is the number of beacons published before it.
`PublishedBodyIsTheRequest` compares a slot at publication with the frame its request
calls for.

**Endpoint.** `AnswersRequests` is `ArpResponder!Spec` under the refinement mapping: from the
nibbles of a request on one pair of the wire to the nibbles of its reply on the other, every
request taken while the TX ring has room is answered once, in order and with the right
frame, and nothing else is sent but announcements and beacons. `FramesAccountedFor` relates
four places a frame can be in (refused, waiting, under parse, counted) to the frames the
station has ended, after every step of a call. `ReceivePathIsDriven` is `EthernetRxWire!WireSpec`:
station and handler do nothing that the PHY and the consumer of the receive path's own module
may not do, so that module has not left out a neighbour. `AcceptedFramesArrive` says that preparation, ring, framer and release
never wait for one another in a circle: replies and announcements arrive as the frames they are, and
of beacons, of which there is one for each value of seven counts, some beacon does. `ReceiverNotOverrun` is a property of speed: the
handler keeps up with the wire.

**Clock crossing and LED.** `EveryFrameCounted` accounts for every flip of the toggle by the
count and the stage of the synchroniser it is in. `LedShowsActivity` bounds from both sides when
the LED is on. `MinEdges >= 2` is needed: with one system edge per eth cycle TLC finds
two flips that cancel in the synchroniser. At 100 and 25 MHz there are 3 to 5. That
`ethernet_status_hls` is called once per system clock is assumed: it has no PIPELINE pragma, and a call
that took longer would miss events that last one cycle.

**Formats.** `DatagramIsRead` compares what the two parsers return with what a sender
means, over headers with options and with version, total length, UDP length, fragment and
protocol fields that may all lie, at two offsets among bytes of an earlier packet. `ViewsNest` says
that no such field leads outside what was received. `HostRecognisesFrames` and
`BeaconTellsCounts` run the host of `tests/hw/ethernet.py` against the frames of the board:
the request it builds is understood, each frame is taken for what it is and nothing else,
and the numbers in a beacon's text are the counters, all 32 bits.

**Rings under the pragmas.** `RingLag` lets every read of a flag return any value it had at
the end of the last `Lag + 1` calls, unless this very call has written it. The ring is still a
FIFO as long as `Lag < Slots`: a consumer that takes one packet per call comes back to a slot
after `Slots` calls. An admitted frame is published as long as `Lag <= FrameCycles`. With
`Lag = 3` on 3 slots TLC finds a packet taken twice, and with `Lag = 2` and `FrameCycles = 1` a
lost frame, so both bounds are tight. The design has 8 and 4 slots and frames of more than
36 calls. How late a flag can be read is the depth of the synthesised pipeline, which the
sources do not fix: four calls of lag would be too many for the TX ring if its consumer took
a packet per call; it takes one per frame.

### Why the bounds are enough

Slots: with 2 slots a ring is empty, partly filled and full, and both indices wrap; 3 slots
(transmit) add a queue behind the frame being sent. Sizes: every comparison in the code is between an
index and one boundary, and the instances put each boundary within reach from both sides.
Counters
are taken modulo 2 or 4, so that they wrap within the run (`CounterMod`); in `rx_wire` and `tx_wire`,
whose properties do not look at the drop counter, it is left at zero (modulo 1). `MaxArrivals`
bounds the packets received in the handler's runs; 3 arrivals fill a ring of 2 slots, free one
and fill it again while earlier packets are parsed, answered and dropped. The preparation of
a frame must be shorter than the beacon interval for `QuietCadence`: it is 143 cycles
against 25 million in the code, and 10 against 12 in the run. Of `QuietBoardIsPunctual`, which proves
the property for every such pair, TLC evaluates the hypothesis `IntervalsFit` in that run.

`ReceiverNotOverrun` depends on a ratio of times, which the run keeps harder than the code.
In the code the handler is busy for at most 1 + 28 + 41 cycles with a request, which
takes at least 93 cycles on the wire, and 1 cycle with anything else, of which the shortest
is 37 cycles long; one beacon or announcement at a time keeps it for 143 cycles more, in
which at most 4 short frames arrive. The worst backlog is then far below 8 slots. In the run a beacon
takes 17 cycles, a request 11, and the shortest frame with its gap 9, against 4 slots. Which ratio
is enough is `KeepsUp`; `ReceiverKeepsUp` proves the property for every instance that has it, and
TLC evaluates it for the sizes of this run (`MCEndpointRate`). The
TX ring has no such margin: a reply takes longer on the wire than a request needs to
arrive, so that under a flood of requests it fills up and replies are declined, which
`ArpResponder` allows and the `endpoint` run reaches.

In `status` the hold-off is longer than the synchroniser, so that a frame may arrive
before, in and after it, and the counter wraps. In `formats` 72 bytes hold the longest header,
with all options, and a UDP header; the buffer is longer than any view, so that a length that
lies can point to bytes outside.

### Fairness

Only the clock is assumed to be fair: `WF(Clock)` in `ProtocolHandlerEnv` and, in `Endpoint`,
weak fairness of the next step of the call, whichever it is: one call per cycle
(`ap_ctrl_none`, `PIPELINE II=1`).
Nothing is assumed of the peers: packets need not arrive, the producer need not publish, and
for `RxNeverBlocked` the transmitter need never free a slot. Safety runs assume no fairness.

### Seeded faults

Definitions whose comment begins with "Seeded fault" are variants of the definition that follows
them, with an error one could make in the code. No specification uses them. Each property
of each run is known to fail when one of them takes the place of the original.

## 4. The proofs

Checked by TLAPS for all values of the constants, from named assumptions that TLC evaluates
in every run:

| assumption | says | in the code |
|---|---|---|
| `SlotsAssumption`, `CounterModAssumption`, `HandlerAssumption` | a ring has a slot, a counter a width | 8, 4, 2^32 |
| `RxSizesAssumption` | sizes of the receive path are positive | 14, 1500, 4, 15, 2^16 |
| `WireFramesAssumption` | the PHY presents non-empty byte sequences | any frame |
| `WireIndexAssumption` | the byte index does not wrap before the payload is full | 2^16 > 1518 |
| `TxSizesAssumption` | minimum body and preamble fit an 11-bit length; there is a gap | 60, 7, 24 |
| `WireBodiesAssumption` | what is published is bytes that fit in a slot, of a length the framer can count | `tx_payload_len` |
| `WireGapAssumption` | the gap has two nibbles or more | 24 |
| `FramesAssumption`, `WidthsAssumption` | addresses, EtherTypes and fixed fields are numbers, those of a kind equally wide | 6, 4, 2, 8 bytes |
| `BodiesAssumption` | every beacon is equally long; a slot holds the longest frame | 129, 1514 |
| `PathAssumption` | sizes of the receive path in the endpoint are positive; the byte index does not wrap before the payload is full | as above |
| `CollectorAssumption` | the station has the frame before its slot is freed, and notices that by the read index | gap of 24 nibbles, 4 slots |
| `LineAssumption` | a slot, the minimum body and the preamble fit an 11-bit length; addresses, EtherTypes, fixed fields and beacons are bytes | 1514, 60, 7 |
| `StationAssumption` | the station sends whole frames: bytes, with header and FCS, shorter than the byte index can count | 18 bytes and more, below 2^16 |
| `LagAssumption` | a lag and a frame's length are numbers of calls | |
| `CrossingAssumption` | two or more system edges per eth cycle; the hold-off is more than one cycle | 4; 12,500,000 |
| `IntervalsFit` (hypothesis of `QuietBoardIsPunctual`) | the longer interval is a multiple of the shorter, which outlasts every preparation | 125,000,000 = 5 * 25,000,000; 143 |
| `KeepsUp` (hypothesis of `ReceiverKeepsUp`) | the RX ring holds what arrives, in the shortest frames, while the longest frame is prepared and a request is parsed (and answered) | 143 + 28 <= 7 * 37 + 1; 143 + 28 + 42 <= 8 * 37 + 1 |
| `BufferAssumption`, `DatagramAssumption` | a buffer of at most 2047 bytes; views inside it | 1500 |

| theorem | states |
|---|---|
| `TypeCorrect` | `Spec => []TypeOK`: no index of the receive path leaves its buffer |
| `RxRingSafe` | `Spec => []AdmittedFrameOwnsSlot` |
| `PublishedPacketsStay` | `Spec => PublishedStays` |
| `RxRingIsFifo` | `WireSpec => RingIsFifo`: the receive path implements `PacketFifo` |
| `PublishedExactlyIfClean` | `WireSpec => PublishedIffClean` |
| `PublishedPacketIsTheFrame` | `WireSpec => PublishedIsTheFrame` |
| `TxTypeCorrect` | `Spec => []TxTypeOK`: no index of the framer leaves the frame |
| `TxRingSafe` | `Spec => []FramerOwnsReadSlot` |
| `SlotHeld` | `Spec => SlotHeldUntilGapEnds` |
| `ToggleIsParity` | `WireSafety => []ToggleCountsFrames` |
| `FlipIsWithFrame` | `WireSafety => ToggleFlipsWithFrame` |
| `GapHolds` | `WireSafety => GapIsKept` |
| `TxRingIsQueue` | `WireSafety => TxRingIsFifo`: the transmit path implements `PacketFifo` |
| `FreedAfterReception` | `WireSafety => FreedOnlyWhenReceived` |
| `FrameIsTheHead` | `WireSafety => FrameIsTheHeadPacket`: preamble, body, padding and FCS, nibble for nibble |
| `FrameFcsIsRemainder` | the FCS of that frame, `FcsOf` of any bytes, is `ReferenceFcs`: the IEEE 802.3 remainder |
| `RegisterIsRemainder` | `MessageSpec => []FcsIsRemainder` |
| `ResidueIsLeft` | `MessageSpec => []FcsLeavesResidue` |
| `SlotsAreOwned` | `EnvSafety => []HandlerOwnsItsSlots` |
| `CountsAgree` | `EnvSafety => []CountsAddUp` |
| `ParseIsParse` | `EnvSafety => StreamedParseIsParse` |
| `BeaconNumbers` | `EnvSafety => BeaconsAreNumbered` |
| `QuietBoardIsPunctual` | `IntervalsFit => (EnvSafety => QuietCadence)` |
| `PublishedBodyIsCalledFor` | `EnvSafety => PublishedBodyIsTheRequest` |
| `ReceivePathMeetsItsWire` | `EndpointSafety => ReceivePathIsDriven`: the endpoint drives its receive path as `EthernetRxWire` assumes |
| `ReceivedPacketsAreFrames` | `EndpointSafety => PublishedIffClean /\ PublishedIsTheFrame /\ RingIsFifo` |
| `NoFrameVanishes` | `EndpointSafety => []FramesAccountedFor` |
| `HandlerIsSafeInEndpoint` | `EndpointSafety => [](HandlerOwnsItsSlots /\ CountsAddUp)` |
| `HandlerIsExactInEndpoint` | `EndpointSafety => StreamedParseIsParse /\ PublishedBodyIsTheRequest` |
| `FramerIsSafeInEndpoint` | `EndpointSafety => []FramerOwnsReadSlot /\ SlotHeldUntilGapEnds` |
| `EndpointKeepsPost` | `EndpointSafety => PostSpec` of `ArpResponder`: which frames are sent, and when |
| `EndpointAnswersRequests` | `EndpointSafety => AnswersRequests`: all of `ArpResponder`, with the frames the station receives |
| `EndpointNumbersBeacons` | `EndpointSafety /\ BeaconsObserved => BeaconsAreNumbered` |
| `ReceiverKeepsUp` | `KeepsUp => (EndpointSafety => []ReceiverNotOverrun)` |
| `LateFlagsKeepFifo` | `Lag < Slots => (Spec => LateRingIsFifo)` |
| `AdmittedFramesAreKept` | `Lag < Slots /\ Lag <= FrameCycles => (Spec => AdmittedIsPublished)` |
| `FramesReachCounter` | `Spec => []EveryFrameCounted` |
| `LedFollowsActivity` | `Spec => []LedShowsActivity` |
| `DatagramViewsNest` | `DatagramSpec => []ViewsNest` |
| `DatagramReadAsMeant` | `DatagramSpec => []DatagramIsRead` |

**The ring.** That the slot at `write_idx` is still free at the end of a frame does not
follow from its having been free at the start: the consumer moves meanwhile. It follows
because a consumer only frees slots, and because the valid slots are always exactly those
from `read_idx` up to `write_idx`. That is `RingShape`, the strengthening without which neither
`AdmittedFrameOwnsSlot` nor `FramerOwnsReadSlot` is inductive. `FillKeepsShape` and `FreeKeepsShape`
in `PacketQueue` show that publishing into a free write slot and consuming a valid read slot
keep it; the proofs about both paths cite them through `OperationsKeepShape`.

**The refinement.** `PacketQueue` has, once for all rings, what the operations do to the sequence
of published slots under any view of a slot: `PublishAppends` (one more at the end, the others as
they were), `ConsumeTakesFirst`, and `OthersMayChange` (writes to unpublished slots do not
show). `Depth` is computed from the indices, which are equal when the ring is empty and when it is
full, so that both lemmas go through the cases of a wrapped index. Each of the three refinement
theorems then has to say which operation a step is, and that what it writes lies outside the
published slots.

For the transmit path the inductive invariant further says that `framer_active` holds exactly
when the framer is not in `TX_IDLE`, and that the slot and both lengths the framer has latched are
those at `read_idx`. `FramerProgress` lists the four things one cycle can do to flag, state
and ring together; the invariant and `SlotHeld` follow from that list. `TxTypeOK` is inductive
by itself since it bounds `byte_index` by the latched length, not by the 11-bit range.

`TypeOK` bounds `payload_count` and the delay line for frames of any length, also those
that wrap `byte_index`.

**What the parser has read.** `ReadsTheWire` relates the parser in the middle of a frame to
the bytes presented so far: while it searches they are all 0x55; afterwards there is a place
where the data starts, and header, delay line, payload count and the payload bytes in the slot are
functions of the data from there (`Took`, `Stored`). A byte comes into the slot `FcsBytes` bytes
late, and every count is held at a limit of its own. `ReadByte` is the step of one byte; `DataFromStart` shows that the place where
the parser takes the data to start is where `FrameData`, which sees the whole frame, has it.
Both theorems about content follow at the cycle where `eth_rx_dv` falls. The header is the one
static that a frame leaves to the next; it is cleared at the start, and `ReadsTheWire` needs that only
because what is published is compared byte for byte.

**The wire.** `HostInv` puts the framer's state beside what the host remembers: the frame bit
flips with the last nibble and the host sees the end one cycle later, so that bit and parity
differ exactly in the first cycle of the gap; the host's gap counter is the framer's.
`FreedOnlyWhenReceived` needs two cycles between the last nibble and the release, which is where
`WireGapAssumption` comes from.

**What is on the wire.** `ContentInv` follows the frame nibble by nibble: what the host has
is the beginning of the reference frame of the packet at the head (`HostHasSent`), and the
framer's register covers exactly the body bytes sent so far (`CrcCoversSent`). It needs that a
published packet fits in its slot (`PacketsFit`): past the slot the framer would send zeros for
the body. The reference forms the FCS in one go over the padded body, with a recursive function
of the number of bytes, and the framer byte by byte. That such a function exists for every length, and
that it takes one byte at a time (`CrcSteps`), is an induction over data, which the library's
theorems with an operator parameter do not give; it is done for a set, by a smallest counterexample
(`AllNumbers`, from `WFMin`). `SendingCycle` lists what each cycle of a frame does, `SentGrows` that it
advances by one nibble, `EmitsFrameByte` that this nibble is the next of the reference.
`FlipIsWithFrame` rests on both: the flag changes only from the FCS to the gap (`FlipsAfterFcs`), where
`HostHasSent` has the whole frame, and before that there are bytes left (`FramerHasBytesLeft`).

**The handler.** `SlotInv` adds to `HandlerOwnsItsSlots` the ring shape in the weak form `Ring`,
which says nothing of what slots hold, so that nothing need be assumed of the packets that
arrive. A slot under parse survives the receiver because it is valid and the receiver
writes only to the free slot at `write_idx`; a slot being filled stays free because the transmitter
only lowers flags. `ParseInv` says that the bytes kept so far are those in the slot, except
for the target MAC, which the code does not keep and no field compared touches (`FieldsAgree`).
`CountInv` needs the range of the counters: `SumKept` is about sums that wrap. `NumberInv`
relates the counter, which moves when a beacon starts, to the observer's, which moves when it is
published; between the two they differ by one. With a TX ring of one slot the observer,
who watches `write_idx`, sees no publication, and the theorem says nothing.

`CadenceInv` is about the timers. They stay in step (`TimersInv`): the longer shows whole intervals of
the shorter and what the shorter shows, so that a tick of the longer is one of both (`TimersMeet`).
Before the first packet nothing waits and no parse is under way, and what is left of a preparation
fits in what is left of the shorter interval (`QuietInv`); at a tick therefore nothing stands in
the way of the frame but the TX ring, which `QuietCadence` asks about. A preparation begins at a
tick, and that it is over before the next one is what `IntervalsFit` is for.

`BodyInv` is about the frame being prepared: the bytes of the slot below `prepare.index` are those the
request calls for, and the request is one that the handler makes (`Made`). `FrameIsTheBody` shows
that the function of an index which the code evaluates, `FrameBodyByte` with its nested
comparisons, is the concatenation of the fields; for that the fields of a kind must have equal
widths (`WidthsAssumption`). That the length announced is the length of the body is
`MadeIsLong`.

**The composition.** `Driven` says that the station's record and the assembler agree whether a
frame is on the wire, and that the packet under parse is still valid. With it every action of
`Endpoint` is a step of `EthernetRxWire` or leaves its variables alone (`CallIsWireStep`): a step
of the station is one of the PHY, taking a packet and ending a parse are `ConsumePacket`, and the
transmit step is a stutter. The handler frees the slot of a parse without another look at its
flag; that this is a legal `ConsumePacket` is what `Driven` is for, and it is kept because
a receive step never lowers the flag at `read_idx` (`ReceivingKeepsWaiting`). The theorems of
`EthernetRxProofs` then hold of the endpoint by instantiation, with the station's wire in the
place of the variable `wire`. `NoFrameVanishes` needs one of their lemmas: that a whole frame which was
admitted is published at its end, and not lost to an error or a second look at the flag
(`WholeFramesArePublished`). What remains is to follow one frame through the sum: refused, it is
counted as it begins, and as ended only later; published, it adds one to `Depth`; taken, it moves
from the ring to the counter, or first to the counter and, after the parse, out of the ring.
The counters wrap, the depth does not, so the sum is taken modulo `CounterMod`
(`WrapsInSum`, `BumpsInSum`). A station whose frames may be too short for a header and an FCS is
excluded: such a frame is dropped and counted nowhere.

For the handler and the framer the argument is circular and has to be made by rely and
guarantee. `HandlerProofs` proves its invariants not from the neighbours of
`ProtocolHandlerEnv` but from `Rely`: what is published in the RX ring stays, and nothing is published
in the TX ring, by others (`ByProducer` and `ByConsumer` of `PacketQueue`). The neighbours
of `ProtocolHandlerEnv` satisfy it, and so do those of `Endpoint`: the receive step because a
frame owns the write slot it fills (`ReceiveIsRely`), the transmit step because the framer
frees only the packet it has sent (`TransmitIsRely`). The second in turn needs `FramerInv`, which is
kept because the handler is a producer that alters no published packet (`HandlerOnTxRing`).
`Joint` is the conjunction of the four invariants, inductive only as a whole.

**The responder.** `EndpointKeepsPost` is the refinement of `ArpResponder` under the mapping the run
`endpoint` uses, without the variable `received`. Five steps of the code are steps of it:
publishing in the RX ring is `Receive`; dropping a packet and ending its parse are `Decline` or
`Answer`; the first byte of a preparation, not its publication, puts a frame into the outbox,
so that `PreparingOnOutbox` has to show that publication moves the frame from `prepare` to the
ring without a change outside, which is where the exactness of the bodies comes in; the first
cycle of the gap is `Deliver`; freeing the slot is `Release`. That a request is answered unless the
outbox is full holds because a preparation occupies the write slot: a free write slot and
no preparation mean that there is room for one more (`StartOnOutbox`). `CollectorInv` says that the
station pairs nibbles in step with the framer and has bytes of every frame whose gap begins.

`EndpointAnswersRequests` adds what the station receives, and with it proves all of `ArpResponder`.
The lemmas of `EthernetTxProofs` about the framer and its register are used by instantiation, with
the station in the place of the host (`Line`). Three things are new. The bodies are no longer a
constant set but what the handler makes: that they are bytes and fit in a slot follows
from the station's frames through the parse, the request and the cycle that stores each byte
(`BytesInv`). The station keeps bytes where the host kept nibbles: `StationHasSent` says that
its bytes, with the low nibble of the next, are the frame sent so far. And the reference frame is
that of the packet first in the outbox, in the ring by the time the framer has it
(`FirstInOutbox`). At a delivery the station takes that frame (`Receipt`), in
any other call it takes none (`OthersKeepContent`).

`EndpointNumbersBeacons` adds to the endpoint the observer of `ProtocolHandlerEnv`, who counts the
beacons published (`BeaconsObserved`). `NumberInv` is kept under what the handler relies on
(`NumbersNext`), and that is what `Joint` supplies.

**Keeping up.** `KeepingUp` counts time as work: the cycles until the handler is done with the
oldest packet, its reply included (`ToAnswer`), the cycles that those behind it have lasted on the
line at the least (`Behind`), and those of the frame under way. Every call adds one cycle on the
line, and the handler takes one off (`HandlerWorks`). When a frame ends its cycles
become those of its packet; that a packet with an ARP payload comes from a frame long enough to
carry it is `PublishedFits` of `EthernetRxProofs`. When a packet is done, the next one has lasted at
least as long as was spent on it, or its work fits in what the oldest packet may still
cost (`FreeingWorks`), so the sum stays below `Limit`. An announcement or a beacon begins only when
nothing waits, and adds to nothing; it is the first to be paid when a packet arrives meanwhile. A
full ring would be more work than there can be (`RoomForAFrame`). How fast the TX ring drains does not
matter, since a reply that finds no room takes no time. The gap between frames is not
used: the bound holds for a line with a single idle cycle between frames.

**The FCS.** The reference divides from the top, one row per power of x; the register goes from
bit to bit of the message. `RowOf` relates the two: after `k` bits the row of the division is the
register, mirrored, next to the bits of the message that are not read yet, and a turn of the register
is the next row (`NextRow`). Complementing the first 32 bits is the initial value of the register
(`FirstRow`); after the last bit only the register is left (`LastRow`). The four bytes carry its
complement in the order in which they are sent (`FcsIsMirrored`). That the table of rows
exists is shown by its smallest counterexample (`TableExists`). As for the residue: each bit of the FCS is
the complement of the one that leaves the register, so that all the message has put there
drops out, and what remains is an empty register fed with 32 ones (`TurnOfFcs`, `ResidueOfOnes`).

**Late flags.** The invariant `LagInv` bounds how much of the past a late read can reach. A packet
published `k` calls ago lies at most `k` slots behind `write_idx`, since a call publishes
at most one; so the flags of the last `Lag + 1` calls agree with the present one wherever the
index comes within that distance (`SeesPublished`, `SeesFreed`). With `Lag < Slots` an index comes to a
slot only when everything it may see of it is true (`FoundFree`, `FoundPublished`): a flag that is
late can make a ring look fuller to its producer and emptier to its consumer, never the reverse.
`AdmittedSeesFree` counts the calls since a frame was admitted: nothing it may see of its slot is
older than its own claim once it has lasted `Lag` calls.

**Clock crossing.** For the count, the invariant says that no two flips are ever in the same
place: the source differs from the first bit only while the next edge may still miss the flip.
For the LED, `LedInv` has one part for each of the observer's clocks: how long the wire has been
active against the stages of the synchroniser (`HighInv`), how long it has been idle against
the timer (`IdleInv`), how long nothing has been in the synchroniser either (`QuietInv`). Where
reception gives way to transmission a sample may miss both signals; with a hold-off of one cycle
the LED then goes dark in the middle of activity, as TLC finds. Hence `Holdoff > 1`.

**Packet views.** `NestInv` adds that the views handed on are legal, offset and length below
2048 and inside the buffer, so that none of the 11-bit sums wraps. `DatagramReadAsMeant` compares
the code's shifts, masks and sums, each in its width, with the sender's meaning: that there
is at most one header length and one payload length for which a packet is an IPv4 packet, and
that the parser finds it.

**Only model-checked.** Everything that needs fairness (`RxNeverBlocked`,
`AcceptedFramesArrive`): out of the prover's reach.
`HostRecognisesFrames` and `BeaconTellsCounts` are about one format, which the run evaluates with its
real sizes.

## 5. Where code and documentation differ

* `README.md:27` has beacons sent periodically. The timers start together and the announcement
  interval is a multiple of the beacon interval, so that both tick in one cycle every five
  seconds; the beacon branch is the `else` of the announcement (`ethernet_protocol_handler.h:121`).
  Every fifth beacon is missing, on a quiet network too (`beacon_cadence`).
* `README.md:137-138` has an announcement every five seconds. A tick that meets a waiting
  packet, a parse or a preparation is lost; in the trace of `announce_cadence` it is a parse.
  `QuietCadence` is what remains true.

Not contradictions but worth knowing: a host whose IP address ends in a zero byte does not
recognise the board's reply, because `parse_frame` strips that byte with the padding and
what is left is too short for an ARP packet (`tests/hw/ethernet.py:82,88`). And `arp_reply_count` counts replies decided upon, also
those dropped at the full TX ring (`ethernet_protocol_handler.h:240`), while
`uptime_beacon_count` counts only beacons that found room (line 137).

## 6. Not modelled

* PLL, clock output and reset of `hls_top.v`: vendor primitives, and a reset whose effect on the
  statics the synthesis tool decides. That `eth_rx_clk` drives the TX pins is a hazard
  (`hls_top.v:74`) about the clocks of a PHY the repository does not contain.
* `mii_rx_monitor.v`: not instantiated. `rtl/`: the older design, a free-running LED counter.
* Test cases of `hls_ethernet/tb/` and `tests/hw/`, raw sockets and their timeouts: the ways
  the benches present, build and collect frames are the station of `Endpoint` and `HostHelpers`.
* Build scripts and constraints. What the synthesis tool makes of the code is modelled in one
  respect only, the late flags of `RingLag`.

## 7. Plan

Done: ring, receive path, transmit path with CRC, handler, late flags; the composition and what
it promises; clock crossing and status; formats; proofs about both paths with their refinements
of `PacketFifo`, the wire at both ends with the content of frames, the handler's bookkeeping, parse and bodies, late flags,
the crossing and the LED, views and datagrams; the three steps inside the composition, and
what the composition promises, down to the nibbles received; punctual announcements on a quiet board
and a receiver that keeps up with the line, for all sizes that allow it; an FCS that is the one of the standard.
