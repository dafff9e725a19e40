----------------------------- MODULE EthernetRx -----------------------------
(***************************************************************************)
(* The receive path: ethernet_rx_queue_step with the MII byte assembler    *)
(* and the frame parser it calls.  A step is one cycle of eth_rx_clk; its  *)
(* inputs are the pins eth_rx_dv, eth_rxd and eth_rxerr.  The payload of   *)
(* the frame being received is stored straight into the ring slot at       *)
(* write_idx, or into a scratch buffer nobody reads (left out here) when   *)
(* that slot was still in use as the frame began.                          *)
(*                                                                         *)
(* Sizes are constants, so that TLC can use small ones.                    *)
(***************************************************************************)
EXTENDS Integers, Sequences

CONSTANTS
  RxSlots,                \* 8
  CounterMod,             \* 2^32
  ETH_HEADER_BYTES,       \* 14
  MAX_ETH_PAYLOAD_BYTES,  \* 1500
  FcsBytes,               \* 4: length of rx_fcs_tail
  PreambleCountMax,       \* 15: rx_preamble_count is an ap_uint<4>
  ByteIndexMod            \* 2^16: rx_byte_index is an ap_uint<16>

ASSUME RxSizesAssumption ==
  /\ RxSlots \in Nat \ {0}
  /\ CounterMod \in Nat \ {0}
  /\ ETH_HEADER_BYTES \in Nat \ {0}
  /\ MAX_ETH_PAYLOAD_BYTES \in Nat \ {0}
  /\ FcsBytes \in Nat \ {0}
  /\ PreambleCountMax \in Nat \ {0}
  /\ ByteIndexMod \in Nat \ {0}

VARIABLES
  assembler,        \* statics of mii_rx_byte_assembler_step
  parser,           \* statics of ethernet_rx_parser_step
  rx_drop_current,  \* the frame on the wire found no free slot
  rx_queue          \* shared with the protocol handler

vars == << assembler, parser, rx_drop_current, rx_queue >>

RQ == INSTANCE PacketQueue WITH Slots <- RxSlots

Nibble == 0 .. 15
Byte == 0 .. 255
HeaderIndex == 0 .. ETH_HEADER_BYTES - 1
PayloadIndex == 0 .. MAX_ETH_PAYLOAD_BYTES - 1
Header == [HeaderIndex -> Byte]
RxPacketMeta ==
  [header : Header, payload_len : 0 .. MAX_ETH_PAYLOAD_BYTES, truncated : BOOLEAN]

ZeroHeader == [i \in HeaderIndex |-> 0]
ZeroPayload == [i \in PayloadIndex |-> 0]
ZeroMeta == [header |-> ZeroHeader, payload_len |-> 0, truncated |-> FALSE]

----------------------------------------------------------------------------
(* The parser, as functions of its statics.  fcs_tail is the delay line    *)
(* that keeps the last FcsBytes bytes, which may prove to be the FCS; its  *)
(* length is rx_fcs_tail_count.                                            *)

FreshParser ==
  [state |-> "RX_SEARCH", preamble_count |-> 0, byte_index |-> 0,
   frame_error |-> FALSE, header |-> ZeroHeader, fcs_tail |-> << >>,
   payload_count |-> 0, truncated |-> FALSE]

LatchError(p, err) == [p EXCEPT !.frame_error = @ \/ err]

TailFull(p) == Len(p.fcs_tail) = FcsBytes

\* A full delay line gives up its oldest byte, which is payload for certain.
rx_capture_payload_byte(p, byte) ==
  IF ~TailFull(p)
    THEN [p EXCEPT !.fcs_tail = Append(@, byte)]
  ELSE IF p.payload_count < MAX_ETH_PAYLOAD_BYTES
    THEN [p EXCEPT !.fcs_tail = Append(Tail(@), byte), !.payload_count = @ + 1]
    ELSE [p EXCEPT !.fcs_tail = Append(Tail(@), byte), !.truncated = TRUE]

SkipsPreamble(p, byte) == p.state = "RX_SEARCH" /\ byte = 85           \* 0x55

\* Seeded fault: a first byte 0xd5 passes for an SFD without preamble.
SkipsSfd_Alone(p, byte) == p.state = "RX_SEARCH" /\ byte = 213

SkipsSfd(p, byte) ==                                                   \* 0xd5
  p.state = "RX_SEARCH" /\ byte = 213 /\ p.preamble_count # 0

IsDataByte(p, byte) == ~SkipsPreamble(p, byte) /\ ~SkipsSfd(p, byte)

DataByte(p, byte) ==
  LET stored == IF p.byte_index < ETH_HEADER_BYTES
                  THEN [p EXCEPT !.header[p.byte_index] = byte]
                  ELSE rx_capture_payload_byte(p, byte)
  IN  [stored EXCEPT !.state = "RX_DATA",
                     !.byte_index = (@ + 1) % ByteIndexMod]

\* Seeded fault: the preamble counter is not held at its maximum.
SaturatedPreamble_NoLimit(n) == n + 1

SaturatedPreamble(n) == IF n = PreambleCountMax THEN n ELSE n + 1

ParseByte(p, byte) ==
  IF SkipsPreamble(p, byte)
    THEN [p EXCEPT !.preamble_count = SaturatedPreamble(@)]
  ELSE IF SkipsSfd(p, byte)
    THEN [p EXCEPT !.state = "RX_DATA", !.byte_index = 0]
    ELSE DataByte(p, byte)

\* ParseByte stores a byte into the payload buffer.
StoresPayload(p, byte) ==
  /\ IsDataByte(p, byte)
  /\ p.byte_index >= ETH_HEADER_BYTES
  /\ TailFull(p)
  /\ p.payload_count < MAX_ETH_PAYLOAD_BYTES

\* Seeded fault: eth_rxerr is ignored.
MetaValid_AnyError(p) == p.byte_index >= ETH_HEADER_BYTES + FcsBytes /\ TailFull(p)

MetaValid(p) ==
  /\ p.byte_index >= ETH_HEADER_BYTES + FcsBytes
  /\ TailFull(p)
  /\ ~p.frame_error

MetaOf(p) ==
  [header |-> p.header, payload_len |-> p.payload_count,
   truncated |-> p.truncated]

----------------------------------------------------------------------------
(* One cycle.  rxd is the nibble on eth_rxd, err says eth_rxerr is high.   *)

Init ==
  /\ assembler = [in_frame |-> FALSE, have_low |-> FALSE, low_nibble |-> 0]
  /\ parser = FreshParser
  /\ rx_drop_current = FALSE
  /\ rx_queue = RQ!EmptyQueue(ZeroMeta, ZeroPayload)

\* Seeded fault: the ring is not asked for a free slot.
FrameStart_AlwaysAdmits(rxd, err) ==
  /\ ~assembler.in_frame
  /\ assembler' = [in_frame |-> TRUE, have_low |-> TRUE, low_nibble |-> rxd]
  /\ parser' = LatchError(FreshParser, err)
  /\ UNCHANGED << rx_drop_current, rx_queue >>

\* First cycle with eth_rx_dv: the fate of the whole frame is decided here.
FrameStart(rxd, err) ==
  LET available == RQ!packet_queue_write_slot_available(rx_queue) IN
  /\ ~assembler.in_frame
  /\ assembler' = [in_frame |-> TRUE, have_low |-> TRUE, low_nibble |-> rxd]
  /\ parser' = LatchError(FreshParser, err)
  /\ rx_drop_current' = ~available
  /\ rx_queue' = IF available THEN rx_queue
                 ELSE RQ!packet_queue_drop_write(rx_queue)

LowNibble(rxd, err) ==
  /\ assembler.in_frame
  /\ ~assembler.have_low
  /\ assembler' = [assembler EXCEPT !.have_low = TRUE, !.low_nibble = rxd]
  /\ parser' = LatchError(parser, err)
  /\ UNCHANGED << rx_drop_current, rx_queue >>

\* The second nibble completes a byte, which the parser takes at once.
HighNibble(rxd, err) ==
  LET byte == 16 * rxd + assembler.low_nibble IN
  /\ assembler.in_frame
  /\ assembler.have_low
  /\ assembler' = [assembler EXCEPT !.have_low = FALSE]
  /\ parser' = ParseByte(LatchError(parser, err), byte)
  /\ rx_queue' =
       IF StoresPayload(parser, byte) /\ ~rx_drop_current
         THEN RQ!StoreByte(rx_queue, rx_queue.write_idx,
                           parser.payload_count, Head(parser.fcs_tail))
         ELSE rx_queue
  /\ UNCHANGED rx_drop_current

\* Seeded fault: a refused frame is published if a slot is free by now.
FrameEnd_TriesAgain(err) ==
  LET ended == LatchError(parser, err) IN
  /\ assembler.in_frame
  /\ assembler' = [assembler EXCEPT !.in_frame = FALSE, !.have_low = FALSE]
  /\ parser' = [FreshParser EXCEPT !.header = parser.header]
  /\ rx_drop_current' = FALSE
  /\ rx_queue' = IF MetaValid(ended)
                   THEN RQ!packet_queue_publish_write_slot(rx_queue, MetaOf(ended))
                   ELSE rx_queue

\* eth_rx_dv fell; an error on this very cycle still counts.  The header is
\* the one static that is not cleared here (FrameStart clears it).
FrameEnd(err) ==
  LET ended == LatchError(parser, err) IN
  /\ assembler.in_frame
  /\ assembler' = [assembler EXCEPT !.in_frame = FALSE, !.have_low = FALSE]
  /\ parser' = [FreshParser EXCEPT !.header = parser.header]
  /\ rx_drop_current' = FALSE
  /\ rx_queue' =
       IF MetaValid(ended) /\ ~rx_drop_current
         THEN RQ!packet_queue_publish_write_slot(rx_queue, MetaOf(ended))
         ELSE rx_queue

LineIdle(err) ==
  /\ ~assembler.in_frame
  /\ assembler' = [assembler EXCEPT !.have_low = FALSE]
  /\ parser' = LatchError(parser, err)
  /\ UNCHANGED << rx_drop_current, rx_queue >>

ethernet_rx_queue_step(dv, rxd, err) ==
  IF dv THEN FrameStart(rxd, err) \/ LowNibble(rxd, err) \/ HighNibble(rxd, err)
        ELSE FrameEnd(err) \/ LineIdle(err)

\* The other side of the ring, on its own: the protocol handler frees the
\* packet at read_idx after it has seen it valid, and writes nothing else.
ConsumePacket ==
  /\ RQ!packet_queue_read_slot_valid(rx_queue)
  /\ rx_queue' = RQ!packet_queue_consume_read_slot(rx_queue)
  /\ UNCHANGED << assembler, parser, rx_drop_current >>

Next ==
  \/ \E dv \in BOOLEAN, rxd \in Nibble, err \in BOOLEAN :
       ethernet_rx_queue_step(dv, rxd, err)
  \/ ConsumePacket

Spec == Init /\ [][Next]_vars

----------------------------------------------------------------------------
(* Properties. *)

ParserType ==
  [state : {"RX_SEARCH", "RX_DATA"},
   preamble_count : 0 .. PreambleCountMax,
   byte_index : 0 .. ByteIndexMod - 1,
   frame_error : BOOLEAN,
   header : Header,
   fcs_tail : Seq(Byte),
   payload_count : 0 .. MAX_ETH_PAYLOAD_BYTES,
   truncated : BOOLEAN]

ParserOK(p) == p \in ParserType /\ Len(p.fcs_tail) <= FcsBytes

\* No index of the receive path leaves its buffer: the preamble counter
\* saturates, the delay line never holds more than the FCS and the payload
\* count never passes the end of the slot, whatever the length of a frame.
TypeOK ==
  /\ assembler \in [in_frame : BOOLEAN, have_low : BOOLEAN, low_nibble : Nibble]
  /\ ParserOK(parser)
  /\ rx_drop_current \in BOOLEAN
  /\ rx_queue \in RQ!QueueType(RxPacketMeta, [PayloadIndex -> Byte])

\* A packet that has been published and not been freed yet is not altered
\* (the slots beyond the write index are the parser's to write).
PublishedStays ==
  [][\A s \in RQ!Slot :
       rx_queue.valid[s] /\ rx_queue'.valid[s] =>
         /\ rx_queue'.meta[s] = rx_queue.meta[s]
         /\ rx_queue'.bytes[s] = rx_queue.bytes[s]]_vars

\* A frame that was admitted (ethernet_rx_queue.h:40 found the slot free)
\* still owns a free slot when it ends, whatever the consumer did meanwhile,
\* and the ring keeps its shape: publishing at line 74 cannot fail, and the
\* parser never stores into a slot the handler may be reading.
AdmittedFrameOwnsSlot ==
  /\ RQ!RingShape(rx_queue)
  /\ assembler.in_frame /\ ~rx_drop_current
       => RQ!packet_queue_write_slot_available(rx_queue)

=============================================================================
