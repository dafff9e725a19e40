----------------------------- MODULE EthernetTx -----------------------------
(***************************************************************************)
(* The transmit path: ethernet_tx_queue_step, which takes packets out of   *)
(* the TX ring, and the framer it calls in the same cycle, which puts one  *)
(* on the wire nibble by nibble.  A step is one cycle of the 25 MHz clock. *)
(* The framer reads the body straight from the ring slot while the frame   *)
(* is being sent, so the slot is freed only when the framer is idle again. *)
(***************************************************************************)
EXTENDS Crc32

CONSTANTS
  TxSlots,                  \* 4
  CounterMod,               \* 2^32
  TX_FRAME_BODY_BYTES,      \* 1514: size of a slot
  MaxBodyLen,               \* 2^11 - 1: lengths are ap_uint<11>
  MIN_ETH_FRAME_BODY_BYTES, \* 60
  SfdIndex,                 \* 7: number of preamble bytes before the SFD
  IFG_NIBBLES               \* 24

ASSUME TxSizesAssumption ==
  /\ TxSlots \in Nat \ {0}
  /\ CounterMod \in Nat \ {0}
  /\ TX_FRAME_BODY_BYTES \in Nat \ {0}
  /\ MaxBodyLen \in Nat
  /\ MIN_ETH_FRAME_BODY_BYTES \in 1 .. MaxBodyLen
  /\ SfdIndex \in 0 .. MaxBodyLen
  /\ IFG_NIBBLES \in Nat \ {0}

VARIABLES
  tx_queue,         \* shared with the protocol handler
  framer_active,    \* the framer has a packet of the ring
  framer_slot_idx,  \* its slot
  framer,           \* statics of ethernet_tx_framer_step
  pins              \* outputs of the last cycle

txVars == << tx_queue, framer_active, framer_slot_idx, framer, pins >>

TQ == INSTANCE PacketQueue WITH Slots <- TxSlots

Nibble == 0 .. 15
Byte == 0 .. 255
BodyLen == 0 .. MaxBodyLen
BodyIndex == 0 .. TX_FRAME_BODY_BYTES - 1

ZeroBody == [i \in BodyIndex |-> 0]

TxQueueType == TQ!QueueType(BodyLen, [BodyIndex -> Byte])

----------------------------------------------------------------------------
(* What the framer computes. *)

\* Seeded fault: padding shows what an earlier packet left in the slot.
tx_frame_body_byte_Stale(body, i, len) ==
  IF i >= TX_FRAME_BODY_BYTES THEN 0 ELSE body[i]

\* Bytes beyond the packet read as zero: the padding of short frames.
tx_frame_body_byte(body, i, len) ==
  IF i >= len \/ i >= TX_FRAME_BODY_BYTES THEN 0 ELSE body[i]

PreambleByte(i) == IF i = SfdIndex THEN 213 ELSE 85        \* 0xd5, 0x55

\* Seeded fault: no padding.
PaddedLen_AsIs(len) == len

PaddedLen(len) ==
  IF len < MIN_ETH_FRAME_BODY_BYTES THEN MIN_ETH_FRAME_BODY_BYTES ELSE len

Quiet(frame) == [en |-> 0, d |-> 0, toggle |-> frame, active |-> 0]

\* mii_tx_emit_byte_step: the low nibble goes first.
Emit(byte, f) ==
  [en |-> 1, d |-> IF f.nibble_phase THEN byte \div 16 ELSE byte % 16,
   toggle |-> f.frame, active |-> 1]

----------------------------------------------------------------------------
(* One cycle, by the state the framer is in.  Everything the queue step    *)
(* does around the framer is in StartRequest, CurrentSlot and Handshake.   *)

Init ==
  /\ tx_queue = TQ!EmptyQueue(0, ZeroBody)
  /\ framer_active = FALSE
  /\ framer_slot_idx = 0
  /\ framer = [state |-> "TX_IDLE", nibble_phase |-> FALSE, byte_index |-> 0,
               fcs_index |-> 0, ifg_count |-> 0, crc |-> CrcInit, fcs |-> {},
               len |-> 0, frame_body_len |-> 0, frame |-> FALSE]
  /\ pins = Quiet(FALSE)

StartRequest == ~framer_active /\ TQ!packet_queue_read_slot_valid(tx_queue)

CurrentSlot == IF StartRequest THEN tx_queue.read_idx ELSE framer_slot_idx

\* Seeded faults: the slot is freed as soon as its frame begins; never.
Handshake_FreesAtStart(tx_idle) ==
  /\ framer_slot_idx' = CurrentSlot
  /\ framer_active' = ((framer_active \/ StartRequest) /\ ~tx_idle)
  /\ tx_queue' = IF StartRequest THEN TQ!packet_queue_consume_read_slot(tx_queue)
                                ELSE tx_queue

Handshake_NeverFrees(tx_idle) ==
  /\ framer_slot_idx' = CurrentSlot
  /\ framer_active' = ((framer_active \/ StartRequest) /\ ~tx_idle)
  /\ UNCHANGED tx_queue

Handshake(tx_idle) ==
  LET active == framer_active \/ StartRequest IN
  /\ framer_slot_idx' = CurrentSlot
  /\ framer_active' = (active /\ ~tx_idle)
  /\ tx_queue' = IF active /\ tx_idle
                   THEN TQ!packet_queue_consume_read_slot(tx_queue)
                   ELSE tx_queue

IdleCycle ==
  LET rested == [framer EXCEPT !.nibble_phase = FALSE, !.byte_index = 0,
                               !.fcs_index = 0, !.crc = CrcInit]
      len == tx_queue.meta[tx_queue.read_idx]
  IN
  /\ framer.state = "TX_IDLE"
  /\ framer' = IF StartRequest
                 THEN [rested EXCEPT !.len = len, !.frame_body_len = PaddedLen(len),
                                     !.state = "TX_PREAMBLE"]
                 ELSE rested
  /\ pins' = Quiet(framer.frame)
  /\ Handshake(~StartRequest)

PreambleCycle ==
  LET last == framer.byte_index = SfdIndex
      turned == [framer EXCEPT !.nibble_phase = ~@]
  IN
  /\ framer.state = "TX_PREAMBLE"
  /\ framer' = IF ~framer.nibble_phase THEN turned
               ELSE IF last THEN [turned EXCEPT !.state = "TX_DATA", !.byte_index = 0]
                            ELSE [turned EXCEPT !.byte_index = @ + 1]
  /\ pins' = Emit(PreambleByte(framer.byte_index), framer)
  /\ Handshake(FALSE)

DataCycle ==
  LET byte == tx_frame_body_byte(tx_queue.bytes[CurrentSlot], framer.byte_index,
                                 framer.len)
      last == framer.byte_index = framer.frame_body_len - 1
      next_crc == crc32_next_byte(framer.crc, byte)
      turned == [framer EXCEPT !.nibble_phase = ~@]
      folded == [turned EXCEPT !.crc = next_crc]
  IN
  /\ framer.state = "TX_DATA"
  /\ framer' = IF ~framer.nibble_phase THEN turned
               ELSE IF last THEN [folded EXCEPT !.state = "TX_FCS", !.fcs_index = 0,
                                                !.fcs = Complement(next_crc)]
                            ELSE [folded EXCEPT !.byte_index = @ + 1]
  /\ pins' = Emit(byte, framer)
  /\ Handshake(FALSE)

\* Seeded faults: the toggle does not flip; the gap counter is not reset.
FrameSent_NoToggle(f) == [f EXCEPT !.state = "TX_IFG", !.ifg_count = 0]

FrameSent_KeepsGapCount(f) == [f EXCEPT !.state = "TX_IFG", !.frame = ~@]

\* The frame toggle flips with the last nibble, before the gap begins.
FrameSent(f) == [f EXCEPT !.state = "TX_IFG", !.ifg_count = 0, !.frame = ~@]

\* Seeded fault: the toggle flips with the first FCS byte.
FcsCycle_TogglesEarly ==
  LET last == framer.fcs_index = 3
      turned == [framer EXCEPT !.nibble_phase = ~@,
                               !.frame = IF framer.nibble_phase /\ framer.fcs_index = 0
                                           THEN ~@ ELSE @]
  IN
  /\ framer.state = "TX_FCS"
  /\ framer' = IF ~framer.nibble_phase THEN turned
               ELSE IF last THEN [turned EXCEPT !.state = "TX_IFG", !.ifg_count = 0]
                            ELSE [turned EXCEPT !.fcs_index = @ + 1]
  /\ pins' = [Emit(WordByte(framer.fcs, framer.fcs_index), framer)
                EXCEPT !.toggle = framer'.frame]
  /\ Handshake(FALSE)

FcsCycle ==
  LET last == framer.fcs_index = 3
      turned == [framer EXCEPT !.nibble_phase = ~@]
  IN
  /\ framer.state = "TX_FCS"
  /\ framer' = IF ~framer.nibble_phase THEN turned
               ELSE IF last THEN FrameSent(turned)
                            ELSE [turned EXCEPT !.fcs_index = @ + 1]
  /\ pins' = [Emit(WordByte(framer.fcs, framer.fcs_index), framer)
                EXCEPT !.toggle = framer'.frame]
  /\ Handshake(FALSE)

GapCycle ==
  LET last == framer.ifg_count = IFG_NIBBLES - 1 IN
  /\ framer.state = "TX_IFG"
  /\ framer' = IF last THEN [framer EXCEPT !.state = "TX_IDLE"]
                       ELSE [framer EXCEPT !.ifg_count = @ + 1]
  /\ pins' = Quiet(framer.frame)
  /\ Handshake(last)

ethernet_tx_queue_step ==
  IdleCycle \/ PreambleCycle \/ DataCycle \/ FcsCycle \/ GapCycle

----------------------------------------------------------------------------
(* The other side of the ring, on its own: the protocol handler fills the  *)
(* free write slot byte by byte, publishes it, or counts a packet that     *)
(* found the write slot in use.                                            *)

FillByte(i, byte) ==
  /\ TQ!packet_queue_write_slot_available(tx_queue)
  /\ tx_queue' = TQ!StoreByte(tx_queue, tx_queue.write_idx, i, byte)
  /\ UNCHANGED << framer_active, framer_slot_idx, framer, pins >>

PublishPacket(len) ==
  /\ TQ!packet_queue_write_slot_available(tx_queue)
  /\ tx_queue' = TQ!packet_queue_publish_write_slot(tx_queue, len)
  /\ UNCHANGED << framer_active, framer_slot_idx, framer, pins >>

DropPacket ==
  /\ ~TQ!packet_queue_write_slot_available(tx_queue)
  /\ tx_queue' = TQ!packet_queue_drop_write(tx_queue)
  /\ UNCHANGED << framer_active, framer_slot_idx, framer, pins >>

Next ==
  \/ ethernet_tx_queue_step
  \/ \E i \in BodyIndex, byte \in Byte : FillByte(i, byte)
  \/ \E len \in BodyLen : PublishPacket(len)
  \/ DropPacket

Spec == Init /\ [][Next]_txVars

----------------------------------------------------------------------------
(* Properties. *)

FramerType ==
  [state : {"TX_IDLE", "TX_PREAMBLE", "TX_DATA", "TX_FCS", "TX_IFG"},
   nibble_phase : BOOLEAN,
   byte_index : BodyLen,
   fcs_index : 0 .. 3,
   ifg_count : 0 .. IFG_NIBBLES - 1,
   crc : Word,
   fcs : Word,
   len : BodyLen,
   frame_body_len : BodyLen,
   frame : BOOLEAN]

\* No index of the framer passes its end: the preamble index stops at the
\* SFD and the body index below the padded length (ethernet_framer.h:109,
\* 133), so that an 11-bit index never wraps, whatever the length published.
TxTypeOK ==
  /\ framer \in FramerType
  /\ framer.state = "TX_PREAMBLE" => framer.byte_index <= SfdIndex
  /\ framer.state \in {"TX_PREAMBLE", "TX_DATA"} => framer.frame_body_len >= 1
  /\ framer.state = "TX_DATA" => framer.byte_index < framer.frame_body_len
  /\ framer_active \in BOOLEAN
  /\ framer_slot_idx \in TQ!Slot
  /\ tx_queue \in TxQueueType

\* The flag of the queue step and the state of the framer, two statics of
\* two functions, tell the same story; while they say a frame is under way,
\* its slot is the one at the read index, published and not freed
\* (ethernet_tx_queue.h:23-46).
FramerOwnsReadSlot ==
  /\ TQ!RingShape(tx_queue)
  /\ framer_active <=> framer.state # "TX_IDLE"
  /\ framer_active => /\ framer_slot_idx = tx_queue.read_idx
                      /\ tx_queue.valid[framer_slot_idx]
                      /\ framer.len = tx_queue.meta[framer_slot_idx]
                      /\ framer.frame_body_len = PaddedLen(framer.len)

\* While a frame is under way its slot is not altered, though the producer
\* fills and publishes other slots meanwhile, and the slot is freed by
\* nothing but the end of the gap after the frame.
SlotHeldUntilGapEnds ==
  [][framer_active =>
       /\ tx_queue'.bytes[framer_slot_idx] = tx_queue.bytes[framer_slot_idx]
       /\ tx_queue'.meta[framer_slot_idx] = tx_queue.meta[framer_slot_idx]
       /\ ~tx_queue'.valid[framer_slot_idx]
            => framer.state = "TX_IFG" /\ framer.ifg_count = IFG_NIBBLES - 1]_txVars
=============================================================================
