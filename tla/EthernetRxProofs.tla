-------------------------- MODULE EthernetRxProofs --------------------------
(***************************************************************************)
(* Proofs about the receive path for every size of ring, header, payload   *)
(* and FCS, every stream of nibbles and errors, and every consumer that    *)
(* frees only packets it has seen valid.                                   *)
(***************************************************************************)
EXTENDS EthernetRxWire, TLAPS

QType == RQ!QueueType(RxPacketMeta, [PayloadIndex -> Byte])

\* The initial values have their types.
LEMMA ZeroTypes ==
  /\ ZeroHeader \in Header
  /\ ZeroMeta \in RxPacketMeta
  /\ ZeroPayload \in [PayloadIndex -> Byte]
  /\ ParserOK(FreshParser)
<1>1. ZeroHeader \in Header /\ ZeroPayload \in [PayloadIndex -> Byte]
  BY DEF ZeroHeader, Header, ZeroPayload, Byte
<1>2. ZeroMeta \in RxPacketMeta
  BY <1>1, RxSizesAssumption DEF ZeroMeta, RxPacketMeta
<1>3. ParserOK(FreshParser)
  BY <1>1, RxSizesAssumption DEF ParserOK, ParserType, FreshParser
<1>4. QED BY <1>1, <1>2, <1>3

\* Latching an error changes nothing but the error flag.
LEMMA LatchType ==
  ASSUME NEW p, ParserOK(p), NEW err \in BOOLEAN
  PROVE  ParserOK(LatchError(p, err))
  BY DEF ParserOK, ParserType, LatchError

\* The delay line never holds more than the FCS, the payload count never
\* passes the buffer.
LEMMA CaptureType ==
  ASSUME NEW p, ParserOK(p), NEW byte \in Byte
  PROVE  ParserOK(rx_capture_payload_byte(p, byte))
<1> DEFINE tail == p.fcs_tail
           room == p.payload_count < MAX_ETH_PAYLOAD_BYTES
<1>1. tail \in Seq(Byte) /\ Len(tail) \in Nat /\ Len(tail) <= FcsBytes
  BY DEF ParserOK, ParserType
<1>3. CASE ~TailFull(p)
  <2>1. /\ Append(tail, byte) \in Seq(Byte)
        /\ Len(Append(tail, byte)) <= FcsBytes
    BY <1>1, <1>3, RxSizesAssumption DEF TailFull
  <2>2. ParserOK([p EXCEPT !.fcs_tail = Append(tail, byte)])
    BY <2>1 DEF ParserOK, ParserType
  <2>3. QED BY <1>3, <2>2 DEF rx_capture_payload_byte
<1>4. CASE TailFull(p)
  <2>1. Len(tail) = FcsBytes /\ tail # << >>
    BY <1>1, <1>4, RxSizesAssumption DEF TailFull
  <2>2. Tail(tail) \in Seq(Byte) /\ Len(Tail(tail)) = Len(tail) - 1
    BY <1>1, <2>1
  <2>3. /\ Append(Tail(tail), byte) \in Seq(Byte)
        /\ Len(Append(Tail(tail), byte)) <= FcsBytes
    BY <2>1, <2>2, RxSizesAssumption
  <2>4. CASE room
    <3>1. p.payload_count + 1 \in 0 .. MAX_ETH_PAYLOAD_BYTES
      BY <2>4, RxSizesAssumption DEF ParserOK, ParserType
    <3>2. ParserOK([p EXCEPT !.fcs_tail = Append(Tail(tail), byte),
                             !.payload_count = p.payload_count + 1])
      BY <2>3, <3>1 DEF ParserOK, ParserType
    <3>3. QED BY <1>4, <2>4, <3>2 DEF rx_capture_payload_byte
  <2>5. CASE ~room
    <3>1. ParserOK([p EXCEPT !.fcs_tail = Append(Tail(tail), byte), !.truncated = TRUE])
      BY <2>3 DEF ParserOK, ParserType
    <3>2. QED BY <1>4, <2>5, <3>1 DEF rx_capture_payload_byte
  <2>6. QED BY <2>4, <2>5
<1>5. QED BY <1>3, <1>4

\* The 16-bit byte index stays in range when it wraps.
LEMMA ByteIndexWraps ==
  \A i \in 0 .. ByteIndexMod - 1 : (i + 1) % ByteIndexMod \in 0 .. ByteIndexMod - 1
  BY RxSizesAssumption

\* Parsing one byte keeps the parser's statics in range.
LEMMA ParseType ==
  ASSUME NEW p, ParserOK(p), NEW byte \in Byte
  PROVE  ParserOK(ParseByte(p, byte))
<1>1. ParserOK(DataByte(p, byte))
  <2> DEFINE stored == IF p.byte_index < ETH_HEADER_BYTES
                         THEN [p EXCEPT !.header[p.byte_index] = byte]
                         ELSE rx_capture_payload_byte(p, byte)
  <2>1. ParserOK(stored)
    BY CaptureType, RxSizesAssumption DEF ParserOK, ParserType, Header, HeaderIndex
  <2>2. stored.byte_index \in 0 .. ByteIndexMod - 1
    BY <2>1 DEF ParserOK, ParserType
  <2>3. QED
    BY <2>1, <2>2, ByteIndexWraps DEF DataByte, ParserOK, ParserType
<1>2. ParserOK([p EXCEPT !.preamble_count = SaturatedPreamble(@)])
  <2>1. SaturatedPreamble(p.preamble_count) \in 0 .. PreambleCountMax
    BY RxSizesAssumption DEF SaturatedPreamble, ParserOK, ParserType
  <2>2. QED BY <2>1 DEF ParserOK, ParserType
<1>3. ParserOK([p EXCEPT !.state = "RX_DATA", !.byte_index = 0])
  <2> DEFINE q == [p EXCEPT !.state = "RX_DATA"]
  <2>1. 0 \in 0 .. ByteIndexMod - 1
    BY RxSizesAssumption
  <2>2. q \in ParserType /\ Len(q.fcs_tail) <= FcsBytes
    BY DEF ParserOK, ParserType
  <2> HIDE DEF q
  <2>3. ParserOK([q EXCEPT !.byte_index = 0])
    BY <2>1, <2>2 DEF ParserOK, ParserType
  <2>4. QED BY <2>3 DEF q
<1>4. QED BY <1>1, <1>2, <1>3 DEF ParseByte

\* The ring's lemmas, for this ring of received packets.
LEMMA RingOperations ==
  ASSUME NEW q \in QType, NEW meta \in RxPacketMeta
  PROVE  /\ RQ!packet_queue_drop_write(q) \in QType
         /\ RQ!packet_queue_publish_write_slot(q, meta) \in QType
         /\ RQ!packet_queue_consume_read_slot(q) \in QType
  BY RQ!OperationTypes, RxSizesAssumption DEF QType

LEMMA RingShapes ==
  ASSUME NEW q \in QType, NEW meta \in RxPacketMeta, RQ!RingShape(q)
  PROVE  /\ RQ!RingShape(RQ!packet_queue_drop_write(q))
         /\ RQ!packet_queue_write_slot_available(q)
              => RQ!RingShape(RQ!packet_queue_publish_write_slot(q, meta))
         /\ RQ!packet_queue_read_slot_valid(q)
              => RQ!RingShape(RQ!packet_queue_consume_read_slot(q))
  BY RQ!OperationsKeepShape, RxSizesAssumption DEF QType

\* The byte that leaves the delay line is stored inside the slot's buffer.
LEMMA StoreType ==
  ASSUME NEW q \in QType, NEW slot \in RQ!Slot, NEW p, ParserOK(p),
         NEW byte \in Byte, StoresPayload(p, byte)
  PROVE  RQ!StoreByte(q, slot, p.payload_count, Head(p.fcs_tail)) \in QType
<1>1. p.payload_count \in PayloadIndex
  BY RxSizesAssumption DEF ParserOK, ParserType, PayloadIndex, StoresPayload
<1>2. p.fcs_tail \in Seq(Byte) /\ p.fcs_tail # << >>
  BY RxSizesAssumption DEF ParserOK, ParserType, StoresPayload, TailFull
<1>3. Head(p.fcs_tail) \in Byte
  BY <1>2
<1>4. QED
  BY <1>1, <1>3 DEF RQ!StoreByte, QType, RQ!QueueType

\* The metadata of a frame that ends is that of a packet.
LEMMA MetaType ==
  ASSUME NEW p, ParserOK(p)
  PROVE  MetaOf(p) \in RxPacketMeta
  BY DEF ParserOK, ParserType, MetaOf, RxPacketMeta

\* Two nibbles make a byte.
LEMMA NibblesMakeByte == \A hi, lo \in Nibble : 16 * hi + lo \in Byte
  BY DEF Nibble, Byte

----------------------------------------------------------------------------
(* The invariant.  AdmittedFrameOwnsSlot is inductive once the types are   *)
(* known: only the receive path fills slots, and only slots that           *)
(* packet_queue_write_slot_available has shown to be free.                 *)

\* Every static of the receive path keeps its type.
LEMMA TypeStep == TypeOK /\ [Next]_vars => TypeOK'
<1> SUFFICES ASSUME TypeOK, [Next]_vars PROVE TypeOK'
  OBVIOUS
<1> USE RxSizesAssumption
<1>1. /\ ParserOK(parser) /\ rx_queue \in QType
      /\ assembler \in [in_frame : BOOLEAN, have_low : BOOLEAN, low_nibble : Nibble]
      /\ rx_drop_current \in BOOLEAN
  BY DEF TypeOK, QType
<1>2. ASSUME NEW rxd \in Nibble, NEW err \in BOOLEAN, FrameStart(rxd, err)
      PROVE  TypeOK'
  <2>1. ParserOK(parser)' /\ rx_drop_current' \in BOOLEAN
    BY <1>1, <1>2, ZeroTypes, LatchType
       DEF FrameStart, RQ!packet_queue_write_slot_available
  <2>2. rx_queue' \in QType
    BY <1>1, <1>2, ZeroTypes, RingOperations DEF FrameStart
  <2>3. QED BY <1>2, <2>1, <2>2 DEF FrameStart, TypeOK, QType
<1>3. ASSUME NEW rxd \in Nibble, NEW err \in BOOLEAN, LowNibble(rxd, err)
      PROVE  TypeOK'
  <2>1. ParserOK(parser)'
    BY <1>1, <1>3, LatchType DEF LowNibble
  <2>2. QED BY <1>1, <1>3, <2>1 DEF LowNibble, TypeOK, QType
<1>4. ASSUME NEW rxd \in Nibble, NEW err \in BOOLEAN, HighNibble(rxd, err)
      PROVE  TypeOK'
  <2> DEFINE byte == 16 * rxd + assembler.low_nibble
  <2>1. byte \in Byte
    BY <1>1, <1>4, NibblesMakeByte
  <2>2. ParserOK(parser)'
    BY <1>1, <1>4, <2>1, LatchType, ParseType DEF HighNibble
  <2>3. rx_queue' \in QType
    <3>1. rx_queue.write_idx \in RQ!Slot
      BY <1>1 DEF QType, RQ!QueueType
    <3>2. QED BY <1>1, <1>4, <2>1, <3>1, StoreType DEF HighNibble
  <2>4. QED BY <1>1, <1>4, <2>2, <2>3 DEF HighNibble, TypeOK, QType
<1>5. ASSUME NEW err \in BOOLEAN, FrameEnd(err)
      PROVE  TypeOK'
  <2>1. ParserOK([FreshParser EXCEPT !.header = parser.header])
    BY <1>1, ZeroTypes DEF ParserOK, ParserType
  <2>2. rx_queue' \in QType
    BY <1>1, <1>5, LatchType, MetaType, RingOperations DEF FrameEnd
  <2>3. QED BY <1>1, <1>5, <2>1, <2>2 DEF FrameEnd, TypeOK, QType
<1>6. ASSUME NEW err \in BOOLEAN, LineIdle(err)
      PROVE  TypeOK'
  <2>1. ParserOK(parser)'
    BY <1>1, <1>6, LatchType DEF LineIdle
  <2>2. QED BY <1>1, <1>6, <2>1 DEF LineIdle, TypeOK, QType
<1>7. CASE ConsumePacket
  <2>1. rx_queue' \in QType
    BY <1>1, <1>7, ZeroTypes, RingOperations DEF ConsumePacket
  <2>2. QED BY <1>1, <1>7, <2>1 DEF ConsumePacket, TypeOK, QType
<1>8. CASE UNCHANGED vars
  BY <1>1, <1>8 DEF vars, TypeOK, QType
<1>9. QED
  BY <1>2, <1>3, <1>4, <1>5, <1>6, <1>7, <1>8 DEF Next, ethernet_rx_queue_step

\* The statics start with their types.
LEMMA TypeAtFirst == Init => TypeOK
<1> SUFFICES ASSUME Init PROVE TypeOK
  OBVIOUS
<1>1. RQ!EmptyQueue(ZeroMeta, ZeroPayload) \in QType
  BY ZeroTypes, RxSizesAssumption
     DEF QType, RQ!QueueType, RQ!EmptyQueue, RQ!Slot
<1>2. assembler \in [in_frame : BOOLEAN, have_low : BOOLEAN, low_nibble : Nibble]
  BY DEF Init, Nibble
<1>3. rx_drop_current \in BOOLEAN
  BY DEF Init
<1>4. QED BY <1>1, <1>2, <1>3, ZeroTypes DEF Init, TypeOK, QType

\* No static of the receive path and no index into its buffers ever leaves
\* its range, whatever the nibbles on the wire (ethernet_rx.h:14-39, 89-157).
THEOREM TypeCorrect == Spec => []TypeOK
  BY TypeAtFirst, TypeStep, PTL DEF Spec

\* A step of the receive path or of its consumer keeps the ring's shape and
\* leaves the slot of an admitted frame free.
LEMMA OwnerStep ==
  TypeOK /\ AdmittedFrameOwnsSlot /\ [Next]_vars => AdmittedFrameOwnsSlot'
<1> SUFFICES ASSUME TypeOK, AdmittedFrameOwnsSlot, [Next]_vars
             PROVE  AdmittedFrameOwnsSlot'
  OBVIOUS
<1> USE RxSizesAssumption
<1>1. /\ rx_queue \in QType /\ ParserOK(parser) /\ rx_drop_current \in BOOLEAN
      /\ assembler \in [in_frame : BOOLEAN, have_low : BOOLEAN, low_nibble : Nibble]
      /\ RQ!RingShape(rx_queue)
  BY DEF TypeOK, QType, AdmittedFrameOwnsSlot
<1>2. ASSUME NEW rxd \in Nibble, NEW err \in BOOLEAN, FrameStart(rxd, err)
      PROVE  AdmittedFrameOwnsSlot'
  <2>1. RQ!RingShape(rx_queue')
    BY <1>1, <1>2, ZeroTypes, RingShapes DEF FrameStart
  <2>2. CASE RQ!packet_queue_write_slot_available(rx_queue)
    BY <1>2, <2>1, <2>2 DEF FrameStart, AdmittedFrameOwnsSlot
  <2>3. CASE ~RQ!packet_queue_write_slot_available(rx_queue)
    BY <1>2, <2>1, <2>3 DEF FrameStart, AdmittedFrameOwnsSlot
  <2>4. QED BY <2>2, <2>3
<1>3. ASSUME NEW rxd \in Nibble, NEW err \in BOOLEAN,
             LowNibble(rxd, err) \/ LineIdle(err)
      PROVE  AdmittedFrameOwnsSlot'
  BY <1>1, <1>3 DEF LowNibble, LineIdle, AdmittedFrameOwnsSlot
<1>4. ASSUME NEW rxd \in Nibble, NEW err \in BOOLEAN, HighNibble(rxd, err)
      PROVE  AdmittedFrameOwnsSlot'
  <2>1. /\ rx_queue'.valid = rx_queue.valid
        /\ rx_queue'.read_idx = rx_queue.read_idx
        /\ rx_queue'.write_idx = rx_queue.write_idx
    BY <1>1, <1>4 DEF HighNibble, RQ!StoreByte, QType, RQ!QueueType
  <2>2. assembler'.in_frame = assembler.in_frame /\ rx_drop_current' = rx_drop_current
    BY <1>1, <1>4 DEF HighNibble
  <2>3. QED
    BY <2>1, <2>2 DEF AdmittedFrameOwnsSlot, RQ!RingShape,
                      RQ!packet_queue_write_slot_available
<1>5. ASSUME NEW err \in BOOLEAN, FrameEnd(err)
      PROVE  AdmittedFrameOwnsSlot'
  <2>1. ~assembler'.in_frame
    BY <1>1, <1>5 DEF FrameEnd
  <2>2. ~rx_drop_current => RQ!packet_queue_write_slot_available(rx_queue)
    BY <1>5 DEF FrameEnd, AdmittedFrameOwnsSlot
  <2>3. RQ!RingShape(rx_queue')
    BY <1>1, <1>5, <2>2, LatchType, MetaType, RingShapes DEF FrameEnd
  <2>4. QED BY <2>1, <2>3 DEF AdmittedFrameOwnsSlot
<1>6. CASE ConsumePacket
  <2>1. RQ!RingShape(rx_queue')
    BY <1>1, <1>6, ZeroTypes, RingShapes DEF ConsumePacket
  <2>2. RQ!packet_queue_write_slot_available(rx_queue)
          => RQ!packet_queue_write_slot_available(rx_queue')
    BY <1>1, <1>6 DEF ConsumePacket, RQ!packet_queue_consume_read_slot,
                      RQ!packet_queue_write_slot_available, QType, RQ!QueueType
  <2>3. QED BY <1>6, <2>1, <2>2 DEF ConsumePacket, AdmittedFrameOwnsSlot
<1>7. CASE UNCHANGED vars
  BY <1>7 DEF vars, AdmittedFrameOwnsSlot
<1>8. QED
  BY <1>2, <1>3, <1>4, <1>5, <1>6, <1>7 DEF Next, ethernet_rx_queue_step

\* At first every slot is free.
LEMMA OwnerAtFirst == Init => AdmittedFrameOwnsSlot
<1> SUFFICES ASSUME Init PROVE AdmittedFrameOwnsSlot
  OBVIOUS
<1>1. 0 \in RQ!Slot
  BY RxSizesAssumption DEF RQ!Slot
<1>2. RQ!RingShape(rx_queue)
  BY <1>1 DEF Init, RQ!RingShape, RQ!Shape, RQ!EmptyQueue
<1>3. ~assembler.in_frame
  BY DEF Init
<1>4. QED BY <1>2, <1>3 DEF AdmittedFrameOwnsSlot

\* An admitted frame keeps its free slot until it ends, so that publishing it
\* cannot fail and the parser never writes into a slot the handler may read.
THEOREM RxRingSafe == Spec => []AdmittedFrameOwnsSlot
  BY OwnerAtFirst, TypeCorrect, OwnerStep, PTL DEF Spec

----------------------------------------------------------------------------
(* Published packets are left alone. *)

\* A step that stores a byte stores it into the write slot, and only while
\* that slot is free; publishing touches only the free write slot as well.
LEMMA PublishedStep ==
  ASSUME TypeOK, AdmittedFrameOwnsSlot, Next,
         NEW s \in RQ!Slot, rx_queue.valid[s], rx_queue'.valid[s]
  PROVE  /\ rx_queue'.meta[s] = rx_queue.meta[s]
         /\ rx_queue'.bytes[s] = rx_queue.bytes[s]
<1> DEFINE w == rx_queue.write_idx
           Kept == /\ rx_queue'.meta[s] = rx_queue.meta[s]
                   /\ rx_queue'.bytes[s] = rx_queue.bytes[s]
<1>1. rx_queue \in QType
  BY DEF TypeOK, QType
<1>2. ASSUME NEW rxd \in Nibble, NEW err \in BOOLEAN, FrameStart(rxd, err)
      PROVE  Kept
  BY <1>1, <1>2 DEF FrameStart, RQ!packet_queue_drop_write, QType, RQ!QueueType
<1>3. ASSUME NEW rxd \in Nibble, NEW err \in BOOLEAN,
             LowNibble(rxd, err) \/ LineIdle(err)
      PROVE  Kept
  BY <1>3 DEF LowNibble, LineIdle
<1>4. ASSUME NEW rxd \in Nibble, NEW err \in BOOLEAN, HighNibble(rxd, err)
      PROVE  Kept
  <2>1. CASE rx_drop_current
    BY <1>4, <2>1 DEF HighNibble
  <2>2. CASE ~rx_drop_current
    <3>1. ~rx_queue.valid[w] /\ s # w
      BY <1>4, <2>2
         DEF HighNibble, AdmittedFrameOwnsSlot, RQ!packet_queue_write_slot_available
    <3>2. QED
      BY <1>1, <1>4, <3>1 DEF HighNibble, RQ!StoreByte, QType, RQ!QueueType
  <2>3. QED BY <2>1, <2>2
<1>5. ASSUME NEW err \in BOOLEAN, FrameEnd(err)
      PROVE  Kept
  <2>1. CASE rx_drop_current
    BY <1>5, <2>1 DEF FrameEnd
  <2>2. CASE ~rx_drop_current
    <3>1. ~rx_queue.valid[w] /\ s # w
      BY <1>5, <2>2
         DEF FrameEnd, AdmittedFrameOwnsSlot, RQ!packet_queue_write_slot_available
    <3>2. QED
      BY <1>1, <1>5, <3>1
         DEF FrameEnd, RQ!packet_queue_publish_write_slot, QType, RQ!QueueType
  <2>3. QED BY <2>1, <2>2
<1>6. CASE ConsumePacket
  BY <1>1, <1>6 DEF ConsumePacket, RQ!packet_queue_consume_read_slot, QType, RQ!QueueType
<1>7. QED
  BY <1>2, <1>3, <1>4, <1>5, <1>6 DEF Next, ethernet_rx_queue_step

\* What the handler reads from a published slot, over as many cycles as it
\* takes, is one packet: reception of later frames never alters it.
THEOREM PublishedPacketsStay == Spec => PublishedStays
<1>1. TypeOK /\ AdmittedFrameOwnsSlot /\ [Next]_vars
        => [\A s \in RQ!Slot :
              rx_queue.valid[s] /\ rx_queue'.valid[s] =>
                /\ rx_queue'.meta[s] = rx_queue.meta[s]
                /\ rx_queue'.bytes[s] = rx_queue.bytes[s]]_vars
  BY PublishedStep
<1>2. QED BY <1>1, TypeCorrect, RxRingSafe, PTL DEF Spec, PublishedStays

----------------------------------------------------------------------------
(* The wire.  What the PHY presents are nibbles of a frame of Frames.      *)

WireFields == {"frame", "nibbles", "errored", "admitted"}

WireOK ==
  /\ DOMAIN wire = WireFields
  /\ wire.errored \in BOOLEAN /\ wire.admitted \in BOOLEAN
  /\ assembler.in_frame => /\ wire.frame \in Frames
                           /\ wire.nibbles \in 1 .. 2 * Len(wire.frame)

\* Halves of bytes are nibbles.
LEMMA NibbleType ==
  ASSUME NEW frame \in Seq(Byte), NEW n \in 0 .. 2 * Len(frame) - 1
  PROVE  NibbleAt(frame, n) \in Nibble
<1>1. n \div 2 + 1 \in 1 .. Len(frame)
  OBVIOUS
<1>2. frame[n \div 2 + 1] \in Byte
  BY <1>1
<1>3. \A b \in Byte : b % 16 \in Nibble /\ b \div 16 \in Nibble
  BY DEF Byte, Nibble
<1>4. QED BY <1>2, <1>3 DEF NibbleAt

\* A step of the wire is one of the receive path or its consumer.
LEMMA WireStepIsStep ==
  ASSUME WireOK, [WireNext]_wireVars
  PROVE  [Next]_vars
<1>1. ASSUME NEW err \in BOOLEAN, PhyStart(err) PROVE Next
  <2>1. PICK f \in Frames : ethernet_rx_queue_step(TRUE, NibbleAt(f, 0), err)
    BY <1>1 DEF PhyStart
  <2>2. f \in Seq(Byte) /\ f # << >>
    BY WireFramesAssumption
  <2>3. NibbleAt(f, 0) \in Nibble
    BY <2>2, NibbleType
  <2>4. QED BY <2>1, <2>3 DEF Next
<1>2. ASSUME NEW err \in BOOLEAN, PhyNibble(err) PROVE Next
  <2>1. wire.frame \in Seq(Byte) /\ wire.nibbles \in 0 .. 2 * Len(wire.frame) - 1
    BY <1>2, WireFramesAssumption DEF PhyNibble, WireOK
  <2>2. NibbleAt(wire.frame, wire.nibbles) \in Nibble
    BY <2>1, NibbleType
  <2>3. QED BY <1>2, <2>2 DEF PhyNibble, Next
<1>3. ASSUME NEW err \in BOOLEAN, PhyStop(err) \/ PhyIdle(err) PROVE Next
  <2>1. 0 \in Nibble
    BY DEF Nibble
  <2>2. QED BY <1>3, <2>1 DEF PhyStop, PhyIdle, Next
<1>4. CASE Consume
  BY <1>4 DEF Consume, Next
<1>5. CASE UNCHANGED wireVars
  BY <1>5 DEF wireVars
<1>6. QED BY <1>1, <1>2, <1>3, <1>4, <1>5 DEF WireNext

\* The frame bit of the assembler says whether a frame is on the wire.
LEMMA WireStep ==
  ASSUME TypeOK, WireOK, [WireNext]_wireVars
  PROVE  WireOK'
<1>1. assembler \in [in_frame : BOOLEAN, have_low : BOOLEAN, low_nibble : Nibble]
  BY DEF TypeOK
<1>2. ASSUME NEW err \in BOOLEAN, PhyStart(err) PROVE WireOK'
  <2>1. PICK f \in Frames :
          wire' = [frame |-> f, nibbles |-> 1, errored |-> err,
                   admitted |-> \E s \in RQ!Slot : ~rx_queue.valid[s]]
    BY <1>2 DEF PhyStart
  <2>2. f \in Seq(Byte) /\ f # << >>
    BY WireFramesAssumption
  <2>3. 1 \in 1 .. 2 * Len(f)
    BY <2>2
  <2>4. QED BY <2>1, <2>3 DEF WireOK, WireFields
<1>3. ASSUME NEW err \in BOOLEAN, PhyNibble(err) PROVE WireOK'
  <2>1. wire.frame \in Seq(Byte)
    BY <1>3, WireFramesAssumption DEF PhyNibble, WireOK
  <2>2. Len(wire.frame) \in Nat
    BY <2>1
  <2>3. QED BY <1>3, <2>2 DEF PhyNibble, WireOK, WireFields
<1>4. ASSUME NEW err \in BOOLEAN, PhyStop(err) \/ PhyIdle(err) PROVE WireOK'
  <2>1. ~assembler'.in_frame
    BY <1>1, <1>4 DEF PhyStop, PhyIdle, ethernet_rx_queue_step, FrameEnd, LineIdle
  <2> DEFINE e == wire.errored \/ err
  <2>2. wire' = NoFrame \/ wire' = [NoFrame EXCEPT !.errored = e]
    BY <1>4 DEF PhyStop, PhyIdle
  <2>3. e \in BOOLEAN
    OBVIOUS
  <2> HIDE DEF e
  <2>4. CASE wire' = NoFrame
    BY <2>1, <2>4 DEF NoFrame, WireOK, WireFields
  <2>5. CASE wire' = [NoFrame EXCEPT !.errored = e]
    <3>1. DOMAIN wire' = WireFields /\ wire'.admitted = FALSE
      BY <2>5 DEF NoFrame, WireFields
    <3>2. wire'.errored = e
      BY <2>5 DEF NoFrame
    <3>3. QED BY <2>1, <2>3, <3>1, <3>2 DEF WireOK
  <2>6. QED BY <2>2, <2>4, <2>5
<1>5. CASE UNCHANGED << wire, assembler >>
  BY <1>5 DEF WireOK
<1>6. QED
  BY <1>2, <1>3, <1>4, <1>5 DEF WireNext, Consume, ConsumePacket, wireVars, vars

\* Everything proved of the receive path holds with the PHY that drives it.
LEMMA WireSafe == WireSpec => [](WireOK /\ TypeOK /\ AdmittedFrameOwnsSlot)
<1>1. WireInit => WireOK /\ Init
  BY DEF WireInit, Init, WireOK, WireFields, NoFrame
<1>2. Init => TypeOK /\ AdmittedFrameOwnsSlot
  BY TypeAtFirst, OwnerAtFirst
<1>3. ASSUME WireOK, TypeOK, AdmittedFrameOwnsSlot, [WireNext]_wireVars
      PROVE  (WireOK /\ TypeOK /\ AdmittedFrameOwnsSlot)'
  <2>1. [Next]_vars
    BY <1>3, WireStepIsStep
  <2>2. WireOK'
    BY <1>3, WireStep
  <2>3. QED BY <1>3, <2>1, <2>2, TypeStep, OwnerStep
<1>4. QED BY <1>1, <1>2, <1>3, PTL DEF WireSpec

----------------------------------------------------------------------------
(* The ring as a queue: every step maps to one of PacketFifo or to none.   *)

View(q) == [s \in RQ!Slot |-> << SlotPacket(q, s), q.meta[s].truncated >>]

\* The published packets are the contents of the ring under that view.
LEMMA PacketsAreContents ==
  ASSUME NEW q \in QType, RQ!RingShape(q)
  PROVE  /\ RQ!Ring(q)
         /\ RQ!Contents(q, View(q)) =
              LET slots == RQ!PublishedSlots(q)
              IN  [k \in DOMAIN slots |->
                     << SlotPacket(q, slots[k]), q.meta[slots[k]].truncated >>]
<1>1. RQ!Ring(q)
  BY DEF RQ!Ring, QType, RQ!QueueType
<1>2. \A k \in 1 .. RQ!Depth(q) : RQ!WrapSlot(q.read_idx + k - 1) \in RQ!Slot
  BY <1>1, RQ!PublishedAreValid, RxSizesAssumption
<1>3. QED BY <1>1, <1>2 DEF RQ!Contents, RQ!PublishedSlots, View

\* A ring that only counts a drop or stores into a free slot reads the same.
LEMMA RingReadsTheSame ==
  ASSUME NEW q \in QType, NEW d \in QType, RQ!RingShape(q),
         d.valid = q.valid, d.read_idx = q.read_idx, d.write_idx = q.write_idx,
         \A s \in RQ!Slot : q.valid[s] => /\ d.meta[s] = q.meta[s]
                                         /\ d.bytes[s] = q.bytes[s]
  PROVE  RQ!Contents(d, View(d)) = RQ!Contents(q, View(q))
<1>1. RQ!Ring(q)
  BY PacketsAreContents
<1>2. \A s \in RQ!Slot : q.valid[s] => View(d)[s] = View(q)[s]
  BY DEF View, SlotPacket
<1>3. QED BY <1>1, <1>2, RQ!OthersMayChange, RxSizesAssumption

\* Publishing puts a packet behind those that wait.
LEMMA PublishIsEnqueue ==
  ASSUME NEW q \in QType, NEW meta \in RxPacketMeta, RQ!RingShape(q),
         RQ!packet_queue_write_slot_available(q)
  PROVE  LET d   == RQ!packet_queue_publish_write_slot(q, meta)
             old == RQ!Contents(q, View(q))
             new == RQ!Contents(d, View(d))
         IN  RQ!Enqueued(old, new)
<1> DEFINE d   == RQ!packet_queue_publish_write_slot(q, meta)
           old == RQ!Contents(q, View(q))
           new == RQ!Contents(d, View(d))
<1> USE RxSizesAssumption
<1>1. d \in QType /\ RQ!RingShape(d)
  BY RingOperations, RingShapes
<1>2. RQ!Ring(q) /\ RQ!Ring(d)
  BY <1>1, PacketsAreContents
<1>3. /\ d.valid = [q.valid EXCEPT ![q.write_idx] = TRUE]
      /\ d.meta = [q.meta EXCEPT ![q.write_idx] = meta] /\ d.bytes = q.bytes
      /\ d.read_idx = q.read_idx /\ d.write_idx = RQ!NextSlot(q.write_idx)
  BY <1>2, RQ!PublishKeepsRing
<1>4. ~q.valid[q.write_idx]
  BY DEF RQ!packet_queue_write_slot_available
<1> HIDE DEF d
<1>5. \A s \in RQ!Slot : q.valid[s] => View(d)[s] = View(q)[s]
  <2> SUFFICES ASSUME NEW s \in RQ!Slot, q.valid[s] PROVE View(d)[s] = View(q)[s]
    OBVIOUS
  <2>1. s # q.write_idx
    BY <1>4
  <2>2. d.meta[s] = q.meta[s] /\ d.bytes[s] = q.bytes[s]
    BY <1>3, <2>1 DEF QType, RQ!QueueType
  <2>3. QED BY <2>2 DEF View, SlotPacket
<1>6. /\ d.valid = [q.valid EXCEPT ![q.write_idx] = TRUE]
      /\ d.read_idx = q.read_idx /\ d.write_idx = RQ!NextSlot(q.write_idx)
  BY <1>3
<1> DEFINE before == View(q)
           after  == View(d)
<1>7. \A s \in RQ!Slot : q.valid[s] => after[s] = before[s]
  BY <1>5
<1> HIDE DEF before, after
<1>8. RQ!Enqueued(RQ!Contents(q, before), RQ!Contents(d, after))
  BY ONLY <1>2, <1>6, <1>7, RxSizesAssumption, RQ!PublishAppends,
          RQ!packet_queue_write_slot_available(q)
<1>9. QED BY <1>8 DEF d, before, after

\* Consuming takes the packet that has waited longest.
LEMMA ConsumeIsDequeue ==
  ASSUME NEW q \in QType, RQ!RingShape(q), RQ!packet_queue_read_slot_valid(q)
  PROVE  LET d   == RQ!packet_queue_consume_read_slot(q)
             old == RQ!Contents(q, View(q))
             new == RQ!Contents(d, View(d))
         IN  RQ!Dequeued(old, new)
<1> DEFINE d   == RQ!packet_queue_consume_read_slot(q)
           old == RQ!Contents(q, View(q))
           new == RQ!Contents(d, View(d))
<1> USE RxSizesAssumption
<1>1. d \in QType /\ RQ!RingShape(d)
  BY ZeroTypes, RingOperations, RingShapes
<1>2. RQ!Ring(q) /\ RQ!Ring(d)
  BY <1>1, PacketsAreContents
<1>3. /\ d.valid = [q.valid EXCEPT ![q.read_idx] = FALSE]
      /\ d.meta = q.meta /\ d.bytes = q.bytes
      /\ d.read_idx = RQ!NextSlot(q.read_idx) /\ d.write_idx = q.write_idx
  BY <1>2, RQ!ConsumeKeepsRing
<1> HIDE DEF d
<1>4. View(d) = View(q)
  BY <1>3 DEF View, SlotPacket
<1> DEFINE before == View(q)
           after  == View(d)
<1>5. \A s \in RQ!Slot : d.valid[s] => after[s] = before[s]
  BY <1>4
<1>6. /\ d.valid = [q.valid EXCEPT ![q.read_idx] = FALSE]
      /\ d.read_idx = RQ!NextSlot(q.read_idx) /\ d.write_idx = q.write_idx
  BY <1>3
<1> HIDE DEF before, after
<1>7. RQ!Dequeued(RQ!Contents(q, before), RQ!Contents(d, after))
  BY ONLY <1>2, <1>5, <1>6, RxSizesAssumption, RQ!ConsumeTakesFirst,
          RQ!packet_queue_read_slot_valid(q)
<1>8. QED BY <1>7 DEF d, before, after

\* Every step of the receive path and its consumer is one of the queue.
LEMMA RingStepIsFifoStep ==
  ASSUME TypeOK, AdmittedFrameOwnsSlot, [Next]_vars, TypeOK'
  PROVE  [Fifo!Next]_PublishedPackets
<1> DEFINE Same == RQ!Contents(rx_queue', View(rx_queue'))
                     = RQ!Contents(rx_queue, View(rx_queue))
<1>1. rx_queue \in QType /\ rx_queue' \in QType /\ RQ!RingShape(rx_queue)
  BY DEF TypeOK, QType, AdmittedFrameOwnsSlot
<1>2. RQ!RingShape(rx_queue')
  BY OwnerStep DEF AdmittedFrameOwnsSlot
<1>3. /\ PublishedPackets = RQ!Contents(rx_queue, View(rx_queue))
      /\ PublishedPackets' = RQ!Contents(rx_queue', View(rx_queue'))
  BY <1>1, <1>2, PacketsAreContents DEF PublishedPackets
<1>4. ASSUME NEW rxd \in Nibble, NEW err \in BOOLEAN, FrameStart(rxd, err)
      PROVE  Same
  <2>1. /\ rx_queue'.valid = rx_queue.valid /\ rx_queue'.read_idx = rx_queue.read_idx
        /\ rx_queue'.write_idx = rx_queue.write_idx /\ rx_queue'.meta = rx_queue.meta
        /\ rx_queue'.bytes = rx_queue.bytes
    BY <1>1, <1>4 DEF FrameStart, RQ!packet_queue_drop_write, QType, RQ!QueueType
  <2>2. QED BY <1>1, <2>1, RingReadsTheSame
<1>5. ASSUME NEW rxd \in Nibble, NEW err \in BOOLEAN, HighNibble(rxd, err)
      PROVE  Same
  <2>1. /\ rx_queue'.valid = rx_queue.valid /\ rx_queue'.read_idx = rx_queue.read_idx
        /\ rx_queue'.write_idx = rx_queue.write_idx
    BY <1>1, <1>5 DEF HighNibble, RQ!StoreByte, QType, RQ!QueueType
  <2>2. Next
    BY <1>5 DEF Next, ethernet_rx_queue_step
  <2>3. \A s \in RQ!Slot : rx_queue.valid[s] =>
          /\ rx_queue'.meta[s] = rx_queue.meta[s]
          /\ rx_queue'.bytes[s] = rx_queue.bytes[s]
    BY <2>1, <2>2, PublishedStep
  <2>4. QED BY <1>1, <2>1, <2>3, RingReadsTheSame
<1>6. ASSUME NEW err \in BOOLEAN, FrameEnd(err)
      PROVE  Same \/ Fifo!Enqueue
  <2>1. CASE rx_queue' = rx_queue
    BY <2>1
  <2>2. CASE rx_queue' # rx_queue
    <3>1. PICK meta \in RxPacketMeta :
            rx_queue' = RQ!packet_queue_publish_write_slot(rx_queue, meta)
      BY <1>6, <2>2, LatchType, MetaType DEF FrameEnd, TypeOK
    <3>2. RQ!packet_queue_write_slot_available(rx_queue)
      BY <1>6, <2>2 DEF FrameEnd, AdmittedFrameOwnsSlot
    <3>3. QED BY <1>1, <1>3, <3>1, <3>2, PublishIsEnqueue DEF Fifo!Enqueue, RQ!Enqueued
  <2>3. QED BY <2>1, <2>2
<1>7. CASE ConsumePacket
  BY <1>1, <1>3, <1>7, ConsumeIsDequeue DEF ConsumePacket, RQ!Dequeued, Fifo!Next, Fifo!Dequeue
<1>8. CASE UNCHANGED rx_queue
  BY <1>3, <1>8
<1>9. QED
  BY <1>3, <1>4, <1>5, <1>6, <1>7, <1>8
  DEF Next, ethernet_rx_queue_step, LowNibble, LineIdle, vars, Fifo!Next

\* The ring of received packets implements the bounded queue of PacketFifo:
\* no packet is lost, doubled, reordered or altered between its publication
\* and its consumption, whatever is received meanwhile.
THEOREM RxRingIsFifo == WireSpec => RingIsFifo
<1>1. WireInit => Fifo!Init
  <2> SUFFICES ASSUME WireInit PROVE PublishedPackets = << >>
    BY DEF Fifo!Init
  <2>1. 0 \in RQ!Slot
    BY RxSizesAssumption DEF RQ!Slot
  <2>2. RQ!Depth(rx_queue) = 0
    BY <2>1 DEF WireInit, Init, RQ!EmptyQueue, RQ!Depth
  <2>3. QED BY <2>2 DEF PublishedPackets, RQ!PublishedSlots
<1>2. ASSUME WireOK, TypeOK, AdmittedFrameOwnsSlot, [WireNext]_wireVars
      PROVE  [Fifo!Next]_PublishedPackets
  <2>1. [Next]_vars /\ TypeOK'
    BY <1>2, WireStepIsStep, TypeStep
  <2>2. QED BY <1>2, <2>1, RingStepIsFifoStep
<1>3. QED BY <1>1, <1>2, WireSafe, PTL DEF WireSpec, RingIsFifo, Fifo!Spec

----------------------------------------------------------------------------
(* What the parser knows of the frame on the wire.  f is the frame, n the  *)
(* number of its bytes parsed; its data begin after the first start bytes, *)
(* m of the data bytes have been taken.                                    *)

Full == ETH_HEADER_BYTES + FcsBytes + MAX_ETH_PAYLOAD_BYTES

\* Of m data bytes, those in the delay line and those in the payload.
Kept(m) ==
  IF m <= ETH_HEADER_BYTES THEN 0
  ELSE IF m <= ETH_HEADER_BYTES + FcsBytes THEN m - ETH_HEADER_BYTES ELSE FcsBytes

Paid(m) ==
  IF m <= ETH_HEADER_BYTES + FcsBytes THEN 0 ELSE m - ETH_HEADER_BYTES - FcsBytes

AllPreamble(f, n) == \A i \in 1 .. n : f[i] = 85

DataStarts(f, n, start) ==
  \/ start > 1 /\ f[start] = 213 /\ AllPreamble(f, start - 1)
  \/ /\ start < n /\ AllPreamble(f, start)
     /\ f[start + 1] # 85 /\ ~(start > 0 /\ f[start + 1] = 213)

Took(p, f, start, m) ==
  /\ p.truncated <=> m > Full
  /\ m < ByteIndexMod => p.byte_index = m
  /\ Len(p.fcs_tail) = Kept(m)
  /\ m <= Full =>
       /\ p.payload_count = Paid(m)
       /\ \A i \in HeaderIndex : i < m => p.header[i] = f[start + i + 1]
       /\ \A j \in 1 .. Kept(m) : p.fcs_tail[j] = f[start + m - Kept(m) + j]

Stored(body, f, start, m) ==
  m <= Full =>
    \A i \in 0 .. Paid(m) - 1 : body[i] = f[start + ETH_HEADER_BYTES + i + 1]

\* The parser has read the first n bytes of f and stored the payload among
\* them in body, if it owns the body.
Reads(p, owns, body, f, n) ==
  \/ /\ p.state = "RX_SEARCH" /\ AllPreamble(f, n)
     /\ p.preamble_count # 0 <=> n # 0
     /\ Took(p, f, n, 0)
  \/ /\ p.state = "RX_DATA"
     /\ \E start \in 0 .. n :
          /\ DataStarts(f, n, start)
          /\ Took(p, f, start, n - start)
          /\ owns => Stored(body, f, start, n - start)

\* The payload buffer after a byte has been parsed.
BodyAfter(p, owns, body, byte) ==
  IF StoresPayload(p, byte) /\ owns
    THEN [body EXCEPT ![p.payload_count] = Head(p.fcs_tail)]
    ELSE body

\* What the parser, the ring and the PHY remember of the frame under way.
ReadsTheWire ==
  assembler.in_frame =>
    /\ wire.admitted <=> ~rx_drop_current
    /\ parser.frame_error = wire.errored
    /\ assembler.have_low <=> wire.nibbles % 2 = 1
    /\ assembler.have_low => assembler.low_nibble = NibbleAt(wire.frame, wire.nibbles - 1)
    /\ Reads(parser, ~rx_drop_current, rx_queue.bytes[rx_queue.write_idx],
             wire.frame, wire.nibbles \div 2)

\* What taking a data byte does to the statics, one case at a time.
LEMMA DataFields ==
  ASSUME NEW p \in ParserType, NEW byte
  PROVE  LET d == DataByte(p, byte) IN
         /\ d.state = "RX_DATA" /\ d.frame_error = p.frame_error
         /\ d.byte_index = (p.byte_index + 1) % ByteIndexMod
         /\ p.byte_index < ETH_HEADER_BYTES =>
              /\ d.header = [p.header EXCEPT ![p.byte_index] = byte]
              /\ d.fcs_tail = p.fcs_tail /\ d.payload_count = p.payload_count
              /\ d.truncated = p.truncated
         /\ ~(p.byte_index < ETH_HEADER_BYTES) =>
              /\ d.header = p.header
              /\ ~TailFull(p) =>
                   /\ d.fcs_tail = Append(p.fcs_tail, byte)
                   /\ d.payload_count = p.payload_count /\ d.truncated = p.truncated
              /\ TailFull(p) =>
                   /\ d.fcs_tail = Append(Tail(p.fcs_tail), byte)
                   /\ p.payload_count < MAX_ETH_PAYLOAD_BYTES =>
                        /\ d.payload_count = p.payload_count + 1
                        /\ d.truncated = p.truncated
                   /\ ~(p.payload_count < MAX_ETH_PAYLOAD_BYTES) => d.truncated = TRUE
<1> DEFINE d == DataByte(p, byte)
<1>1. CASE p.byte_index < ETH_HEADER_BYTES
  BY <1>1 DEF DataByte, ParserType
<1>2. CASE ~(p.byte_index < ETH_HEADER_BYTES) /\ ~TailFull(p)
  BY <1>2 DEF DataByte, rx_capture_payload_byte, ParserType
<1>3. CASE /\ ~(p.byte_index < ETH_HEADER_BYTES) /\ TailFull(p)
           /\ p.payload_count < MAX_ETH_PAYLOAD_BYTES
  BY <1>3 DEF DataByte, rx_capture_payload_byte, ParserType
<1>4. CASE /\ ~(p.byte_index < ETH_HEADER_BYTES) /\ TailFull(p)
           /\ ~(p.payload_count < MAX_ETH_PAYLOAD_BYTES)
  BY <1>4 DEF DataByte, rx_capture_payload_byte, ParserType
<1>5. QED BY <1>1, <1>2, <1>3, <1>4

\* A delay line that moves on by a byte.
LEMMA LineMovesOn ==
  ASSUME NEW tail \in Seq(Byte), Len(tail) > 0, NEW byte \in Byte
  PROVE  LET moved == Append(Tail(tail), byte)
         IN  /\ Len(moved) = Len(tail)
             /\ \A j \in 1 .. Len(tail) - 1 : moved[j] = tail[j + 1]
             /\ moved[Len(tail)] = byte
  OBVIOUS

\* The next value of the byte index.
LEMMA IndexMovesOn ==
  \A i \in Nat : i + 1 < ByteIndexMod => (i + 1) % ByteIndexMod = i + 1
  BY RxSizesAssumption

\* One data byte more.
LEMMA TakeByte ==
  ASSUME NEW p, ParserOK(p), NEW f \in Seq(Byte), NEW start \in Nat, NEW m \in Nat,
         start + m < Len(f), Took(p, f, start, m)
  PROVE  Took(DataByte(p, f[start + m + 1]), f, start, m + 1)
<1> DEFINE byte == f[start + m + 1]
           d == DataByte(p, byte)
<1>0. /\ ETH_HEADER_BYTES \in Nat \ {0} /\ FcsBytes \in Nat \ {0}
      /\ MAX_ETH_PAYLOAD_BYTES \in Nat \ {0} /\ ByteIndexMod \in Nat \ {0}
      /\ ByteIndexMod > ETH_HEADER_BYTES + FcsBytes + MAX_ETH_PAYLOAD_BYTES
  BY RxSizesAssumption, WireIndexAssumption
<1>1. byte \in Byte
  OBVIOUS
<1>2. p \in ParserType
  BY DEF ParserOK
<1>3. /\ p.fcs_tail \in Seq(Byte) /\ Len(p.fcs_tail) = Kept(m)
      /\ p.header \in [HeaderIndex -> Byte]
  BY <1>2 DEF ParserType, Took, Header
<1>4. m + 1 < ByteIndexMod => d.byte_index = m + 1
  <2>1. d.byte_index = (p.byte_index + 1) % ByteIndexMod
    BY <1>2, DataFields
  <2> HIDE DEF d
  <2>2. m + 1 < ByteIndexMod => p.byte_index = m
    BY <1>0 DEF Took
  <2>3. QED BY <2>1, <2>2, IndexMovesOn
<1> HIDE DEF byte, d
<1>5. CASE m < ETH_HEADER_BYTES
  <2>1. p.byte_index = m /\ p.truncated = FALSE
    BY <1>0, <1>2, <1>5 DEF Took, Full, ParserType
  <2>2. /\ d.header = [p.header EXCEPT ![m] = byte]
        /\ d.fcs_tail = p.fcs_tail /\ d.payload_count = p.payload_count
        /\ d.truncated = FALSE
    BY <1>2, <1>5, <2>1, DataFields DEF d
  <2>3. Kept(m) = 0 /\ Kept(m + 1) = 0 /\ Paid(m) = 0 /\ Paid(m + 1) = 0
    BY <1>0, <1>5 DEF Kept, Paid
  <2>4. m <= Full /\ ~(m + 1 > Full)
    BY <1>0, <1>5 DEF Full
  <2>5. \A i \in HeaderIndex : i < m + 1 => d.header[i] = f[start + i + 1]
    <3> SUFFICES ASSUME NEW i \in HeaderIndex, i < m + 1
                 PROVE  d.header[i] = f[start + i + 1]
      OBVIOUS
    <3>1. CASE i = m
      BY <1>3, <2>2, <3>1 DEF byte
    <3>2. CASE i # m
      <4>1. i < m /\ d.header[i] = p.header[i]
        BY <1>3, <2>2, <3>2 DEF HeaderIndex
      <4>2. QED BY <2>4, <4>1 DEF Took
    <3>3. QED BY <3>1, <3>2
  <2>6. d.payload_count = 0
    BY <2>2, <2>3, <2>4 DEF Took
  <2>7. QED BY <1>3, <1>4, <2>2, <2>3, <2>4, <2>5, <2>6 DEF Took, d, byte
<1>6. CASE ETH_HEADER_BYTES <= m /\ m <= Full
  <2>1. p.byte_index = m /\ p.truncated = FALSE /\ ~(p.byte_index < ETH_HEADER_BYTES)
    BY <1>0, <1>2, <1>6 DEF Took, Full, ParserType
  <2>2. /\ \A i \in HeaderIndex : i < m /\ p.header[i] = f[start + i + 1]
        /\ p.payload_count = Paid(m)
        /\ \A j \in 1 .. Kept(m) : p.fcs_tail[j] = f[start + m - Kept(m) + j]
    BY <1>0, <1>6 DEF Took, HeaderIndex
  <2>3. \A i \in HeaderIndex : i < m + 1 => d.header[i] = f[start + i + 1]
    <3>1. d.header = p.header
      BY <1>2, <2>1, DataFields DEF d
    <3>2. QED BY <2>2, <3>1
  <2>4. CASE m < ETH_HEADER_BYTES + FcsBytes
    <3>1. /\ Kept(m) = m - ETH_HEADER_BYTES /\ Kept(m + 1) = Kept(m) + 1
          /\ Kept(m) \in Nat /\ Kept(m) < FcsBytes
          /\ Paid(m) = 0 /\ Paid(m + 1) = 0 /\ ~(m + 1 > Full)
      BY <1>0, <1>6, <2>4 DEF Kept, Paid, Full
    <3>2. ~TailFull(p)
      BY <1>0, <1>3, <3>1 DEF TailFull
    <3>3. /\ d.fcs_tail = Append(p.fcs_tail, byte)
          /\ d.payload_count = 0 /\ d.truncated = FALSE
      BY <1>2, <2>1, <2>2, <3>1, <3>2, DataFields DEF d
    <3>4. Len(d.fcs_tail) = Kept(m + 1)
      BY <1>1, <1>3, <3>1, <3>3
    <3>5. ASSUME NEW j \in 1 .. Kept(m + 1)
          PROVE  d.fcs_tail[j] = f[start + (m + 1) - Kept(m + 1) + j]
      <4>1. start + (m + 1) - Kept(m + 1) + j = start + m - Kept(m) + j
        BY <3>1
      <4>2. CASE j = Kept(m) + 1
        <5>1. start + m - Kept(m) + j = start + m + 1
          BY <3>1, <4>2
        <5>2. d.fcs_tail[j] = byte
          BY <1>1, <1>3, <3>3, <4>2
        <5>3. QED BY <4>1, <5>1, <5>2 DEF byte
      <4>3. CASE j # Kept(m) + 1
        <5>1. j \in 1 .. Kept(m)
          BY <3>1, <4>3
        <5>2. d.fcs_tail[j] = p.fcs_tail[j]
          BY <1>1, <1>3, <3>3, <5>1
        <5>3. QED BY <2>2, <4>1, <5>1, <5>2
      <4>4. QED BY <4>2, <4>3
    <3>6. QED BY <1>4, <2>3, <3>1, <3>3, <3>4, <3>5 DEF Took, d, byte
  <2>5. CASE m >= ETH_HEADER_BYTES + FcsBytes
    <3>1. /\ Kept(m) = FcsBytes /\ Kept(m + 1) = FcsBytes
          /\ Paid(m) = m - ETH_HEADER_BYTES - FcsBytes /\ Paid(m + 1) = Paid(m) + 1
          /\ Paid(m) \in Nat
          /\ m + 1 > Full <=> ~(Paid(m) < MAX_ETH_PAYLOAD_BYTES)
      BY <1>0, <1>6, <2>5 DEF Kept, Paid, Full
    <3>2. TailFull(p) /\ Len(p.fcs_tail) > 0
      BY <1>0, <1>3, <3>1 DEF TailFull
    <3>3. d.fcs_tail = Append(Tail(p.fcs_tail), byte)
      BY <1>2, <2>1, <3>2, DataFields DEF d
    <3>4. /\ Len(d.fcs_tail) = FcsBytes
          /\ \A j \in 1 .. FcsBytes - 1 : d.fcs_tail[j] = p.fcs_tail[j + 1]
          /\ d.fcs_tail[FcsBytes] = byte
      BY <1>1, <1>3, <3>1, <3>2, <3>3, LineMovesOn
    <3>5. ASSUME NEW j \in 1 .. Kept(m + 1)
          PROVE  d.fcs_tail[j] = f[start + (m + 1) - Kept(m + 1) + j]
      <4>1. CASE j = FcsBytes
        <5>1. start + (m + 1) - Kept(m + 1) + j = start + m + 1
          BY <1>0, <3>1, <4>1
        <5>2. QED BY <3>4, <4>1, <5>1 DEF byte
      <4>2. CASE j # FcsBytes
        <5>1. j \in 1 .. FcsBytes - 1 /\ j + 1 \in 1 .. Kept(m)
          BY <1>0, <3>1, <4>2
        <5>2. start + (m + 1) - Kept(m + 1) + j = start + m - Kept(m) + (j + 1)
          BY <1>0, <3>1, <5>1
        <5>3. QED BY <2>2, <3>4, <5>1, <5>2
      <4>3. QED BY <4>1, <4>2
    <3>6. CASE Paid(m) < MAX_ETH_PAYLOAD_BYTES
      <4>1. p.payload_count < MAX_ETH_PAYLOAD_BYTES
        BY <2>2, <3>6
      <4>2. d.payload_count = p.payload_count + 1 /\ d.truncated = p.truncated
        BY <1>2, <2>1, <3>2, <4>1, DataFields DEF d
      <4>3. d.payload_count = Paid(m + 1) /\ d.truncated = FALSE
        BY <2>1, <2>2, <3>1, <4>2
      <4>4. QED BY <1>4, <2>3, <3>1, <3>4, <3>5, <3>6, <4>3 DEF Took, d, byte
    <3>7. CASE ~(Paid(m) < MAX_ETH_PAYLOAD_BYTES)
      <4>1. d.truncated = TRUE
        BY <1>2, <2>1, <2>2, <3>2, <3>7, DataFields DEF d
      <4>2. m + 1 > Full /\ ~(m + 1 <= Full)
        BY <1>0, <3>1, <3>7 DEF Full
      <4>3. QED BY <1>4, <3>1, <3>4, <4>1, <4>2 DEF Took, d, byte
    <3>8. QED BY <3>6, <3>7
  <2>6. QED BY <1>0, <2>4, <2>5
<1>7. CASE m > Full
  <2>1. /\ p.truncated = TRUE /\ m + 1 > Full /\ ~(m + 1 <= Full)
        /\ Kept(m) = FcsBytes /\ Kept(m + 1) = FcsBytes
    BY <1>0, <1>2, <1>7 DEF Took, Full, Kept, ParserType
  <2>2. TailFull(p) /\ Len(p.fcs_tail) > 0
    BY <1>0, <1>3, <2>1 DEF TailFull
  <2>3. d.truncated = TRUE
    BY <1>2, <2>1, <2>2, DataFields DEF d
  <2>4. Len(d.fcs_tail) = FcsBytes
    <3>1. CASE p.byte_index < ETH_HEADER_BYTES
      BY <1>2, <1>3, <2>1, <3>1, DataFields DEF d
    <3>2. CASE ~(p.byte_index < ETH_HEADER_BYTES)
      <4>1. d.fcs_tail = Append(Tail(p.fcs_tail), byte)
        BY <1>2, <2>2, <3>2, DataFields DEF d
      <4>2. QED BY <1>1, <1>3, <2>1, <2>2, <4>1, LineMovesOn
    <3>3. QED BY <3>1, <3>2
  <2>5. QED BY <1>4, <2>1, <2>3, <2>4 DEF Took, d, byte
<1>8. QED BY <1>0, <1>5, <1>6, <1>7 DEF Full

\* The byte that leaves a full delay line is stored where it belongs.
LEMMA StoreByteTaken ==
  ASSUME NEW p, ParserOK(p), NEW f \in Seq(Byte), NEW start \in Nat, NEW m \in Nat,
         start + m < Len(f), Took(p, f, start, m),
         NEW body \in [PayloadIndex -> Byte], Stored(body, f, start, m),
         IsDataByte(p, f[start + m + 1])
  PROVE  Stored(BodyAfter(p, TRUE, body, f[start + m + 1]), f, start, m + 1)
<1> DEFINE byte == f[start + m + 1]
           after == BodyAfter(p, TRUE, body, byte)
<1>1. /\ ETH_HEADER_BYTES \in Nat \ {0} /\ FcsBytes \in Nat \ {0}
      /\ MAX_ETH_PAYLOAD_BYTES \in Nat \ {0} /\ ByteIndexMod \in Nat \ {0}
      /\ ByteIndexMod > ETH_HEADER_BYTES + FcsBytes + MAX_ETH_PAYLOAD_BYTES
  BY RxSizesAssumption, WireIndexAssumption
<1>2. p.fcs_tail \in Seq(Byte) /\ Len(p.fcs_tail) = Kept(m)
  BY DEF ParserOK, ParserType, Took
<1> HIDE DEF byte
<1>3. SUFFICES ASSUME m + 1 <= Full
               PROVE  \A i \in 0 .. Paid(m + 1) - 1 :
                        after[i] = f[start + ETH_HEADER_BYTES + i + 1]
  BY DEF Stored, byte
<1>4. /\ p.byte_index = m /\ p.payload_count = Paid(m)
      /\ \A j \in 1 .. Kept(m) : p.fcs_tail[j] = f[start + m - Kept(m) + j]
      /\ \A i \in 0 .. Paid(m) - 1 : body[i] = f[start + ETH_HEADER_BYTES + i + 1]
  BY <1>1, <1>3 DEF Took, Stored, Full
<1>5. CASE m < ETH_HEADER_BYTES + FcsBytes
  BY <1>1, <1>5 DEF Paid
<1>6. CASE m >= ETH_HEADER_BYTES + FcsBytes
  <2>1. /\ Kept(m) = FcsBytes /\ Paid(m) = m - ETH_HEADER_BYTES - FcsBytes
        /\ Paid(m + 1) = Paid(m) + 1 /\ Paid(m) \in PayloadIndex
        /\ ETH_HEADER_BYTES <= m /\ Paid(m) < MAX_ETH_PAYLOAD_BYTES
    BY <1>1, <1>3, <1>6 DEF Kept, Paid, Full, PayloadIndex
  <2>2. StoresPayload(p, byte)
    BY <1>2, <1>4, <2>1 DEF StoresPayload, TailFull, byte
  <2>3. Head(p.fcs_tail) = f[start + ETH_HEADER_BYTES + Paid(m) + 1]
    <3>1. 1 \in 1 .. Kept(m) /\ Head(p.fcs_tail) = p.fcs_tail[1]
      BY <1>1, <1>2, <2>1
    <3>2. start + m - Kept(m) + 1 = start + ETH_HEADER_BYTES + Paid(m) + 1
      BY <1>1, <2>1
    <3>3. QED BY <1>4, <3>1, <3>2
  <2>4. after = [body EXCEPT ![Paid(m)] = Head(p.fcs_tail)]
    BY <1>4, <2>2 DEF BodyAfter
  <2> HIDE DEF after
  <2>5. ASSUME NEW i \in 0 .. Paid(m + 1) - 1
        PROVE  after[i] = f[start + ETH_HEADER_BYTES + i + 1]
    <3>1. CASE i = Paid(m)
      BY <2>1, <2>3, <2>4, <3>1
    <3>2. CASE i # Paid(m)
      <4>1. i \in 0 .. Paid(m) - 1 /\ i \in PayloadIndex
        BY <1>1, <2>1, <3>2 DEF PayloadIndex
      <4>2. after[i] = body[i]
        BY <2>4, <3>2, <4>1
      <4>3. QED BY <1>4, <4>1, <4>2
    <3>3. QED BY <3>1, <3>2
  <2>6. QED BY <2>5
<1>7. m < ETH_HEADER_BYTES + FcsBytes \/ m >= ETH_HEADER_BYTES + FcsBytes
  BY <1>1
<1>8. QED BY ONLY <1>5, <1>6, <1>7

\* One byte more, in either state of the parser.
LEMMA ReadByte ==
  ASSUME NEW p, ParserOK(p), NEW owns \in BOOLEAN, NEW body \in [PayloadIndex -> Byte],
         NEW f \in Seq(Byte), NEW n \in Nat, n < Len(f), Reads(p, owns, body, f, n)
  PROVE  Reads(ParseByte(p, f[n + 1]), owns, BodyAfter(p, owns, body, f[n + 1]), f, n + 1)
<1> DEFINE byte == f[n + 1]
           after == BodyAfter(p, owns, body, byte)
<1> USE RxSizesAssumption
<1>1. byte \in Byte /\ p \in ParserType
  BY DEF ParserOK
<1>2. ASSUME NEW start \in 0 .. n, Took(p, f, start, n - start),
             owns => Stored(body, f, start, n - start),
             DataStarts(f, n + 1, start), IsDataByte(p, byte)
      PROVE  Reads(ParseByte(p, byte), owns, after, f, n + 1)
  <2> DEFINE m == n - start
  <2>1. m \in Nat /\ start + m = n /\ m + 1 = (n + 1) - start /\ start \in Nat
    OBVIOUS
  <2>2. ParseByte(p, byte) = DataByte(p, byte)
    BY <1>2 DEF ParseByte, IsDataByte
  <2>3. Took(DataByte(p, byte), f, start, (n + 1) - start)
    <3>1. Took(p, f, start, m) /\ start + m < Len(f) /\ byte = f[start + m + 1]
      BY <1>2, <2>1
    <3> HIDE DEF m
    <3>2. Took(DataByte(p, f[start + m + 1]), f, start, m + 1)
      BY <2>1, <3>1, TakeByte
    <3>3. QED BY <2>1, <3>1, <3>2
  <2>4. ASSUME owns PROVE Stored(after, f, start, (n + 1) - start)
    <3>1. /\ Took(p, f, start, m) /\ Stored(body, f, start, m) /\ start + m < Len(f)
          /\ byte = f[start + m + 1]
      BY <1>2, <2>1, <2>4
    <3>2. after = BodyAfter(p, TRUE, body, byte)
      BY <2>4 DEF BodyAfter
    <3> HIDE DEF m, byte, after
    <3>3. IsDataByte(p, f[start + m + 1])
      BY <1>2, <3>1
    <3>4. Stored(BodyAfter(p, TRUE, body, f[start + m + 1]), f, start, m + 1)
      BY <2>1, <3>1, <3>3, StoreByteTaken
    <3>5. QED BY <2>1, <3>1, <3>2, <3>4
  <2>5. ParseByte(p, byte).state = "RX_DATA"
    <3> HIDE DEF byte
    <3>1. DataByte(p, byte).state = "RX_DATA"
      BY ONLY <1>1, DataFields
    <3>2. QED BY <2>2, <3>1
  <2> HIDE DEF byte, after
  <2>6. QED BY <1>2, <2>2, <2>3, <2>4, <2>5 DEF Reads
<1>3. CASE p.state = "RX_SEARCH"
  <2>1. AllPreamble(f, n) /\ (p.preamble_count # 0 <=> n # 0) /\ Took(p, f, n, 0)
    BY <1>3 DEF Reads
  <2>2. CASE byte = 85
    <3>1. SkipsPreamble(p, byte)
      BY <1>3, <2>2 DEF SkipsPreamble
    <3>2. ParseByte(p, byte) = [p EXCEPT !.preamble_count = SaturatedPreamble(@)]
      BY <3>1 DEF ParseByte
    <3>3. AllPreamble(f, n + 1)
      BY <2>1, <2>2 DEF AllPreamble
    <3>4. SaturatedPreamble(p.preamble_count) # 0
      BY <1>1 DEF SaturatedPreamble, ParserType
    <3>5. Took(p, f, n + 1, 0)
      BY <2>1 DEF Took, HeaderIndex, Kept
    <3>6. Took(ParseByte(p, byte), f, n + 1, 0)
      BY <1>1, <3>2, <3>5 DEF Took, ParserType
    <3>7. QED BY <1>1, <1>3, <3>2, <3>3, <3>4, <3>6 DEF Reads, ParserType
  <2>3. CASE byte = 213 /\ n # 0
    <3> DEFINE d == [p EXCEPT !.state = "RX_DATA", !.byte_index = 0]
    <3>1. ~SkipsPreamble(p, byte) /\ SkipsSfd(p, byte)
      BY <1>3, <2>1, <2>3 DEF SkipsPreamble, SkipsSfd
    <3>2. ParseByte(p, byte) = d
      BY <3>1 DEF ParseByte
    <3>3. after = body
      BY <3>1 DEF BodyAfter, StoresPayload, IsDataByte
    <3>4. DataStarts(f, n + 1, n + 1)
      BY <2>1, <2>3 DEF DataStarts
    <3>5. /\ d.state = "RX_DATA" /\ d.byte_index = 0 /\ d.truncated = p.truncated
          /\ d.fcs_tail = p.fcs_tail /\ d.payload_count = p.payload_count
          /\ d.header = p.header
      BY <1>1 DEF ParserType
    <3> HIDE DEF d, byte
    <3>6. Took(d, f, n + 1, 0)
      BY <2>1, <3>5 DEF Took, HeaderIndex, Kept
    <3>7. Stored(body, f, n + 1, 0)
      BY DEF Stored, Paid
    <3>8. n + 1 \in 0 .. n + 1 /\ (n + 1) - (n + 1) = 0
      OBVIOUS
    <3>9. Reads(d, owns, body, f, n + 1)
      BY <3>4, <3>5, <3>6, <3>7, <3>8 DEF Reads
    <3>10. QED BY <3>2, <3>3, <3>9 DEF byte, after
  <2>4. CASE byte # 85 /\ ~(byte = 213 /\ n # 0)
    <3>1. IsDataByte(p, byte)
      BY <2>1, <2>4 DEF IsDataByte, SkipsPreamble, SkipsSfd
    <3>2. DataStarts(f, n + 1, n)
      BY <2>1, <2>4 DEF DataStarts
    <3>3. Stored(body, f, n, 0)
      BY DEF Stored, Paid
    <3>4. n \in 0 .. n /\ n - n = 0
      OBVIOUS
    <3>5. /\ n \in 0 .. n /\ Took(p, f, n, n - n) /\ Stored(body, f, n, n - n)
          /\ DataStarts(f, n + 1, n) /\ IsDataByte(p, byte)
      BY <2>1, <3>1, <3>2, <3>3, <3>4
    <3> HIDE DEF byte, after
    <3>6. Reads(ParseByte(p, byte), owns, after, f, n + 1)
      BY ONLY <1>2, <3>5
    <3>7. QED BY <3>6 DEF byte, after
  <2>5. QED BY <2>2, <2>3, <2>4
<1>4. CASE p.state = "RX_DATA"
  <2>1. PICK start \in 0 .. n :
          /\ DataStarts(f, n, start) /\ Took(p, f, start, n - start)
          /\ owns => Stored(body, f, start, n - start)
    BY <1>4 DEF Reads
  <2>2. IsDataByte(p, byte)
    BY <1>4 DEF IsDataByte, SkipsPreamble, SkipsSfd
  <2>3. DataStarts(f, n + 1, start)
    BY <2>1 DEF DataStarts
  <2>4. QED BY <1>2, <2>1, <2>2, <2>3
<1>5. QED BY <1>1, <1>3, <1>4 DEF ParserType

\* Two nibbles make the byte they were halves of.
LEMMA HalvesMakeByte ==
  ASSUME NEW f \in Seq(Byte), NEW n \in 0 .. 2 * Len(f) - 1, n % 2 = 1
  PROVE  /\ n \div 2 \in Nat /\ n \div 2 < Len(f)
         /\ (n + 1) \div 2 = n \div 2 + 1 /\ (n + 1) % 2 # 1
         /\ 16 * NibbleAt(f, n) + NibbleAt(f, n - 1) = f[n \div 2 + 1]
<1> DEFINE k == n \div 2
<1>1. Len(f) \in Nat /\ n \in Nat /\ n < 2 * Len(f)
  OBVIOUS
<1>2. /\ k \in Nat /\ k < Len(f)
      /\ (n + 1) \div 2 = k + 1 /\ (n + 1) % 2 # 1
      /\ (n - 1) \div 2 = k /\ (n - 1) % 2 = 0
  BY <1>1
<1>3. k + 1 \in 1 .. Len(f)
  BY <1>1, <1>2
<1>4. NibbleAt(f, n) = f[k + 1] \div 16 /\ NibbleAt(f, n - 1) = f[k + 1] % 16
  BY <1>2 DEF NibbleAt
<1> HIDE DEF k
<1>5. f[k + 1] \in Byte
  BY <1>3
<1>6. \A b \in Byte : 16 * (b \div 16) + (b % 16) = b
  BY DEF Byte
<1>7. 16 * NibbleAt(f, n) + NibbleAt(f, n - 1) = f[k + 1]
  BY <1>4, <1>5, <1>6
<1>8. QED BY <1>2, <1>7 DEF k

\* After an even nibble no byte is complete that was not before.
LEMMA LowNibbleCount ==
  ASSUME NEW n \in Nat, ~(n % 2 = 1)
  PROVE  (n + 1) % 2 = 1 /\ (n + 1) \div 2 = n \div 2 /\ (n + 1) - 1 = n
  OBVIOUS

\* In a ring of this shape some slot is free if and only if the next one is.
LEMMA FreeSlotIsNext ==
  ASSUME NEW q \in QType, RQ!RingShape(q)
  PROVE  (\E s \in RQ!Slot : ~q.valid[s]) <=> ~q.valid[q.write_idx]
<1>1. q.write_idx \in RQ!Slot /\ q.read_idx \in RQ!Slot /\ q.valid \in [RQ!Slot -> BOOLEAN]
  BY DEF QType, RQ!QueueType
<1>2. CASE q.read_idx = q.write_idx
  BY <1>1, <1>2 DEF RQ!RingShape, RQ!Shape
<1>3. CASE q.read_idx # q.write_idx
  <2>1. ~RQ!Between(q.read_idx, q.write_idx, q.write_idx)
    BY <1>1, <1>3, RxSizesAssumption DEF RQ!Between, RQ!Slot
  <2>2. QED BY <1>1, <1>3, <2>1 DEF RQ!RingShape, RQ!Shape
<1>4. QED BY <1>2, <1>3

\* An error changes nothing that is read.
LEMMA LatchReads ==
  ASSUME NEW p \in ParserType, NEW err \in BOOLEAN, NEW owns, NEW body, NEW f, NEW n
  PROVE  /\ Reads(LatchError(p, err), owns, body, f, n) <=> Reads(p, owns, body, f, n)
         /\ \A byte : StoresPayload(LatchError(p, err), byte) <=> StoresPayload(p, byte)
         /\ LatchError(p, err).frame_error = (p.frame_error \/ err)
         /\ LatchError(p, err).payload_count = p.payload_count
         /\ LatchError(p, err).fcs_tail = p.fcs_tail
<1> DEFINE l == LatchError(p, err)
<1>1. /\ l.state = p.state /\ l.preamble_count = p.preamble_count
      /\ l.byte_index = p.byte_index /\ l.header = p.header
      /\ l.fcs_tail = p.fcs_tail /\ l.payload_count = p.payload_count
      /\ l.truncated = p.truncated
  BY DEF LatchError, ParserType
<1>2. l.frame_error = (p.frame_error \/ err)
  BY DEF LatchError, ParserType
<1> HIDE DEF l
<1>3. \A start, m : Took(l, f, start, m) <=> Took(p, f, start, m)
  BY <1>1 DEF Took
<1>4. Reads(l, owns, body, f, n) <=> Reads(p, owns, body, f, n)
  BY <1>1, <1>3 DEF Reads
<1>5. \A byte : StoresPayload(l, byte) <=> StoresPayload(p, byte)
  BY <1>1 DEF StoresPayload, IsDataByte, SkipsPreamble, SkipsSfd, TailFull
<1>6. QED BY <1>1, <1>2, <1>4, <1>5 DEF l

\* One cycle of the line, or a consumption, keeps what is read in step with
\* what was presented.
LEMMA ReadsTheWireStep ==
  ASSUME WireOK, TypeOK, AdmittedFrameOwnsSlot, ReadsTheWire, [WireNext]_wireVars
  PROVE  ReadsTheWire'
<1> DEFINE w == rx_queue.write_idx
           f == wire.frame
           n == wire.nibbles
<1> USE RxSizesAssumption
<1>1. /\ parser \in ParserType /\ ParserOK(parser) /\ rx_queue \in QType
      /\ rx_drop_current \in BOOLEAN /\ RQ!RingShape(rx_queue)
      /\ w \in RQ!Slot /\ rx_queue.bytes[w] \in [PayloadIndex -> Byte]
      /\ assembler \in [in_frame : BOOLEAN, have_low : BOOLEAN, low_nibble : Nibble]
      /\ DOMAIN wire = WireFields /\ wire.errored \in BOOLEAN
  BY DEF TypeOK, ParserOK, QType, RQ!QueueType, AdmittedFrameOwnsSlot, WireOK
<1>2. ASSUME assembler.in_frame
      PROVE  f \in Seq(Byte) /\ n \in 1 .. 2 * Len(f) /\ n \in Nat
  <2>1. f \in Seq(Byte) /\ n \in 1 .. 2 * Len(f)
    BY <1>2, WireFramesAssumption DEF WireOK
  <2>2. QED BY <2>1
<1>3. ASSUME NEW err \in BOOLEAN, PhyStart(err) PROVE ReadsTheWire'
  <2>1. PICK g \in Frames :
          /\ ethernet_rx_queue_step(TRUE, NibbleAt(g, 0), err)
          /\ wire' = [frame |-> g, nibbles |-> 1, errored |-> err,
                      admitted |-> \E s \in RQ!Slot : ~rx_queue.valid[s]]
    BY <1>3 DEF PhyStart
  <2>2. FrameStart(NibbleAt(g, 0), err)
    BY <1>3, <2>1 DEF PhyStart, ethernet_rx_queue_step, LowNibble, HighNibble
  <2>3. /\ assembler'.have_low = TRUE /\ assembler'.low_nibble = NibbleAt(g, 0)
        /\ parser' = LatchError(FreshParser, err)
        /\ rx_drop_current' = rx_queue.valid[w]
    BY <1>1, <2>2 DEF FrameStart, RQ!packet_queue_write_slot_available, QType, RQ!QueueType
  <2>4. wire'.admitted <=> ~rx_drop_current'
    BY <1>1, <2>1, <2>3, FreeSlotIsNext DEF QType, RQ!QueueType
  <2>5. FreshParser \in ParserType /\ FreshParser.frame_error = FALSE
    BY ZeroTypes DEF ParserOK, FreshParser
  <2>6. parser'.frame_error = wire'.errored
    BY <2>1, <2>3, <2>5, LatchReads
  <2>7. Took(FreshParser, g, 0, 0)
    BY WireIndexAssumption DEF Took, FreshParser, Kept, Paid, Full, HeaderIndex
  <2>8. Reads(FreshParser, ~rx_drop_current', rx_queue'.bytes[rx_queue'.write_idx], g, 0)
    BY <2>7 DEF Reads, FreshParser, AllPreamble
  <2>9. Reads(parser', ~rx_drop_current', rx_queue'.bytes[rx_queue'.write_idx], g, 0)
    BY <2>3, <2>5, <2>8, LatchReads
  <2>10. /\ wire'.frame = g /\ wire'.nibbles = 1
         /\ 1 % 2 = 1 /\ 1 \div 2 = 0 /\ 1 - 1 = 0
    BY <2>1
  <2>11. QED BY <2>3, <2>4, <2>6, <2>9, <2>10 DEF ReadsTheWire
<1>4. ASSUME NEW err \in BOOLEAN, PhyNibble(err) PROVE ReadsTheWire'
  <2> DEFINE rxd == NibbleAt(f, n)
  <2>1. /\ assembler.in_frame /\ n < 2 * Len(f)
        /\ LowNibble(rxd, err) \/ HighNibble(rxd, err)
        /\ wire' = [wire EXCEPT !.nibbles = @ + 1, !.errored = @ \/ err]
    BY <1>4 DEF PhyNibble, ethernet_rx_queue_step, FrameStart
  <2>2. /\ wire'.frame = f /\ wire'.nibbles = n + 1 /\ wire'.admitted = wire.admitted
        /\ wire'.errored = (wire.errored \/ err)
    BY <1>1, <2>1 DEF WireFields
  <2>3. /\ wire.admitted <=> ~rx_drop_current
        /\ parser.frame_error = wire.errored
        /\ assembler.have_low <=> n % 2 = 1
        /\ assembler.have_low => assembler.low_nibble = NibbleAt(f, n - 1)
        /\ Reads(parser, ~rx_drop_current, rx_queue.bytes[w], f, n \div 2)
    BY <2>1 DEF ReadsTheWire
  <2>4. f \in Seq(Byte) /\ n \in 0 .. 2 * Len(f) - 1 /\ n \in Nat
    BY <1>2, <2>1
  <2> HIDE DEF rxd
  <2>5. CASE LowNibble(rxd, err)
    <3>1. /\ assembler'.have_low = TRUE /\ assembler'.low_nibble = rxd
          /\ parser' = LatchError(parser, err)
          /\ rx_drop_current' = rx_drop_current /\ rx_queue' = rx_queue
          /\ ~assembler.have_low
      BY <1>1, <2>5 DEF LowNibble
    <3>2. (n + 1) % 2 = 1 /\ (n + 1) \div 2 = n \div 2 /\ (n + 1) - 1 = n
      BY <2>3, <2>4, <3>1, LowNibbleCount
    <3>3. parser'.frame_error = wire'.errored
      BY <1>1, <2>2, <2>3, <3>1, LatchReads
    <3>4. Reads(parser', ~rx_drop_current', rx_queue'.bytes[rx_queue'.write_idx], f, n \div 2)
      BY <1>1, <2>3, <3>1, LatchReads
    <3>5. QED BY <2>2, <2>3, <3>1, <3>2, <3>3, <3>4 DEF ReadsTheWire, rxd
  <2>6. CASE HighNibble(rxd, err)
    <3> DEFINE byte == 16 * rxd + assembler.low_nibble
               l == LatchError(parser, err)
               owns == ~rx_drop_current
               body == rx_queue.bytes[w]
               k == n \div 2
    <3>1. /\ assembler.have_low /\ assembler'.have_low = FALSE
          /\ parser' = ParseByte(l, byte)
          /\ rx_drop_current' = rx_drop_current
      BY <1>1, <2>6 DEF HighNibble
    <3>2. /\ k \in Nat /\ k < Len(f) /\ (n + 1) \div 2 = k + 1 /\ (n + 1) % 2 # 1
          /\ byte = f[k + 1]
      <4>1. n % 2 = 1 /\ assembler.low_nibble = NibbleAt(f, n - 1)
        BY <2>3, <3>1
      <4>2. byte = 16 * NibbleAt(f, n) + NibbleAt(f, n - 1)
        BY <4>1 DEF rxd
      <4> HIDE DEF byte
      <4>3. QED BY ONLY <2>4, <4>1, <4>2, HalvesMakeByte
    <3>3. /\ rx_queue'.write_idx = w
          /\ rx_queue'.bytes[w] = BodyAfter(parser, owns, body, byte)
      <4>1. CASE StoresPayload(parser, byte) /\ ~rx_drop_current
        <5>1. rx_queue' = RQ!StoreByte(rx_queue, w, parser.payload_count,
                                       Head(parser.fcs_tail))
          BY <2>6, <4>1 DEF HighNibble
        <5>2. /\ rx_queue'.write_idx = w
              /\ rx_queue'.bytes[w] = [body EXCEPT ![parser.payload_count]
                                                     = Head(parser.fcs_tail)]
          BY <1>1, <5>1 DEF RQ!StoreByte, QType, RQ!QueueType
        <5>3. QED BY <4>1, <5>2 DEF BodyAfter
      <4>2. CASE ~(StoresPayload(parser, byte) /\ ~rx_drop_current)
        <5>1. rx_queue' = rx_queue
          BY <2>6, <4>2 DEF HighNibble
        <5>2. QED BY <4>2, <5>1 DEF BodyAfter
      <4>3. QED BY <4>1, <4>2
    <3> HIDE DEF byte, l, owns, body, k
    <3>4. ParserOK(l) /\ Reads(l, owns, body, f, k)
      BY <1>1, <2>3, LatchType, LatchReads DEF l, owns, body, k
    <3>5. /\ BodyAfter(l, owns, body, byte) = BodyAfter(parser, owns, body, byte)
          /\ l.frame_error = wire'.errored /\ l \in ParserType
      <4>1. /\ StoresPayload(l, byte) <=> StoresPayload(parser, byte)
            /\ l.frame_error = (parser.frame_error \/ err)
            /\ l.payload_count = parser.payload_count /\ l.fcs_tail = parser.fcs_tail
        BY ONLY <1>1, err \in BOOLEAN, LatchReads DEF l
      <4>2. BodyAfter(l, owns, body, byte) = BodyAfter(parser, owns, body, byte)
        BY <4>1 DEF BodyAfter
      <4>3. QED BY <2>2, <2>3, <3>4, <4>1, <4>2 DEF ParserOK
    <3>6. ParseByte(l, byte).frame_error = l.frame_error
      <4>1. DataByte(l, byte).frame_error = l.frame_error
        BY ONLY <3>5, DataFields
      <4>2. QED BY <3>5, <4>1 DEF ParseByte, ParserType
    <3>7. owns \in BOOLEAN /\ body \in [PayloadIndex -> Byte]
      BY <1>1 DEF owns, body
    <3>8. Reads(ParseByte(l, byte), owns, BodyAfter(l, owns, body, byte), f, k + 1)
      BY <2>4, <3>2, <3>4, <3>7, ReadByte
    <3>9. Reads(parser', ~rx_drop_current', rx_queue'.bytes[rx_queue'.write_idx], f, k + 1)
      BY <3>1, <3>3, <3>5, <3>8 DEF owns
    <3>10. parser'.frame_error = wire'.errored
      BY <3>1, <3>5, <3>6
    <3>11. QED BY <2>2, <2>3, <3>1, <3>2, <3>9, <3>10 DEF ReadsTheWire, k
  <2>7. QED BY <2>1, <2>5, <2>6
<1>5. ASSUME NEW err \in BOOLEAN, PhyStop(err) \/ PhyIdle(err) PROVE ReadsTheWire'
  BY <1>1, <1>5 DEF PhyStop, PhyIdle, ethernet_rx_queue_step, FrameEnd, LineIdle, ReadsTheWire
<1>6. CASE Consume
  <2>1. rx_queue'.bytes = rx_queue.bytes /\ rx_queue'.write_idx = rx_queue.write_idx
    BY <1>1, <1>6
       DEF Consume, ConsumePacket, RQ!packet_queue_consume_read_slot, QType, RQ!QueueType
  <2>2. QED BY <1>6, <2>1 DEF Consume, ConsumePacket, ReadsTheWire
<1>7. CASE UNCHANGED wireVars
  BY <1>7 DEF wireVars, vars, ReadsTheWire
<1>8. QED BY <1>3, <1>4, <1>5, <1>6, <1>7 DEF WireNext

\* While only preamble has come there are no data.
LEMMA NoDataYet ==
  ASSUME NEW f \in Seq(Byte), NEW n \in 0 .. Len(f), AllPreamble(f, n)
  PROVE  Len(FrameData(SubSeq(f, 1, n))) = 0
<1> DEFINE B == SubSeq(f, 1, n)
           IsRun(k) == /\ \A i \in 1 .. k : B[i] = 85
                       /\ k < Len(B) => B[k + 1] # 85
           run == CHOOSE k \in 0 .. Len(B) : IsRun(k)
           sfd == run > 0 /\ run < Len(B) /\ B[run + 1] = 213
<1>1. Len(B) = n /\ n \in Nat /\ (\A i \in 1 .. n : B[i] = f[i]) /\ B \in Seq(Byte)
  OBVIOUS
<1>2. FrameData(B) = SubSeq(B, IF sfd THEN run + 2 ELSE run + 1, Len(B))
  BY DEF FrameData
<1> HIDE DEF B
<1>3. IsRun(n)
  BY <1>1 DEF AllPreamble
<1>4. run \in 0 .. n /\ IsRun(run)
  <2> HIDE DEF IsRun
  <2>1. \E k \in 0 .. Len(B) : IsRun(k)
    BY <1>1, <1>3
  <2>2. QED BY <1>1, <2>1
<1> HIDE DEF run
<1>5. run = n
  BY <1>1, <1>4 DEF AllPreamble
<1>6. Len(SubSeq(B, n + 1, n)) = 0
  BY <1>1
<1>7. QED BY <1>1, <1>2, <1>5, <1>6 DEF B

\* Otherwise the data are what comes after the first start bytes.
LEMMA DataFromStart ==
  ASSUME NEW f \in Seq(Byte), NEW n \in 0 .. Len(f), NEW start \in 0 .. n,
         DataStarts(f, n, start)
  PROVE  LET data == FrameData(SubSeq(f, 1, n))
         IN  /\ data \in Seq(Byte) /\ Len(data) = n - start
             /\ \A i \in 1 .. n - start : data[i] = f[start + i]
<1> DEFINE B == SubSeq(f, 1, n)
           IsRun(k) == /\ \A i \in 1 .. k : B[i] = 85
                       /\ k < Len(B) => B[k + 1] # 85
           run == CHOOSE k \in 0 .. Len(B) : IsRun(k)
           sfd == run > 0 /\ run < Len(B) /\ B[run + 1] = 213
           first == IF sfd THEN run + 2 ELSE run + 1
<1>1. Len(B) = n /\ n \in Nat /\ (\A i \in 1 .. n : B[i] = f[i]) /\ B \in Seq(Byte)
  OBVIOUS
<1>2. FrameData(B) = SubSeq(B, first, Len(B))
  BY DEF FrameData
<1> HIDE DEF B
<1>3. first = start + 1
  <2>1. CASE start > 1 /\ f[start] = 213 /\ AllPreamble(f, start - 1)
    <3>1. start - 1 \in 0 .. n /\ IsRun(start - 1)
      BY <1>1, <2>1 DEF AllPreamble
    <3>2. run \in 0 .. n /\ IsRun(run)
      BY <1>1, <3>1
    <3> HIDE DEF run
    <3>3. ~(run < start - 1)
      <4>1. SUFFICES ASSUME run < start - 1 PROVE FALSE
        OBVIOUS
      <4>2. run + 1 \in 1 .. start - 1 /\ run < n /\ run + 1 \in 1 .. n
        BY <3>2, <4>1
      <4>3. B[run + 1] = 85
        BY <1>1, <2>1, <4>2 DEF AllPreamble
      <4>4. QED BY <1>1, <3>2, <4>2, <4>3
    <3>4. ~(run > start - 1)
      <4>1. SUFFICES ASSUME run > start - 1 PROVE FALSE
        OBVIOUS
      <4>2. start \in 1 .. run /\ start \in 1 .. n
        BY <2>1, <3>2, <4>1
      <4>3. QED BY <1>1, <2>1, <3>2, <4>2
    <3>5. run = start - 1 /\ run > 0 /\ run < n
      BY <2>1, <3>2, <3>3, <3>4
    <3>6. B[run + 1] = 213
      BY <1>1, <2>1, <3>5
    <3>7. QED BY <1>1, <3>5, <3>6
  <2>2. CASE /\ start < n /\ AllPreamble(f, start)
             /\ f[start + 1] # 85 /\ ~(start > 0 /\ f[start + 1] = 213)
    <3>1. IsRun(start) /\ start + 1 \in 1 .. n
      BY <1>1, <2>2 DEF AllPreamble
    <3>2. run \in 0 .. n /\ IsRun(run)
      BY <1>1, <3>1
    <3> HIDE DEF run
    <3>3. ~(run < start)
      <4>1. SUFFICES ASSUME run < start PROVE FALSE
        OBVIOUS
      <4>2. run + 1 \in 1 .. start /\ run < n /\ run + 1 \in 1 .. n
        BY <3>2, <4>1
      <4>3. B[run + 1] = 85
        BY <1>1, <2>2, <4>2 DEF AllPreamble
      <4>4. QED BY <1>1, <3>2, <4>2, <4>3
    <3>4. ~(run > start)
      <4>1. SUFFICES ASSUME run > start PROVE FALSE
        OBVIOUS
      <4>2. start + 1 \in 1 .. run
        BY <3>2, <4>1
      <4>3. QED BY <1>1, <2>2, <3>1, <3>2, <4>2
    <3>5. run = start
      BY <3>2, <3>3, <3>4
    <3>6. ~sfd
      BY <1>1, <2>2, <3>1, <3>5
    <3>7. QED BY <3>5, <3>6
  <2>3. QED BY <2>1, <2>2 DEF DataStarts
<1> HIDE DEF first
<1>4. /\ SubSeq(B, start + 1, n) \in Seq(Byte)
      /\ Len(SubSeq(B, start + 1, n)) = n - start
      /\ \A i \in 1 .. n - start : SubSeq(B, start + 1, n)[i] = B[start + i]
  BY <1>1
<1>5. \A i \in 1 .. n - start : B[start + i] = f[start + i]
  BY <1>1
<1>6. QED BY <1>1, <1>2, <1>3, <1>4, <1>5 DEF B

\* What may be published, told from the data of the frame alone.
LEMMA LongEnough ==
  ASSUME NEW p \in ParserType, NEW owns \in BOOLEAN, NEW body,
         NEW f \in Seq(Byte), NEW n \in 0 .. Len(f), Reads(p, owns, body, f, n)
  PROVE  LET data == FrameData(SubSeq(f, 1, n))
             long == p.byte_index >= ETH_HEADER_BYTES + FcsBytes /\ TailFull(p)
         IN  /\ long => FrameLongEnough(data)
             /\ FrameLongEnough(data) /\ Len(data) < ByteIndexMod => long
<1> DEFINE data == FrameData(SubSeq(f, 1, n))
           need == ETH_HEADER_BYTES + FcsBytes
<1>1. /\ ETH_HEADER_BYTES \in Nat \ {0} /\ FcsBytes \in Nat \ {0} /\ n \in Nat
      /\ ByteIndexMod \in Nat \ {0}
  BY RxSizesAssumption
<1>2. CASE p.state = "RX_SEARCH"
  <2>1. Len(data) = 0
    BY <1>2, NoDataYet DEF Reads
  <2>2. p.byte_index = 0
    BY <1>1, <1>2 DEF Reads, Took
  <2>3. QED BY <1>1, <2>1, <2>2 DEF FrameLongEnough
<1>3. CASE p.state = "RX_DATA"
  <2>1. PICK start \in 0 .. n : DataStarts(f, n, start) /\ Took(p, f, start, n - start)
    BY <1>3 DEF Reads
  <2>2. Len(data) = n - start
    BY <2>1, DataFromStart
  <2> HIDE DEF data
  <2> DEFINE m == n - start
  <2>3. m \in Nat /\ Len(data) = m
    BY <2>2
  <2>4. TailFull(p) <=> Kept(m) = FcsBytes
    BY <2>1 DEF TailFull, Took
  <2>5. m < ByteIndexMod => p.byte_index = m
    BY <2>1 DEF Took
  <2> HIDE DEF m
  <2>6. Kept(m) = FcsBytes <=> m >= need
    BY <1>1, <2>3 DEF Kept
  <2>7. FrameLongEnough(data) <=> m >= need
    BY <2>3 DEF FrameLongEnough
  <2>8. QED BY <1>1, <2>3, <2>4, <2>5, <2>6, <2>7 DEF data
<1>4. QED BY <1>2, <1>3 DEF ParserType

\* What is published, told from the data of the frame alone.
LEMMA PacketRead ==
  ASSUME NEW p \in ParserType, NEW body, NEW f \in Seq(Byte), NEW n \in 0 .. Len(f),
         Reads(p, TRUE, body, f, n),
         p.byte_index >= ETH_HEADER_BYTES + FcsBytes, TailFull(p)
  PROVE  LET data == FrameData(SubSeq(f, 1, n))
         IN  /\ p.truncated <=> Oversized(data)
             /\ ~p.truncated =>
                  /\ p.header = FramePacket(data).header
                  /\ [i \in 1 .. p.payload_count |-> body[i - 1]] = FramePacket(data).payload
<1> DEFINE data == FrameData(SubSeq(f, 1, n))
<1>1. /\ ETH_HEADER_BYTES \in Nat \ {0} /\ FcsBytes \in Nat \ {0} /\ n \in Nat
      /\ MAX_ETH_PAYLOAD_BYTES \in Nat \ {0}
  BY RxSizesAssumption
<1>2. p.state = "RX_DATA"
  <2>1. CASE p.state = "RX_SEARCH"
    BY <1>1, <2>1, WireIndexAssumption DEF Reads, Took, TailFull, Kept
  <2>2. QED BY <2>1 DEF ParserType
<1>3. PICK start \in 0 .. n :
        /\ DataStarts(f, n, start) /\ Took(p, f, start, n - start)
        /\ Stored(body, f, start, n - start)
  BY <1>2 DEF Reads
<1> DEFINE m == n - start
<1>4. /\ m \in Nat /\ Len(data) = m /\ data \in Seq(Byte)
      /\ \A i \in 1 .. m : data[i] = f[start + i]
  BY <1>3, DataFromStart
<1>5. Took(p, f, start, m) /\ Stored(body, f, start, m)
  BY <1>3
<1> HIDE DEF data, m
<1>6. m >= ETH_HEADER_BYTES + FcsBytes
  BY <1>1, <1>4, <1>5 DEF Took, TailFull, Kept
<1>7. p.truncated <=> Oversized(data)
  BY <1>1, <1>4, <1>5 DEF Took, Oversized, Full
<1>8. ASSUME ~p.truncated
      PROVE  /\ p.header = FramePacket(data).header
             /\ [i \in 1 .. p.payload_count |-> body[i - 1]] = FramePacket(data).payload
  <2>1. /\ m <= Full /\ p.payload_count = Paid(m)
        /\ \A i \in HeaderIndex : i < m => p.header[i] = f[start + i + 1]
        /\ \A i \in 0 .. Paid(m) - 1 : body[i] = f[start + ETH_HEADER_BYTES + i + 1]
    BY <1>1, <1>4, <1>5, <1>8 DEF Took, Stored, Full
  <2>2. Paid(m) = m - ETH_HEADER_BYTES - FcsBytes /\ Paid(m) \in Nat
    BY <1>1, <1>4, <1>6 DEF Paid
  <2>3. p.header = [i \in HeaderIndex |-> data[i + 1]]
    <3>1. ASSUME NEW i \in HeaderIndex PROVE p.header[i] = data[i + 1]
      <4>1. i < m /\ i + 1 \in 1 .. m /\ start + i + 1 = start + (i + 1)
        BY <1>1, <1>4, <1>6 DEF HeaderIndex
      <4>2. QED BY <1>4, <2>1, <4>1
    <3>2. p.header \in [HeaderIndex -> Byte]
      BY DEF ParserType, Header
    <3>3. QED BY <3>1, <3>2
  <2>4. /\ DOMAIN SubSeq(data, ETH_HEADER_BYTES + 1, m - FcsBytes) = 1 .. Paid(m)
        /\ \A i \in 1 .. Paid(m) :
             SubSeq(data, ETH_HEADER_BYTES + 1, m - FcsBytes)[i] = data[ETH_HEADER_BYTES + i]
    BY <1>1, <1>4, <1>6, <2>2
  <2>5. ASSUME NEW i \in 1 .. Paid(m)
        PROVE  body[i - 1] = data[ETH_HEADER_BYTES + i]
    <3>1. /\ i - 1 \in 0 .. Paid(m) - 1 /\ ETH_HEADER_BYTES + i \in 1 .. m
          /\ start + ETH_HEADER_BYTES + (i - 1) + 1 = start + (ETH_HEADER_BYTES + i)
      BY <1>1, <1>4, <1>6, <2>2
    <3>2. QED BY <1>4, <2>1, <3>1
  <2>6. [i \in 1 .. Paid(m) |-> body[i - 1]]
          = SubSeq(data, ETH_HEADER_BYTES + 1, m - FcsBytes)
    <3> DEFINE s == SubSeq(data, ETH_HEADER_BYTES + 1, m - FcsBytes)
    <3>1. s = [i \in 1 .. Len(s) |-> s[i]] /\ Len(s) \in Nat
      BY <1>1, <1>4, <1>6
    <3>2. Len(s) = Paid(m) /\ \A i \in 1 .. Paid(m) : s[i] = body[i - 1]
      BY <1>1, <1>4, <1>6, <2>2, <2>4, <2>5
    <3> HIDE DEF s
    <3>3. [i \in 1 .. Paid(m) |-> body[i - 1]] = [i \in 1 .. Paid(m) |-> s[i]]
      BY <3>2
    <3>4. QED BY <3>1, <3>2, <3>3 DEF s
  <2>7. QED BY <1>4, <2>1, <2>3, <2>6 DEF FramePacket
<1>9. QED BY <1>7, <1>8 DEF data

LEMMA ReadsTheWireHolds == WireSpec => []ReadsTheWire
<1>1. WireInit => ReadsTheWire
  BY DEF WireInit, Init, ReadsTheWire
<1>2. QED BY <1>1, WireSafe, ReadsTheWireStep, PTL DEF WireSpec

\* A step that ends a frame is PhyStop, with these effects.
LEMMA EndStep ==
  ASSUME WireOK, TypeOK, [WireNext]_wireVars, assembler.in_frame, ~assembler'.in_frame
  PROVE  \E err \in BOOLEAN :
           /\ FrameEnd(err)
           /\ wire'.errored = (wire.errored \/ err)
<1>1. ASSUME NEW err \in BOOLEAN, PhyStart(err) PROVE FALSE
  BY <1>1 DEF PhyStart
<1>2. ASSUME NEW err \in BOOLEAN, PhyNibble(err) PROVE FALSE
  BY <1>2 DEF PhyNibble, ethernet_rx_queue_step, FrameStart, LowNibble, HighNibble, TypeOK
<1>3. ASSUME NEW err \in BOOLEAN, PhyStop(err)
      PROVE  FrameEnd(err) /\ wire'.errored = (wire.errored \/ err)
  BY <1>3 DEF PhyStop, NoFrame, ethernet_rx_queue_step, LineIdle
<1>4. ASSUME NEW err \in BOOLEAN, PhyIdle(err) PROVE FALSE
  BY <1>4 DEF PhyIdle
<1>5. CASE Consume
  BY <1>5 DEF Consume, ConsumePacket
<1>6. CASE UNCHANGED wireVars
  BY <1>6 DEF wireVars, vars
<1>7. QED BY <1>1, <1>2, <1>3, <1>4, <1>5, <1>6 DEF WireNext

\* What the end of a frame does to the slot at the write index.
LEMMA EndPublishes ==
  ASSUME TypeOK, NEW err \in BOOLEAN, FrameEnd(err)
  PROVE  LET w     == rx_queue.write_idx
             ended == LatchError(parser, err)
         IN  /\ Publishes <=> /\ ~rx_queue.valid[w]
                              /\ MetaValid(ended) /\ ~rx_drop_current
             /\ Publishes => /\ rx_queue'.meta[w] = MetaOf(ended)
                             /\ rx_queue'.bytes[w] = rx_queue.bytes[w]
<1> DEFINE w == rx_queue.write_idx
           meta == MetaOf(LatchError(parser, err))
           publish == MetaValid(LatchError(parser, err)) /\ ~rx_drop_current
<1>1. rx_queue \in QType /\ w \in RQ!Slot
  BY DEF TypeOK, QType, RQ!QueueType
<1>2. rx_queue' = IF publish THEN RQ!packet_queue_publish_write_slot(rx_queue, meta)
                             ELSE rx_queue
  BY DEF FrameEnd
<1>3. CASE publish /\ ~rx_queue.valid[w]
  <2>1. rx_queue' = [rx_queue EXCEPT !.meta[w] = meta, !.valid[w] = TRUE,
                                     !.write_idx = RQ!NextSlot(@)]
    BY <1>2, <1>3 DEF RQ!packet_queue_publish_write_slot
  <2> HIDE DEF meta, publish
  <2>2. rx_queue'.valid[w] /\ rx_queue'.meta[w] = meta /\ rx_queue'.bytes = rx_queue.bytes
    BY <1>1, <2>1 DEF QType, RQ!QueueType
  <2>3. QED BY <1>3, <2>2 DEF Publishes, meta, publish
<1>4. CASE ~publish
  BY <1>2, <1>4 DEF Publishes
<1>5. CASE rx_queue.valid[w]
  BY <1>5 DEF Publishes
<1>6. QED BY <1>3, <1>4, <1>5

\* Nothing but the end of a frame raises the flag of the slot at the write
\* index.
LEMMA OnlyEndPublishes ==
  ASSUME WireOK, TypeOK, AdmittedFrameOwnsSlot, [WireNext]_wireVars, Publishes
  PROVE  assembler.in_frame /\ ~assembler'.in_frame
<1> DEFINE w == rx_queue.write_idx
<1>1. rx_queue \in QType /\ w \in RQ!Slot /\ [Next]_vars
  BY WireStepIsStep DEF TypeOK, QType, RQ!QueueType
<1>2. ASSUME NEW rxd \in Nibble, NEW err \in BOOLEAN, FrameStart(rxd, err)
      PROVE  rx_queue'.valid = rx_queue.valid
  BY <1>1, <1>2 DEF FrameStart, RQ!packet_queue_drop_write, QType, RQ!QueueType
<1>3. ASSUME NEW rxd \in Nibble, NEW err \in BOOLEAN, HighNibble(rxd, err)
      PROVE  rx_queue'.valid = rx_queue.valid
  BY <1>1, <1>3 DEF HighNibble, RQ!StoreByte, QType, RQ!QueueType
<1>4. CASE ConsumePacket
  <2>1. rx_queue'.valid = [rx_queue.valid EXCEPT ![rx_queue.read_idx] = FALSE]
    BY <1>1, <1>4
    DEF ConsumePacket, RQ!packet_queue_consume_read_slot, QType, RQ!QueueType
  <2>2. QED BY <1>1, <2>1 DEF Publishes, QType, RQ!QueueType
<1>5. ASSUME NEW err \in BOOLEAN, FrameEnd(err)
      PROVE  assembler.in_frame /\ ~assembler'.in_frame
  BY <1>5 DEF FrameEnd, TypeOK
<1>6. CASE UNCHANGED rx_queue
  BY <1>6 DEF Publishes
<1>7. QED
  BY <1>1, <1>2, <1>3, <1>4, <1>5, <1>6
  DEF Next, ethernet_rx_queue_step, LowNibble, LineIdle, vars, Publishes

\* What an ending frame is, in the terms of Reads.
LEMMA FrameAtEnd ==
  ASSUME WireOK, assembler.in_frame
  PROVE  /\ wire.frame \in Seq(Byte)
         /\ wire.nibbles \div 2 \in 0 .. Len(wire.frame)
<1>1. wire.frame \in Seq(Byte) /\ wire.nibbles \in 1 .. 2 * Len(wire.frame)
  BY WireFramesAssumption DEF WireOK
<1>2. QED BY <1>1

\* A frame that ends is published if it was admitted, saw no error and was
\* long enough, and then only.
LEMMA EndIsClean ==
  ASSUME WireOK, TypeOK, AdmittedFrameOwnsSlot, ReadsTheWire, [WireNext]_wireVars,
         assembler.in_frame, ~assembler'.in_frame
  PROVE  LET data  == FrameData(WireBytes(wire.frame, wire.nibbles))
             clean == wire.admitted /\ ~wire'.errored /\ FrameLongEnough(data)
         IN  /\ Publishes => clean
             /\ clean /\ Len(data) < ByteIndexMod => Publishes
<1> DEFINE data  == FrameData(WireBytes(wire.frame, wire.nibbles))
           clean == wire.admitted /\ ~wire'.errored /\ FrameLongEnough(data)
<1>1. PICK err \in BOOLEAN : FrameEnd(err) /\ wire'.errored = (wire.errored \/ err)
  BY EndStep
<1> DEFINE long == parser.byte_index >= ETH_HEADER_BYTES + FcsBytes /\ TailFull(parser)
           n == wire.nibbles \div 2
           body == rx_queue.bytes[rx_queue.write_idx]
<1>2. /\ wire.frame \in Seq(Byte) /\ n \in 0 .. Len(wire.frame)
      /\ parser \in ParserType /\ (~rx_drop_current) \in BOOLEAN
  BY FrameAtEnd DEF TypeOK, ParserOK
<1>3. Reads(parser, ~rx_drop_current, body, wire.frame, n)
  BY DEF ReadsTheWire
<1>4. /\ wire.admitted <=> ~rx_drop_current
      /\ parser.frame_error = wire.errored
  BY DEF ReadsTheWire
<1>5. ~rx_drop_current => ~rx_queue.valid[rx_queue.write_idx]
  BY DEF AdmittedFrameOwnsSlot, RQ!packet_queue_write_slot_available
<1>6. data = FrameData(SubSeq(wire.frame, 1, n))
  BY DEF WireBytes
<1> HIDE DEF data, n, body
<1>7. /\ long => FrameLongEnough(data)
      /\ FrameLongEnough(data) /\ Len(data) < ByteIndexMod => long
  BY <1>2, <1>3, <1>6, LongEnough
<1>8. MetaValid(LatchError(parser, err)) <=> long /\ ~(parser.frame_error \/ err)
  BY <1>1, <1>2 DEF MetaValid, LatchError, TailFull, ParserType
<1>9. Publishes <=> /\ ~rx_queue.valid[rx_queue.write_idx]
                    /\ MetaValid(LatchError(parser, err)) /\ ~rx_drop_current
  BY <1>1, EndPublishes
<1> HIDE DEF long
<1>10. QED BY <1>1, <1>4, <1>5, <1>7, <1>8, <1>9 DEF data

\* A packet that is whole is shorter than its frame, by a header and an FCS.
LEMMA PayloadFits ==
  ASSUME NEW p \in ParserType, NEW body, NEW f \in Seq(Byte), NEW n \in 0 .. Len(f),
         NEW owns \in BOOLEAN, Reads(p, owns, body, f, n), TailFull(p), ~p.truncated
  PROVE  ETH_HEADER_BYTES + p.payload_count + FcsBytes <= Len(f)
<1>1. /\ ETH_HEADER_BYTES \in Nat \ {0} /\ FcsBytes \in Nat \ {0} /\ n \in Nat
      /\ MAX_ETH_PAYLOAD_BYTES \in Nat \ {0} /\ Len(f) \in Nat /\ n <= Len(f)
  BY RxSizesAssumption
<1>2. p.state = "RX_DATA"
  BY <1>1 DEF Reads, Took, TailFull, Kept, ParserType
<1>3. PICK start \in 0 .. n : Took(p, f, start, n - start)
  BY <1>2 DEF Reads
<1> DEFINE m == n - start
<1>4. m \in Nat /\ m <= n /\ Took(p, f, start, m)
  BY <1>1, <1>3
<1> HIDE DEF m
<1>5. /\ Kept(m) = FcsBytes /\ m <= Full /\ p.payload_count = Paid(m)
  BY <1>1, <1>4 DEF Took, TailFull, Full
<1>6. p.payload_count = m - ETH_HEADER_BYTES - FcsBytes
  BY <1>1, <1>4, <1>5 DEF Kept, Paid
<1>7. QED BY <1>1, <1>4, <1>6

\* So is the packet that the end of a frame publishes.
LEMMA PublishedFits ==
  ASSUME WireOK, TypeOK, ReadsTheWire, NEW err \in BOOLEAN, FrameEnd(err), Publishes
  PROVE  LET meta == rx_queue'.meta[rx_queue.write_idx]
         IN  ~meta.truncated =>
               ETH_HEADER_BYTES + meta.payload_len + FcsBytes <= Len(wire.frame)
<1>1. assembler.in_frame
  BY DEF FrameEnd
<1>2. /\ wire.frame \in Seq(Byte) /\ wire.nibbles \div 2 \in 0 .. Len(wire.frame)
      /\ parser \in ParserType /\ (~rx_drop_current) \in BOOLEAN
  BY <1>1, FrameAtEnd DEF TypeOK, ParserOK
<1>3. Reads(parser, ~rx_drop_current, rx_queue.bytes[rx_queue.write_idx],
            wire.frame, wire.nibbles \div 2)
  BY <1>1 DEF ReadsTheWire
<1> DEFINE ended == LatchError(parser, err)
<1>4. MetaValid(ended) /\ rx_queue'.meta[rx_queue.write_idx] = MetaOf(ended)
  BY EndPublishes
<1>5. /\ TailFull(parser)
      /\ MetaOf(ended).truncated = parser.truncated
      /\ MetaOf(ended).payload_len = parser.payload_count
  BY <1>2, <1>4 DEF MetaValid, MetaOf, LatchError, TailFull, ParserType
<1>6. ~parser.truncated =>
        ETH_HEADER_BYTES + parser.payload_count + FcsBytes <= Len(wire.frame)
  BY <1>2, <1>3, <1>5, PayloadFits
<1>7. QED BY <1>4, <1>5, <1>6

\* A frame that ends is published exactly when it was admitted, saw no error
\* and was long enough (ethernet_rx.h:161-163, ethernet_rx_queue.h:40,74).
THEOREM PublishedExactlyIfClean == WireSpec => PublishedIffClean
<1> DEFINE data  == FrameData(WireBytes(wire.frame, wire.nibbles))
           clean == wire.admitted /\ ~wire'.errored /\ FrameLongEnough(data)
           Claim == assembler.in_frame /\ ~assembler'.in_frame =>
                      /\ Publishes => clean
                      /\ clean /\ Len(data) < ByteIndexMod => Publishes
<1>1. ASSUME WireOK, TypeOK, AdmittedFrameOwnsSlot, ReadsTheWire, [WireNext]_wireVars
      PROVE  [Claim]_wireVars
  BY <1>1, EndIsClean
<1>2. QED BY <1>1, WireSafe, ReadsTheWireHolds, PTL DEF WireSpec, PublishedIffClean

\* The packet published is the frame the wire carried.
THEOREM PublishedPacketIsTheFrame == WireSpec => PublishedIsTheFrame
<1> DEFINE data == FrameData(WireBytes(wire.frame, wire.nibbles))
           w    == rx_queue.write_idx
           meta == rx_queue'.meta[w]
           Claim == Publishes =>
                      /\ meta.truncated <=> Oversized(data)
                      /\ ~meta.truncated => SlotPacket(rx_queue', w) = FramePacket(data)
<1>1. ASSUME WireOK, TypeOK, AdmittedFrameOwnsSlot, ReadsTheWire, [WireNext]_wireVars
      PROVE  Claim
  <2> SUFFICES ASSUME Publishes
               PROVE  /\ meta.truncated <=> Oversized(data)
                      /\ ~meta.truncated => SlotPacket(rx_queue', w) = FramePacket(data)
    OBVIOUS
  <2>1. assembler.in_frame /\ ~assembler'.in_frame
    BY <1>1, OnlyEndPublishes
  <2>2. PICK err \in BOOLEAN : FrameEnd(err)
    BY <1>1, <2>1, EndStep
  <2> DEFINE n == wire.nibbles \div 2
             body == rx_queue.bytes[w]
             ended == LatchError(parser, err)
  <2>3. /\ wire.frame \in Seq(Byte) /\ n \in 0 .. Len(wire.frame)
        /\ parser \in ParserType
    BY <1>1, <2>1, FrameAtEnd DEF TypeOK, ParserOK
  <2>4. /\ MetaValid(ended) /\ ~rx_drop_current
        /\ meta = MetaOf(ended) /\ rx_queue'.bytes[w] = body
    BY <1>1, <2>2, EndPublishes
  <2>5. /\ ended.header = parser.header /\ ended.payload_count = parser.payload_count
        /\ ended.truncated = parser.truncated /\ ended.byte_index = parser.byte_index
        /\ ended.fcs_tail = parser.fcs_tail
    BY <2>2, <2>3 DEF LatchError, ParserType
  <2>6. Reads(parser, TRUE, body, wire.frame, n)
    BY <1>1, <2>1, <2>4 DEF ReadsTheWire
  <2>7. parser.byte_index >= ETH_HEADER_BYTES + FcsBytes /\ TailFull(parser)
    BY <2>4, <2>5 DEF MetaValid, TailFull
  <2>8. data = FrameData(SubSeq(wire.frame, 1, n))
    BY DEF WireBytes
  <2>9. /\ meta.header = parser.header /\ meta.payload_len = parser.payload_count
        /\ meta.truncated = parser.truncated
    BY <2>4, <2>5 DEF MetaOf
  <2>10. SlotPacket(rx_queue', w)
           = [header |-> parser.header,
              payload |-> [i \in 1 .. parser.payload_count |-> body[i - 1]]]
    BY <2>4, <2>9 DEF SlotPacket
  <2>11. FramePacket(data) = [header |-> FramePacket(data).header,
                              payload |-> FramePacket(data).payload]
    BY DEF FramePacket
  <2> HIDE DEF data, n, body, meta, ended, w
  <2>12. /\ parser.truncated <=> Oversized(data)
         /\ ~parser.truncated =>
              /\ parser.header = FramePacket(data).header
              /\ [i \in 1 .. parser.payload_count |-> body[i - 1]]
                   = FramePacket(data).payload
    BY <2>3, <2>6, <2>7, <2>8, PacketRead
  <2>13. QED BY <2>9, <2>10, <2>11, <2>12
<1>2. ASSUME WireOK, TypeOK, AdmittedFrameOwnsSlot, ReadsTheWire, [WireNext]_wireVars
      PROVE  [Claim]_wireVars
  BY <1>1, <1>2
<1>3. QED BY <1>2, WireSafe, ReadsTheWireHolds, PTL DEF WireSpec, PublishedIsTheFrame
=============================================================================
