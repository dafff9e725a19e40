-------------------------- MODULE EthernetTxProofs --------------------------
(***************************************************************************)
(* Proofs about the transmit path for every size of ring, slot, preamble,  *)
(* minimum frame and gap, and every producer that fills and publishes only *)
(* free slots; about what a host on the wire sees of its frames; and that  *)
(* their FCS is the remainder of polynomial division.                      *)
(***************************************************************************)
EXTENDS EthernetTxWire, Crc32Check, WellFoundedInduction, TLAPS

\* The CRC register keeps its 32 bits.
LEMMA CrcBitType ==
  ASSUME NEW crc \in Word, NEW bits, NEW i
  PROVE  CrcBit(crc, bits, i) \in Word
<1>1. CrcPolynomial \in Word
  BY DEF CrcPolynomial, Word
<1>2. ShiftRight(crc) \in Word
  BY DEF ShiftRight, Word
<1>3. \A a, b \in Word : Xor(a, b) \in Word
  BY DEF Xor, Word
<1>4. QED BY <1>1, <1>2, <1>3 DEF CrcBit

LEMMA CrcType ==
  ASSUME NEW crc \in Word, NEW byte
  PROVE  crc32_next_byte(crc, byte) \in Word
<1> DEFINE Turn(c, i) == CrcBit(c, BitsOf(byte), i)
           c1 == Turn(crc, 0)
           c2 == Turn(c1, 1)
           c3 == Turn(c2, 2)
           c4 == Turn(c3, 3)
           c5 == Turn(c4, 4)
           c6 == Turn(c5, 5)
           c7 == Turn(c6, 6)
<1>5. \A c \in Word : \A i : Turn(c, i) \in Word
  BY CrcBitType
<1>6. crc32_next_byte(crc, byte) = Turn(c7, 7)
  BY DEF crc32_next_byte
<1> HIDE DEF Turn
<1>7. c1 \in Word /\ c2 \in Word /\ c3 \in Word /\ c4 \in Word
  BY <1>5
<1>8. c5 \in Word /\ c6 \in Word /\ c7 \in Word
  BY <1>5, <1>7
<1>9. QED BY <1>5, <1>6, <1>8

\* The ring's lemmas, for this ring of packets to transmit.
LEMMA RingOperations ==
  ASSUME NEW q \in TxQueueType, NEW len \in BodyLen
  PROVE  /\ TQ!packet_queue_drop_write(q) \in TxQueueType
         /\ TQ!packet_queue_publish_write_slot(q, len) \in TxQueueType
         /\ TQ!packet_queue_consume_read_slot(q) \in TxQueueType
  BY TQ!OperationTypes, TxSizesAssumption DEF TxQueueType

LEMMA RingShapes ==
  ASSUME NEW q \in TxQueueType, NEW len \in BodyLen, TQ!RingShape(q)
  PROVE  /\ TQ!RingShape(TQ!packet_queue_drop_write(q))
         /\ TQ!packet_queue_write_slot_available(q)
              => TQ!RingShape(TQ!packet_queue_publish_write_slot(q, len))
         /\ TQ!packet_queue_read_slot_valid(q)
              => TQ!RingShape(TQ!packet_queue_consume_read_slot(q))
  BY TQ!OperationsKeepShape, TxSizesAssumption DEF TxQueueType

\* A stored byte changes neither the type of the ring nor its flags.
LEMMA StoreType ==
  ASSUME NEW q \in TxQueueType, NEW slot \in TQ!Slot,
         NEW i \in BodyIndex, NEW byte \in Byte
  PROVE  TQ!StoreByte(q, slot, i, byte) \in TxQueueType
  BY DEF TQ!StoreByte, TxQueueType, TQ!QueueType

\* Freeing or keeping the read slot keeps the type, and so does the handshake
\* around the framer.
LEMMA HandshakeType ==
  ASSUME TxTypeOK, NEW tx_idle \in BOOLEAN, Handshake(tx_idle)
  PROVE  /\ framer_active' \in BOOLEAN
         /\ framer_slot_idx' \in TQ!Slot
         /\ tx_queue' \in TxQueueType
<1>1. 0 \in BodyLen
  BY TxSizesAssumption DEF BodyLen
<1>2. tx_queue \in TxQueueType /\ framer_slot_idx \in TQ!Slot
  BY DEF TxTypeOK
<1>3. tx_queue' \in TxQueueType
  BY <1>1, <1>2, RingOperations DEF Handshake
<1>4. framer_slot_idx' \in TQ!Slot
  BY <1>2 DEF Handshake, CurrentSlot, TxQueueType, TQ!QueueType
<1>5. framer_active' \in BOOLEAN
  BY DEF Handshake
<1>6. QED BY <1>3, <1>4, <1>5

FramerOK(f) ==
  /\ f \in FramerType
  /\ f.state = "TX_PREAMBLE" => f.byte_index <= SfdIndex
  /\ f.state \in {"TX_PREAMBLE", "TX_DATA"} => f.frame_body_len >= 1
  /\ f.state = "TX_DATA" => f.byte_index < f.frame_body_len

\* One field at a time, a framer stays a framer.
LEMMA FieldTypes ==
  ASSUME NEW f \in FramerType
  PROVE  /\ \A s \in {"TX_IDLE", "TX_PREAMBLE", "TX_DATA", "TX_FCS", "TX_IFG"} :
              [f EXCEPT !.state = s] \in FramerType
         /\ \A b \in BOOLEAN : /\ [f EXCEPT !.nibble_phase = b] \in FramerType
                                /\ [f EXCEPT !.frame = b] \in FramerType
         /\ \A i \in BodyLen : [f EXCEPT !.byte_index = i] \in FramerType
         /\ \A i \in 0 .. 3 : [f EXCEPT !.fcs_index = i] \in FramerType
         /\ \A i \in 0 .. IFG_NIBBLES - 1 : [f EXCEPT !.ifg_count = i] \in FramerType
         /\ \A w \in Word : /\ [f EXCEPT !.crc = w] \in FramerType
                             /\ [f EXCEPT !.fcs = w] \in FramerType
  BY DEF FramerType

\* The framer's part of the type invariant, one state of the framer at a time.
LEMMA FramerStep ==
  ASSUME TxTypeOK, ethernet_tx_queue_step
  PROVE  FramerOK(framer')
<1> USE TxSizesAssumption
<1>0. 0 \in BodyLen /\ 0 \in 0 .. 3 /\ 0 \in 0 .. IFG_NIBBLES - 1
  BY DEF BodyLen
<1>1. FramerOK(framer)
  BY DEF TxTypeOK, FramerOK
<1>2. CrcInit \in Word
  BY DEF CrcInit, Word
<1> DEFINE turned == [framer EXCEPT !.nibble_phase = ~@]
<1>3. /\ FramerOK(turned)
      /\ turned.state = framer.state /\ turned.byte_index = framer.byte_index
      /\ turned.frame_body_len = framer.frame_body_len
      /\ turned.fcs_index = framer.fcs_index
  BY <1>1 DEF FramerOK, FramerType
<1> HIDE DEF turned
<1>4. CASE IdleCycle
  <2> DEFINE rested == [framer EXCEPT !.nibble_phase = FALSE, !.byte_index = 0,
                                      !.fcs_index = 0, !.crc = CrcInit]
             len == tx_queue.meta[tx_queue.read_idx]
             started == [rested EXCEPT !.len = len, !.frame_body_len = PaddedLen(len),
                                       !.state = "TX_PREAMBLE"]
  <2>1. rested \in FramerType
    <3> DEFINE r1 == [framer EXCEPT !.nibble_phase = FALSE]
               r2 == [r1 EXCEPT !.byte_index = 0]
               r3 == [r2 EXCEPT !.fcs_index = 0]
    <3>1. r1 \in FramerType
      BY <1>1, FieldTypes DEF FramerOK
    <3>2. r2 \in FramerType
      BY <1>0, <3>1, FieldTypes
    <3>3. r3 \in FramerType
      BY <1>0, <3>2, FieldTypes
    <3>4. QED BY <1>2, <3>3, FieldTypes
  <2>2. rested.state = "TX_IDLE" /\ rested.byte_index = 0
    BY <1>1, <1>4 DEF FramerOK, FramerType, IdleCycle
  <2>3. len \in BodyLen /\ PaddedLen(len) \in BodyLen /\ PaddedLen(len) >= 1
    BY DEF TxTypeOK, TxQueueType, TQ!QueueType, BodyLen, PaddedLen
  <2> HIDE DEF rested, len
  <2>4. FramerOK(rested)
    BY <2>1, <2>2 DEF FramerOK
  <2>5. started \in FramerType /\ started.state = "TX_PREAMBLE"
    BY <2>1, <2>3 DEF FramerType
  <2>6. started.byte_index = 0 /\ started.frame_body_len = PaddedLen(len)
    BY <2>1, <2>2 DEF FramerType
  <2>7. FramerOK(started)
    BY <2>3, <2>5, <2>6 DEF FramerOK
  <2>8. QED BY <1>4, <2>4, <2>7 DEF IdleCycle, rested, len
<1>5. CASE PreambleCycle
  <2> DEFINE data == [turned EXCEPT !.state = "TX_DATA", !.byte_index = 0]
             next == [turned EXCEPT !.byte_index = @ + 1]
  <2>1. framer.state = "TX_PREAMBLE" /\ framer.byte_index <= SfdIndex
    BY <1>1, <1>5 DEF PreambleCycle, FramerOK
  <2>2. FramerOK(data)
    <3> DEFINE d1 == [turned EXCEPT !.state = "TX_DATA"]
    <3>0. d1 \in FramerType /\ data \in FramerType
      BY <1>0, <1>3, FieldTypes DEF FramerOK
    <3>1. data.state = "TX_DATA" /\ data.byte_index = 0
      BY <1>3 DEF FramerOK, FramerType
    <3>2. data.frame_body_len >= 1 /\ data.frame_body_len \in BodyLen
      BY <1>3, <2>1 DEF FramerOK, FramerType
    <3>3. QED BY <3>0, <3>1, <3>2 DEF FramerOK, BodyLen
  <2>3. ASSUME framer.byte_index # SfdIndex PROVE FramerOK(next)
    <3>1. framer.byte_index + 1 \in BodyLen /\ framer.byte_index + 1 <= SfdIndex
      BY <1>1, <2>1, <2>3 DEF FramerOK, FramerType, BodyLen
    <3>2. QED BY <1>3, <2>1, <3>1 DEF FramerOK, FramerType
  <2>4. framer' \in {turned, data} \/ (framer' = next /\ framer.byte_index # SfdIndex)
    BY <1>5 DEF PreambleCycle, turned
  <2>5. QED BY <1>3, <2>2, <2>3, <2>4
<1>6. CASE DataCycle
  <2> DEFINE byte == tx_frame_body_byte(tx_queue.bytes[CurrentSlot],
                                        framer.byte_index, framer.len)
             next_crc == crc32_next_byte(framer.crc, byte)
             folded == [turned EXCEPT !.crc = next_crc]
             done == [folded EXCEPT !.state = "TX_FCS", !.fcs_index = 0,
                                    !.fcs = Complement(next_crc)]
             next == [folded EXCEPT !.byte_index = @ + 1]
             last == framer.byte_index = framer.frame_body_len - 1
  <2>1. next_crc \in Word /\ Complement(next_crc) \in Word
    BY <1>1, CrcType DEF FramerOK, FramerType, Complement, Word
  <2>2. framer.state = "TX_DATA"
    BY <1>6 DEF DataCycle
  <2>3. framer' \in {turned, done} \/ (framer' = next /\ ~last)
    BY <1>6 DEF DataCycle, turned
  <2> HIDE DEF next_crc, byte
  <2>4. FramerOK(folded) /\ folded.byte_index = framer.byte_index
    BY <1>3, <2>1 DEF FramerOK, FramerType
  <2>5. FramerOK(done)
    <3> DEFINE d1 == [folded EXCEPT !.state = "TX_FCS"]
               d2 == [d1 EXCEPT !.fcs_index = 0]
    <3>1. d1 \in FramerType
      BY <2>4, FieldTypes DEF FramerOK
    <3>2. d2 \in FramerType
      BY <1>0, <3>1, FieldTypes
    <3>3. done \in FramerType
      BY <2>1, <3>2, FieldTypes
    <3>4. done.state = "TX_FCS"
      BY <2>4 DEF FramerOK, FramerType
    <3>5. QED BY <3>3, <3>4 DEF FramerOK
  <2>6. ASSUME ~last PROVE FramerOK(next)
    <3>1. /\ framer.byte_index + 1 \in BodyLen
          /\ framer.byte_index + 1 < framer.frame_body_len
      BY <1>1, <2>2, <2>6 DEF FramerOK, FramerType, BodyLen
    <3>2. QED BY <1>3, <2>1, <2>2, <3>1 DEF FramerOK, FramerType
  <2>7. QED BY <1>3, <2>3, <2>5, <2>6
<1>7. CASE FcsCycle \/ GapCycle
  <2> DEFINE gap == [turned EXCEPT !.state = "TX_IFG", !.ifg_count = 0, !.frame = ~@]
             next == [turned EXCEPT !.fcs_index = @ + 1]
             idle == [framer EXCEPT !.state = "TX_IDLE"]
             wait == [framer EXCEPT !.ifg_count = @ + 1]
  <2>1. FramerOK(gap)
    <3> DEFINE g1 == [turned EXCEPT !.state = "TX_IFG"]
               g2 == [g1 EXCEPT !.ifg_count = 0]
    <3>1. g1 \in FramerType
      BY <1>3, FieldTypes DEF FramerOK
    <3>2. g2 \in FramerType
      BY <1>0, <3>1, FieldTypes
    <3>3. gap \in FramerType
      BY <3>2, FieldTypes DEF FramerType
    <3>4. gap.state = "TX_IFG"
      BY <1>3 DEF FramerOK, FramerType
    <3>5. QED BY <3>3, <3>4 DEF FramerOK
  <2>2. ASSUME framer.fcs_index # 3, framer.state = "TX_FCS" PROVE FramerOK(next)
    BY <1>3, <2>2 DEF FramerOK, FramerType
  <2>3. ASSUME framer.state = "TX_IFG" PROVE FramerOK(idle)
    BY <1>1, <2>3 DEF FramerOK, FramerType
  <2>4. ASSUME framer.ifg_count # IFG_NIBBLES - 1, framer.state = "TX_IFG"
        PROVE  FramerOK(wait)
    BY <1>1, <2>4 DEF FramerOK, FramerType
  <2>5. CASE FcsCycle
    <3>1. framer' \in {turned, gap} \/ (framer' = next /\ framer.fcs_index # 3)
      BY <2>5 DEF FcsCycle, FrameSent, turned
    <3>2. QED BY <1>3, <2>1, <2>2, <2>5, <3>1 DEF FcsCycle, FrameSent
  <2>6. CASE GapCycle
    BY <2>3, <2>4, <2>6 DEF GapCycle
  <2>7. QED BY <1>7, <2>5, <2>6
<1>8. QED
  BY <1>3, <1>4, <1>5, <1>6, <1>7 DEF ethernet_tx_queue_step

\* The producer's operations keep the ring's type.
LEMMA ProducerType ==
  ASSUME TxTypeOK,
         \/ \E i \in BodyIndex, byte \in Byte : FillByte(i, byte)
         \/ \E len \in BodyLen : PublishPacket(len)
         \/ DropPacket
  PROVE  tx_queue' \in TxQueueType
<1>1. tx_queue \in TxQueueType /\ tx_queue.write_idx \in TQ!Slot /\ 0 \in BodyLen
  BY TxSizesAssumption DEF TxTypeOK, TxQueueType, TQ!QueueType, BodyLen
<1>2. QED BY <1>1, RingOperations, StoreType DEF FillByte, PublishPacket, DropPacket

LEMMA TxTypeStep == TxTypeOK /\ [Next]_txVars => TxTypeOK'
<1> SUFFICES ASSUME TxTypeOK, [Next]_txVars PROVE TxTypeOK'
  OBVIOUS
<1>1. CASE ethernet_tx_queue_step
  <2>1. \E tx_idle \in BOOLEAN : Handshake(tx_idle)
    BY <1>1 DEF ethernet_tx_queue_step, IdleCycle, PreambleCycle, DataCycle,
                FcsCycle, FrameSent, GapCycle, StartRequest
  <2>2. /\ framer_active' \in BOOLEAN
        /\ framer_slot_idx' \in TQ!Slot
        /\ tx_queue' \in TxQueueType
    BY <2>1, HandshakeType
  <2>3. FramerOK(framer')
    BY <1>1, FramerStep
  <2>4. QED BY <2>2, <2>3 DEF TxTypeOK, FramerOK
<1>2. CASE \/ \E i \in BodyIndex, byte \in Byte : FillByte(i, byte)
           \/ \E len \in BodyLen : PublishPacket(len)
           \/ DropPacket
  <2>1. tx_queue' \in TxQueueType
    BY <1>2, ProducerType
  <2>2. UNCHANGED << framer_active, framer_slot_idx, framer >>
    BY <1>2 DEF FillByte, PublishPacket, DropPacket
  <2>3. QED BY <2>1, <2>2 DEF TxTypeOK
<1>3. CASE UNCHANGED txVars
  BY <1>3 DEF txVars, TxTypeOK
<1>4. QED BY <1>1, <1>2, <1>3 DEF Next

LEMMA TxTypeAtFirst == Init => TxTypeOK
<1> SUFFICES ASSUME Init PROVE TxTypeOK
  OBVIOUS
<1>1. 0 \in BodyLen /\ ZeroBody \in [BodyIndex -> Byte] /\ 0 \in TQ!Slot
  BY TxSizesAssumption DEF BodyLen, ZeroBody, BodyIndex, Byte, TQ!Slot
<1>2. tx_queue \in TxQueueType
  BY <1>1 DEF Init, TxQueueType, TQ!QueueType, TQ!EmptyQueue
<1>3. framer \in FramerType /\ framer.state = "TX_IDLE"
  BY <1>1, TxSizesAssumption DEF Init, FramerType, CrcInit, Word
<1>4. framer_active \in BOOLEAN /\ framer_slot_idx \in TQ!Slot
  BY <1>1 DEF Init
<1>5. QED BY <1>2, <1>3, <1>4 DEF TxTypeOK

\* No index of the framer leaves its range, whatever lengths are published
\* (ethernet_framer.h:35-44, 97-188).
THEOREM TxTypeCorrect == Spec => []TxTypeOK
<1>1. Init => TxTypeOK
  BY TxTypeAtFirst
<1>2. QED BY <1>1, TxTypeStep, PTL DEF Spec

----------------------------------------------------------------------------
(* The handshake between the queue step and the framer. *)

\* What the framer does to the fields the handshake is about.
LEMMA FramerProgress ==
  ASSUME TxTypeOK, FramerOwnsReadSlot, ethernet_tx_queue_step
  PROVE  \/ /\ framer_active /\ framer_active'
            /\ tx_queue' = tx_queue /\ framer_slot_idx' = framer_slot_idx
            /\ framer'.state # "TX_IDLE"
            /\ framer'.len = framer.len
            /\ framer'.frame_body_len = framer.frame_body_len
         \/ /\ framer_active /\ ~framer_active'
            /\ framer.state = "TX_IFG" /\ framer.ifg_count = IFG_NIBBLES - 1
            /\ tx_queue' = TQ!packet_queue_consume_read_slot(tx_queue)
            /\ framer'.state = "TX_IDLE"
         \/ /\ ~framer_active /\ ~framer_active'
            /\ tx_queue' = tx_queue
            /\ framer'.state = "TX_IDLE"
         \/ /\ ~framer_active /\ framer_active'
            /\ TQ!packet_queue_read_slot_valid(tx_queue)
            /\ tx_queue' = tx_queue /\ framer_slot_idx' = tx_queue.read_idx
            /\ framer'.state = "TX_PREAMBLE"
            /\ framer'.len = tx_queue.meta[tx_queue.read_idx]
            /\ framer'.frame_body_len = PaddedLen(framer'.len)
<1>1. framer \in FramerType /\ (framer_active <=> framer.state # "TX_IDLE")
  BY DEF TxTypeOK, FramerOwnsReadSlot
<1>2. CASE IdleCycle /\ StartRequest
  BY <1>1, <1>2 DEF IdleCycle, StartRequest, Handshake, CurrentSlot, FramerType
<1>3. CASE IdleCycle /\ ~StartRequest
  BY <1>1, <1>3 DEF IdleCycle, StartRequest, Handshake, FramerType
<1>4. CASE PreambleCycle
  BY <1>1, <1>4 DEF PreambleCycle, StartRequest, Handshake, CurrentSlot, FramerType
<1>5. CASE DataCycle
  BY <1>1, <1>5 DEF DataCycle, StartRequest, Handshake, CurrentSlot, FramerType
<1>6. CASE FcsCycle
  BY <1>1, <1>6 DEF FcsCycle, FrameSent, StartRequest, Handshake, CurrentSlot, FramerType
<1>7. CASE GapCycle /\ framer.ifg_count = IFG_NIBBLES - 1
  BY <1>1, <1>7 DEF GapCycle, StartRequest, Handshake, CurrentSlot, FramerType
<1>8. CASE GapCycle /\ framer.ifg_count # IFG_NIBBLES - 1
  BY <1>1, <1>8 DEF GapCycle, StartRequest, Handshake, CurrentSlot, FramerType
<1>9. QED
  BY <1>2, <1>3, <1>4, <1>5, <1>6, <1>7, <1>8 DEF ethernet_tx_queue_step

\* What the producer does leaves every published slot and the read index.
LEMMA ProducerKeepsPublished ==
  ASSUME TxTypeOK, TQ!RingShape(tx_queue),
         \/ \E i \in BodyIndex, byte \in Byte : FillByte(i, byte)
         \/ \E len \in BodyLen : PublishPacket(len)
         \/ DropPacket
  PROVE  /\ TQ!RingShape(tx_queue')
         /\ tx_queue'.read_idx = tx_queue.read_idx
         /\ \A s \in TQ!Slot : tx_queue.valid[s] =>
              /\ tx_queue'.valid[s]
              /\ tx_queue'.meta[s] = tx_queue.meta[s]
              /\ tx_queue'.bytes[s] = tx_queue.bytes[s]
<1>1. tx_queue \in TxQueueType /\ 0 \in BodyLen
  BY TxSizesAssumption DEF TxTypeOK, BodyLen
<1>2. CASE \E i \in BodyIndex, byte \in Byte : FillByte(i, byte)
  <2>1. PICK i \in BodyIndex, byte \in Byte : FillByte(i, byte)
    BY <1>2
  <2>2. /\ tx_queue'.valid = tx_queue.valid /\ tx_queue'.read_idx = tx_queue.read_idx
        /\ tx_queue'.write_idx = tx_queue.write_idx /\ tx_queue'.meta = tx_queue.meta
        /\ \A s \in TQ!Slot : s # tx_queue.write_idx =>
             tx_queue'.bytes[s] = tx_queue.bytes[s]
    BY <1>1, <2>1 DEF FillByte, TQ!StoreByte, TxQueueType, TQ!QueueType
  <2>3. ~tx_queue.valid[tx_queue.write_idx]
    BY <2>1 DEF FillByte, TQ!packet_queue_write_slot_available
  <2>4. QED BY <2>2, <2>3 DEF TQ!RingShape
<1>3. CASE \E len \in BodyLen : PublishPacket(len)
  <2>1. PICK len \in BodyLen : PublishPacket(len)
    BY <1>3
  <2>2. TQ!RingShape(tx_queue')
    BY <1>1, <2>1, RingShapes DEF PublishPacket
  <2>3. QED
    BY <1>1, <2>1, <2>2
       DEF PublishPacket, TQ!packet_queue_publish_write_slot,
           TQ!packet_queue_write_slot_available, TxQueueType, TQ!QueueType
<1>4. CASE DropPacket
  <2>1. TQ!RingShape(tx_queue')
    BY <1>1, <1>4, RingShapes DEF DropPacket
  <2>2. QED
    BY <1>1, <1>4, <2>1 DEF DropPacket, TQ!packet_queue_drop_write, TxQueueType, TQ!QueueType
<1>5. QED BY <1>2, <1>3, <1>4

LEMMA OwnerStep ==
  TxTypeOK /\ FramerOwnsReadSlot /\ [Next]_txVars => FramerOwnsReadSlot'
<1> SUFFICES ASSUME TxTypeOK, FramerOwnsReadSlot, [Next]_txVars
             PROVE  FramerOwnsReadSlot'
  OBVIOUS
<1>1. /\ tx_queue \in TxQueueType /\ 0 \in BodyLen /\ TQ!RingShape(tx_queue)
      /\ framer_slot_idx \in TQ!Slot
  BY TxSizesAssumption DEF TxTypeOK, BodyLen, FramerOwnsReadSlot
<1>2. CASE ethernet_tx_queue_step
  <2>1. ASSUME framer_active, ~framer_active',
               tx_queue' = TQ!packet_queue_consume_read_slot(tx_queue),
               framer'.state = "TX_IDLE"
        PROVE  FramerOwnsReadSlot'
    <3>1. TQ!packet_queue_read_slot_valid(tx_queue)
      BY <2>1 DEF FramerOwnsReadSlot, TQ!packet_queue_read_slot_valid
    <3>2. TQ!RingShape(tx_queue')
      BY <1>1, <2>1, <3>1, RingShapes
    <3>3. QED BY <2>1, <3>2 DEF FramerOwnsReadSlot
  <2>2. ASSUME framer_active, framer_active',
               tx_queue' = tx_queue, framer_slot_idx' = framer_slot_idx,
               framer'.state # "TX_IDLE", framer'.len = framer.len,
               framer'.frame_body_len = framer.frame_body_len
        PROVE  FramerOwnsReadSlot'
    BY <2>2 DEF FramerOwnsReadSlot
  <2>3. ASSUME ~framer_active, ~framer_active', tx_queue' = tx_queue,
               framer'.state = "TX_IDLE"
        PROVE  FramerOwnsReadSlot'
    BY <2>3 DEF FramerOwnsReadSlot
  <2>4. ASSUME ~framer_active, framer_active',
               TQ!packet_queue_read_slot_valid(tx_queue),
               tx_queue' = tx_queue, framer_slot_idx' = tx_queue.read_idx,
               framer'.state = "TX_PREAMBLE",
               framer'.len = tx_queue.meta[tx_queue.read_idx],
               framer'.frame_body_len = PaddedLen(framer'.len)
        PROVE  FramerOwnsReadSlot'
    BY <2>4 DEF FramerOwnsReadSlot, TQ!packet_queue_read_slot_valid
  <2>5. QED BY <1>2, <2>1, <2>2, <2>3, <2>4, FramerProgress
<1>3. CASE \/ \E i \in BodyIndex, byte \in Byte : FillByte(i, byte)
           \/ \E len \in BodyLen : PublishPacket(len)
           \/ DropPacket
  <2>1. UNCHANGED << framer_active, framer_slot_idx, framer >>
    BY <1>3 DEF FillByte, PublishPacket, DropPacket
  <2>2. QED BY <1>1, <1>3, <2>1, ProducerKeepsPublished DEF FramerOwnsReadSlot
<1>4. CASE UNCHANGED txVars
  BY <1>4 DEF txVars, FramerOwnsReadSlot
<1>5. QED BY <1>2, <1>3, <1>4 DEF Next

LEMMA TxOwnerAtFirst == Init => FramerOwnsReadSlot
<1> SUFFICES ASSUME Init PROVE FramerOwnsReadSlot
  OBVIOUS
<1>1. 0 \in TQ!Slot
  BY TxSizesAssumption DEF TQ!Slot
<1>2. TQ!RingShape(tx_queue)
  BY <1>1 DEF Init, TQ!RingShape, TQ!Shape, TQ!EmptyQueue
<1>3. ~framer_active /\ framer.state = "TX_IDLE"
  BY DEF Init
<1>4. QED BY <1>2, <1>3 DEF FramerOwnsReadSlot

\* framer_active and the framer's state always agree, and a frame under way
\* owns the published slot at the read index (ethernet_tx_queue.h:23-46).
THEOREM TxRingSafe == Spec => []FramerOwnsReadSlot
<1>1. Init => FramerOwnsReadSlot
  BY TxOwnerAtFirst
<1>2. QED BY <1>1, TxTypeCorrect, OwnerStep, PTL DEF Spec

\* A packet being sent is frozen in its slot, and only the last cycle of the
\* gap frees the slot.
THEOREM SlotHeld == Spec => SlotHeldUntilGapEnds
<1> DEFINE Held == framer_active =>
             /\ tx_queue'.bytes[framer_slot_idx] = tx_queue.bytes[framer_slot_idx]
             /\ tx_queue'.meta[framer_slot_idx] = tx_queue.meta[framer_slot_idx]
             /\ ~tx_queue'.valid[framer_slot_idx]
                  => framer.state = "TX_IFG" /\ framer.ifg_count = IFG_NIBBLES - 1
<1>1. ASSUME TxTypeOK, FramerOwnsReadSlot, Next PROVE Held
  <2>1. SUFFICES ASSUME framer_active PROVE Held
    OBVIOUS
  <2>2. /\ tx_queue \in TxQueueType /\ TQ!RingShape(tx_queue)
        /\ framer_slot_idx \in TQ!Slot /\ tx_queue.valid[framer_slot_idx]
    BY <1>1, <2>1 DEF TxTypeOK, FramerOwnsReadSlot
  <2>3. CASE ethernet_tx_queue_step
    <3>1. CASE tx_queue' = tx_queue
      BY <2>2, <3>1
    <3>2. CASE /\ tx_queue' = TQ!packet_queue_consume_read_slot(tx_queue)
               /\ framer.state = "TX_IFG" /\ framer.ifg_count = IFG_NIBBLES - 1
      BY <2>2, <3>2 DEF TQ!packet_queue_consume_read_slot, TxQueueType, TQ!QueueType
    <3>3. QED BY <1>1, <2>1, <2>3, <3>1, <3>2, FramerProgress
  <2>4. CASE \/ \E i \in BodyIndex, byte \in Byte : FillByte(i, byte)
             \/ \E len \in BodyLen : PublishPacket(len)
             \/ DropPacket
    BY <1>1, <2>2, <2>4, ProducerKeepsPublished
  <2>5. QED BY <1>1, <2>3, <2>4 DEF Next
<1>2. TxTypeOK /\ FramerOwnsReadSlot /\ [Next]_txVars => [Held]_txVars
  BY <1>1
<1>3. QED BY <1>2, TxTypeCorrect, TxRingSafe, PTL DEF Spec, SlotHeldUntilGapEnds

----------------------------------------------------------------------------
(* The wire: what a host sees of the frames' boundaries.                   *)

FramerFields ==
  {"state", "nibble_phase", "byte_index", "fcs_index", "ifg_count", "crc", "fcs",
   "len", "frame_body_len", "frame"}

FramerStates == {"TX_IDLE", "TX_PREAMBLE", "TX_DATA", "TX_FCS", "TX_IFG"}

HostFields == {"nibbles", "gap", "odd", "received"}

\* What the framer and the host remember of the same frame.  The frame bit
\* flips with the last nibble, one cycle before the host sees the end; the
\* host's gap counter follows the framer's.
HostInv ==
  /\ DOMAIN framer = FramerFields /\ framer.state \in FramerStates
  /\ framer.frame \in BOOLEAN
  /\ DOMAIN host = HostFields /\ host.odd \in BOOLEAN
  /\ pins.en \in {0, 1}
  /\ host.nibbles = << >> <=> pins.en = 0
  /\ pins.en = 0 => pins.toggle = framer.frame
  /\ framer.frame = IF framer.state = "TX_IFG" /\ pins.en = 1 THEN ~host.odd ELSE host.odd
  /\ framer.state \in {"TX_DATA", "TX_FCS"} => pins.en = 1
  /\ framer.state = "TX_IDLE" => pins.en = 0 /\ host.gap = IFG_NIBBLES
  /\ framer.state = "TX_PREAMBLE" /\ pins.en = 0 => host.gap = IFG_NIBBLES
  /\ framer.state = "TX_IFG" =>
       /\ framer.ifg_count \in 0 .. IFG_NIBBLES - 1
       /\ host.gap = framer.ifg_count
       /\ pins.en = 1 <=> framer.ifg_count = 0

\* What the host makes of one cycle's pins.
LEMMA HostSamples ==
  ASSUME HostInv, Clock
  PROVE  /\ DOMAIN host' = HostFields
         /\ pins'.en = 1 => host'.nibbles # << >> /\ host'.gap = 0 /\ host'.odd = host.odd
         /\ pins'.en = 0 =>
              /\ host'.nibbles = << >>
              /\ host'.gap = IF host.gap = IFG_NIBBLES THEN host.gap ELSE host.gap + 1
              /\ host'.odd = IF pins.en = 1 THEN ~host.odd ELSE host.odd
  BY DEF Clock, HostInv, HostFields

\* One cycle of the framer keeps the two in step, one state at a time.
LEMMA FramerKeepsHostInv ==
  ASSUME HostInv, Clock
  PROVE  HostInv'
<1> USE TxSizesAssumption
<1>1. CASE IdleCycle
  <2>1. /\ DOMAIN framer' = FramerFields /\ framer'.frame = framer.frame
        /\ framer'.state \in {"TX_IDLE", "TX_PREAMBLE"}
        /\ pins'.en = 0 /\ pins'.toggle = framer.frame
        /\ framer.state = "TX_IDLE"
    BY <1>1 DEF IdleCycle, HostInv, FramerFields, Quiet
  <2>2. QED BY <2>1, HostSamples DEF HostInv, FramerStates
<1>2. CASE PreambleCycle
  <2>1. /\ DOMAIN framer' = FramerFields /\ framer'.frame = framer.frame
        /\ framer'.state \in {"TX_PREAMBLE", "TX_DATA"}
        /\ pins'.en = 1
        /\ framer.state = "TX_PREAMBLE"
    BY <1>2 DEF PreambleCycle, HostInv, FramerFields, Emit
  <2>2. QED BY <2>1, HostSamples DEF HostInv, FramerStates
<1>3. CASE DataCycle
  <2>1. /\ DOMAIN framer' = FramerFields /\ framer'.frame = framer.frame
        /\ framer'.state \in {"TX_DATA", "TX_FCS"}
        /\ pins'.en = 1
        /\ framer.state = "TX_DATA"
    BY <1>3 DEF DataCycle, HostInv, FramerFields, Emit
  <2>2. QED BY <2>1, HostSamples DEF HostInv, FramerStates
<1>4. CASE FcsCycle
  <2>1. /\ DOMAIN framer' = FramerFields
        /\ \/ framer'.state = "TX_FCS" /\ framer'.frame = framer.frame
           \/ /\ framer'.state = "TX_IFG" /\ framer'.frame = ~framer.frame
              /\ framer'.ifg_count = 0
        /\ pins'.en = 1
        /\ framer.state = "TX_FCS"
    BY <1>4 DEF FcsCycle, FrameSent, HostInv, FramerFields, Emit
  <2>2. framer.frame = host.odd /\ host.odd \in BOOLEAN /\ host'.odd = host.odd
    BY <2>1, HostSamples DEF HostInv
  <2>3. /\ framer'.frame \in BOOLEAN
        /\ framer'.frame = IF framer'.state = "TX_IFG" /\ pins'.en = 1 THEN ~host'.odd
                                                                      ELSE host'.odd
    BY <2>1, <2>2
  <2>4. framer'.state = "TX_IFG" => /\ framer'.ifg_count \in 0 .. IFG_NIBBLES - 1
                                    /\ host'.gap = framer'.ifg_count
                                    /\ framer'.ifg_count = 0
    BY <2>1, HostSamples
  <2>5. QED BY <2>1, <2>2, <2>3, <2>4, HostSamples DEF HostInv, FramerStates
<1>5. CASE GapCycle
  <2>1. /\ DOMAIN framer' = FramerFields /\ framer'.frame = framer.frame
        /\ \/ framer'.state = "TX_IDLE" /\ framer.ifg_count = IFG_NIBBLES - 1
           \/ /\ framer'.state = "TX_IFG" /\ framer.ifg_count # IFG_NIBBLES - 1
              /\ framer'.ifg_count = framer.ifg_count + 1
        /\ pins'.en = 0 /\ pins'.toggle = framer.frame
        /\ framer.state = "TX_IFG"
    BY <1>5 DEF GapCycle, HostInv, FramerFields, Quiet
  <2>2. /\ framer.ifg_count \in 0 .. IFG_NIBBLES - 1 /\ host.gap = framer.ifg_count
        /\ host'.gap = framer.ifg_count + 1
    BY <2>1, HostSamples DEF HostInv
  <2>3. QED BY <2>1, <2>2, HostSamples DEF HostInv, FramerStates
<1>6. QED
  BY <1>1, <1>2, <1>3, <1>4, <1>5 DEF Clock, ethernet_tx_queue_step

\* So do the producer's steps, which touch neither.
LEMMA HostInvHolds == WireSafety => []HostInv
<1>1. WireInit => HostInv
  BY TxSizesAssumption
  DEF WireInit, Init, HostInv, FramerFields, FramerStates, HostFields, Quiet
<1>2. HostInv /\ [WireNext]_wireVars => HostInv'
  <2> SUFFICES ASSUME HostInv, [WireNext]_wireVars PROVE HostInv'
    OBVIOUS
  <2>1. CASE Clock
    BY <2>1, FramerKeepsHostInv
  <2>2. CASE UNCHANGED << framer, pins, host >>
    BY <2>2 DEF HostInv
  <2>3. QED BY <2>1, <2>2 DEF WireNext, Publish, wireVars, txVars
<1>3. QED BY <1>1, <1>2, PTL DEF WireSafety

\* Between frames the toggle pin is the parity of the frames the host has
\* received in full (ethernet_framer.h:164-175).
THEOREM ToggleIsParity == WireSafety => []ToggleCountsFrames
<1>1. HostInv => ToggleCountsFrames
  BY DEF HostInv, ToggleCountsFrames
<1>2. QED BY <1>1, HostInvHolds, PTL

\* No two frames are closer than the inter-frame gap, also when packets wait
\* in the ring (ethernet_framer.h:177-188).
THEOREM GapHolds == WireSafety => GapIsKept
<1> DEFINE Kept == host.nibbles = << >> /\ host'.nibbles # << >> => host.gap = IFG_NIBBLES
<1>1. ASSUME HostInv, Clock, host.nibbles = << >>, host'.nibbles # << >>
      PROVE  host.gap = IFG_NIBBLES
  <2>1. pins.en = 0 /\ pins'.en = 1
    BY <1>1, HostSamples, FramerKeepsHostInv DEF HostInv
  <2>2. framer.state \in {"TX_PREAMBLE", "TX_DATA", "TX_FCS"}
    <3>1. ~IdleCycle /\ ~GapCycle
      BY <2>1 DEF IdleCycle, GapCycle, Quiet
    <3>2. PreambleCycle \/ DataCycle \/ FcsCycle
      BY <1>1, <3>1 DEF Clock, ethernet_tx_queue_step
    <3>3. QED BY <3>2 DEF PreambleCycle, DataCycle, FcsCycle
  <2>3. QED BY <1>1, <2>1, <2>2 DEF HostInv
<1>2. HostInv /\ [WireNext]_wireVars => [Kept]_wireVars
  BY <1>1 DEF WireNext, Publish, wireVars
<1> HIDE DEF Kept
<1>3. WireSafety => [][Kept]_wireVars
  BY <1>2, HostInvHolds, PTL DEF WireSafety
<1>4. QED BY <1>3 DEF Kept, GapIsKept

----------------------------------------------------------------------------
(* The ring with the wire's producer, and the ring as a queue.             *)

\* The slot as the producer of whole packets leaves it before it publishes.
Filled(body) ==
  [tx_queue EXCEPT !.bytes[tx_queue.write_idx] =
     [i \in BodyIndex |-> IF i < Len(body) THEN body[i + 1] ELSE @[i]]]

\* A packet is stored where nobody reads, then published.
LEMMA PublishPutsBehind ==
  ASSUME TxTypeOK, TQ!RingShape(tx_queue), NEW body \in Bodies, Publish(body)
  PROVE  /\ tx_queue' \in TxQueueType
         /\ TQ!RingShape(tx_queue')
         /\ ~tx_queue.valid[tx_queue.write_idx]
         /\ tx_queue'.valid = [tx_queue.valid EXCEPT ![tx_queue.write_idx] = TRUE]
         /\ tx_queue'.read_idx = tx_queue.read_idx
         /\ tx_queue'.write_idx = TQ!NextSlot(tx_queue.write_idx)
         /\ tx_queue'.meta[tx_queue.write_idx] = Len(body)
         /\ \A s \in TQ!Slot : s # tx_queue.write_idx =>
              /\ tx_queue'.meta[s] = tx_queue.meta[s]
              /\ tx_queue'.bytes[s] = tx_queue.bytes[s]
<1> DEFINE w == tx_queue.write_idx
           f == Filled(body)
<1>1. tx_queue \in TxQueueType /\ w \in TQ!Slot /\ ~tx_queue.valid[w]
  BY DEF TxTypeOK, TxQueueType, TQ!QueueType, Publish,
         TQ!packet_queue_write_slot_available
<1>2. body \in Seq(Byte) /\ Len(body) \in BodyLen
  BY WireBodiesAssumption
<1>3. [i \in BodyIndex |-> IF i < Len(body) THEN body[i + 1] ELSE tx_queue.bytes[w][i]]
        \in [BodyIndex -> Byte]
  <2>1. tx_queue.bytes[w] \in [BodyIndex -> Byte]
    BY <1>1 DEF TxQueueType, TQ!QueueType
  <2>2. ASSUME NEW i \in BodyIndex, i < Len(body) PROVE body[i + 1] \in Byte
    <3>1. i + 1 \in 1 .. Len(body)
      BY <1>2, <2>2 DEF BodyIndex
    <3>2. QED BY <1>2, <3>1
  <2>3. QED BY <2>1, <2>2
<1>4. /\ f \in TxQueueType
      /\ f.valid = tx_queue.valid /\ f.meta = tx_queue.meta
      /\ f.read_idx = tx_queue.read_idx /\ f.write_idx = w
      /\ \A s \in TQ!Slot : s # w => f.bytes[s] = tx_queue.bytes[s]
  BY <1>1, <1>3 DEF Filled, TxQueueType, TQ!QueueType
<1>5. tx_queue' = TQ!packet_queue_publish_write_slot(f, Len(body))
  BY DEF Publish, Filled
<1> HIDE DEF f
<1>6. TQ!RingShape(f)
  BY <1>4 DEF TQ!RingShape
<1>7. TQ!packet_queue_write_slot_available(f)
  BY <1>1, <1>4 DEF TQ!packet_queue_write_slot_available
<1>8. tx_queue' \in TxQueueType /\ TQ!RingShape(tx_queue')
  BY <1>2, <1>4, <1>5, <1>6, <1>7, RingOperations, RingShapes
<1>9. tx_queue' = [f EXCEPT !.meta[f.write_idx] = Len(body),
                            !.valid[f.write_idx] = TRUE,
                            !.write_idx = TQ!NextSlot(@)]
  BY <1>5, <1>7
     DEF TQ!packet_queue_publish_write_slot, TQ!packet_queue_write_slot_available
<1>10. /\ tx_queue'.valid = [f.valid EXCEPT ![w] = TRUE]
       /\ tx_queue'.meta = [f.meta EXCEPT ![w] = Len(body)]
       /\ tx_queue'.bytes = f.bytes /\ tx_queue'.read_idx = f.read_idx
       /\ tx_queue'.write_idx = TQ!NextSlot(w)
  BY <1>4, <1>9 DEF TxQueueType, TQ!QueueType
<1>11. /\ tx_queue'.meta[w] = Len(body)
       /\ \A s \in TQ!Slot : s # w => tx_queue'.meta[s] = tx_queue.meta[s]
  BY <1>1, <1>4, <1>10 DEF TxQueueType, TQ!QueueType
<1>12. QED BY <1>1, <1>4, <1>8, <1>10, <1>11

\* The transmit path is as safe with that producer as with any.
LEMMA WireSafe == WireSafety => [](TxTypeOK /\ FramerOwnsReadSlot)
<1>1. WireInit => TxTypeOK /\ FramerOwnsReadSlot
  BY TxTypeAtFirst, TxOwnerAtFirst DEF WireInit
<1>2. ASSUME TxTypeOK, FramerOwnsReadSlot, [WireNext]_wireVars
      PROVE  (TxTypeOK /\ FramerOwnsReadSlot)'
  <2>1. CASE Clock
    BY <1>2, <2>1, TxTypeStep, OwnerStep DEF Clock, Next
  <2>2. CASE UNCHANGED wireVars
    BY <1>2, <2>2, TxTypeStep, OwnerStep DEF wireVars
  <2>3. ASSUME NEW body \in Bodies, Publish(body)
        PROVE  (TxTypeOK /\ FramerOwnsReadSlot)'
    <3>1. UNCHANGED << framer_active, framer_slot_idx, framer >>
      BY <2>3 DEF Publish
    <3>2. /\ tx_queue' \in TxQueueType /\ TQ!RingShape(tx_queue')
          /\ ~tx_queue.valid[tx_queue.write_idx]
          /\ tx_queue'.valid = [tx_queue.valid EXCEPT ![tx_queue.write_idx] = TRUE]
          /\ tx_queue'.read_idx = tx_queue.read_idx
          /\ \A s \in TQ!Slot : s # tx_queue.write_idx =>
               tx_queue'.meta[s] = tx_queue.meta[s]
      BY <1>2, <2>3, PublishPutsBehind DEF FramerOwnsReadSlot
    <3>3. TxTypeOK'
      BY <1>2, <3>1, <3>2 DEF TxTypeOK
    <3>4. ASSUME framer_active
          PROVE  /\ tx_queue'.valid[framer_slot_idx]
                 /\ tx_queue'.meta[framer_slot_idx] = tx_queue.meta[framer_slot_idx]
      BY <1>2, <3>2, <3>4 DEF FramerOwnsReadSlot, TxTypeOK, TxQueueType, TQ!QueueType
    <3>5. QED BY <1>2, <3>1, <3>2, <3>3, <3>4 DEF FramerOwnsReadSlot
  <2>4. QED BY <1>2, <2>1, <2>2, <2>3 DEF WireNext
<1>3. QED BY <1>1, <1>2, PTL DEF WireSafety

\* What each slot's packet is taken for.
View(q) == [s \in TQ!Slot |-> SlotBody(q, s)]

\* The published bodies are the contents of the ring under that view.
LEMMA BodiesAreContents ==
  ASSUME NEW q \in TxQueueType, TQ!RingShape(q)
  PROVE  /\ TQ!Ring(q)
         /\ TQ!Contents(q, View(q)) =
              LET slots == TQ!PublishedSlots(q)
              IN  [k \in DOMAIN slots |-> SlotBody(q, slots[k])]
<1>1. TQ!Ring(q)
  BY DEF TQ!Ring, TxQueueType, TQ!QueueType
<1>2. \A k \in 1 .. TQ!Depth(q) : TQ!WrapSlot(q.read_idx + k - 1) \in TQ!Slot
  BY <1>1, TQ!PublishedAreValid, TxSizesAssumption
<1>3. QED BY <1>1, <1>2 DEF TQ!Contents, TQ!PublishedSlots, View

\* Publishing is an enqueue and freeing a dequeue; nothing else shows.
LEMMA WireStepIsFifoStep ==
  ASSUME TxTypeOK, FramerOwnsReadSlot, [WireNext]_wireVars,
         TxTypeOK', FramerOwnsReadSlot'
  PROVE  [Fifo!Next]_PublishedBodies
<1> USE TxSizesAssumption
<1>1. /\ tx_queue \in TxQueueType /\ TQ!RingShape(tx_queue)
      /\ tx_queue' \in TxQueueType /\ TQ!RingShape(tx_queue')
  BY DEF TxTypeOK, FramerOwnsReadSlot
<1>2. TQ!Ring(tx_queue) /\ TQ!Ring(tx_queue')
  BY <1>1, BodiesAreContents
<1>3. /\ PublishedBodies = TQ!Contents(tx_queue, View(tx_queue))
      /\ PublishedBodies' = TQ!Contents(tx_queue', View(tx_queue'))
  BY <1>1, BodiesAreContents DEF PublishedBodies
<1>4. CASE tx_queue' = tx_queue
  BY <1>3, <1>4
<1> DEFINE before == View(tx_queue)
           after  == View(tx_queue')
           d      == tx_queue'
<1>5. ASSUME NEW body \in Bodies, Publish(body)
      PROVE  Fifo!Enqueue
  <2>1. /\ ~tx_queue.valid[tx_queue.write_idx]
        /\ d.valid = [tx_queue.valid EXCEPT ![tx_queue.write_idx] = TRUE]
        /\ d.read_idx = tx_queue.read_idx
        /\ d.write_idx = TQ!NextSlot(tx_queue.write_idx)
        /\ \A s \in TQ!Slot : s # tx_queue.write_idx =>
             d.meta[s] = tx_queue.meta[s] /\ d.bytes[s] = tx_queue.bytes[s]
    BY <1>1, <1>5, PublishPutsBehind
  <2>2. \A s \in TQ!Slot : tx_queue.valid[s] => after[s] = before[s]
    BY <2>1 DEF View, SlotBody
  <2>3. /\ d.valid = [tx_queue.valid EXCEPT ![tx_queue.write_idx] = TRUE]
        /\ d.read_idx = tx_queue.read_idx
        /\ d.write_idx = TQ!NextSlot(tx_queue.write_idx)
    BY <2>1
  <2>4. TQ!packet_queue_write_slot_available(tx_queue)
    BY <2>1 DEF TQ!packet_queue_write_slot_available
  <2>5. TQ!Ring(d)
    BY <1>2
  <2> HIDE DEF before, after, d
  <2>6. TQ!Enqueued(TQ!Contents(tx_queue, before), TQ!Contents(d, after))
    BY ONLY <1>2, <2>2, <2>3, <2>4, <2>5, TxSizesAssumption, TQ!PublishAppends
  <2>7. QED BY <1>3, <2>6 DEF before, after, d, Fifo!Enqueue, TQ!Enqueued
<1>6. ASSUME TQ!packet_queue_read_slot_valid(tx_queue),
             d = TQ!packet_queue_consume_read_slot(tx_queue)
      PROVE  Fifo!Dequeue
  <2>1. /\ d.valid = [tx_queue.valid EXCEPT ![tx_queue.read_idx] = FALSE]
        /\ d.meta = tx_queue.meta /\ d.bytes = tx_queue.bytes
        /\ d.read_idx = TQ!NextSlot(tx_queue.read_idx)
        /\ d.write_idx = tx_queue.write_idx
    BY <1>2, <1>6, TQ!ConsumeKeepsRing
  <2>2. \A s \in TQ!Slot : d.valid[s] => after[s] = before[s]
    BY <2>1 DEF View, SlotBody
  <2>3. /\ d.valid = [tx_queue.valid EXCEPT ![tx_queue.read_idx] = FALSE]
        /\ d.read_idx = TQ!NextSlot(tx_queue.read_idx)
        /\ d.write_idx = tx_queue.write_idx
    BY <2>1
  <2>4. TQ!Ring(d)
    BY <1>2
  <2> HIDE DEF before, after, d
  <2>5. TQ!Dequeued(TQ!Contents(tx_queue, before), TQ!Contents(d, after))
    BY ONLY <1>2, <1>6, <2>2, <2>3, <2>4, TxSizesAssumption, TQ!ConsumeTakesFirst
  <2>6. QED BY <1>3, <2>5 DEF before, after, d, Fifo!Dequeue, TQ!Dequeued
<1>7. CASE Clock
  <2>1. \/ tx_queue' = tx_queue
        \/ /\ framer_active
           /\ tx_queue' = TQ!packet_queue_consume_read_slot(tx_queue)
    BY <1>7, FramerProgress DEF Clock
  <2>2. framer_active => TQ!packet_queue_read_slot_valid(tx_queue)
    BY DEF FramerOwnsReadSlot, TQ!packet_queue_read_slot_valid
  <2>3. QED BY <1>4, <1>6, <2>1, <2>2 DEF Fifo!Next
<1>8. CASE UNCHANGED wireVars
  BY <1>4, <1>8 DEF wireVars, txVars
<1>9. QED BY <1>5, <1>7, <1>8 DEF WireNext, Fifo!Next

\* The ring of packets to send implements the bounded queue of PacketFifo:
\* packets leave in the order they were published, none lost, doubled or
\* altered by what is published meanwhile.
THEOREM TxRingIsQueue == WireSafety => TxRingIsFifo
<1>1. WireInit => Fifo!Init
  <2> SUFFICES ASSUME WireInit PROVE PublishedBodies = << >>
    BY DEF Fifo!Init
  <2>1. 0 \in TQ!Slot
    BY TxSizesAssumption DEF TQ!Slot
  <2>2. TQ!Depth(tx_queue) = 0
    BY <2>1 DEF WireInit, Init, TQ!EmptyQueue, TQ!Depth
  <2>3. QED BY <2>2 DEF PublishedBodies, TQ!PublishedSlots
<1>2. TxTypeOK /\ FramerOwnsReadSlot /\ [WireNext]_wireVars
        /\ TxTypeOK' /\ FramerOwnsReadSlot' => [Fifo!Next]_PublishedBodies
  BY WireStepIsFifoStep
<1>3. QED BY <1>1, <1>2, WireSafe, PTL DEF WireSafety, TxRingIsFifo, Fifo!Spec

----------------------------------------------------------------------------
(* The host has the frame before the ring loses the packet.                *)

\* The read index moves at the end of the gap and at no other time.
LEMMA ReadIndexMoves ==
  ASSUME TxTypeOK, FramerOwnsReadSlot, [WireNext]_wireVars,
         tx_queue'.read_idx # tx_queue.read_idx
  PROVE  Clock /\ framer.state = "TX_IFG" /\ framer.ifg_count = IFG_NIBBLES - 1
<1>1. CASE Clock
  BY <1>1, FramerProgress DEF Clock
<1>2. ASSUME NEW body \in Bodies, Publish(body) PROVE FALSE
  BY <1>2, PublishPutsBehind DEF FramerOwnsReadSlot
<1>3. CASE UNCHANGED wireVars
  BY <1>3 DEF wireVars, txVars
<1>4. QED BY <1>1, <1>2, <1>3 DEF WireNext

\* From the second cycle of the gap on the host has the frame.
GapMeansReceived ==
  framer.state = "TX_IFG" /\ framer.ifg_count # 0 => host.received = TRUE

LEMMA GapMeansReceivedStep ==
  ASSUME TxTypeOK, FramerOwnsReadSlot, HostInv, GapMeansReceived, [WireNext]_wireVars
  PROVE  GapMeansReceived'
<1> USE TxSizesAssumption
<1>1. CASE Clock
  <2> SUFFICES ASSUME framer'.state = "TX_IFG", framer'.ifg_count # 0
               PROVE  host'.received = TRUE
    BY DEF GapMeansReceived
  <2>1. DOMAIN framer = FramerFields
    BY DEF HostInv
  <2>2. GapCycle /\ framer.ifg_count # IFG_NIBBLES - 1
    BY <1>1, <2>1 DEF Clock, ethernet_tx_queue_step, IdleCycle, PreambleCycle, DataCycle,
                      FcsCycle, FrameSent, GapCycle, FramerFields
  <2>3. pins'.en = 0 /\ framer.state = "TX_IFG"
    BY <2>2 DEF GapCycle, Quiet
  <2>4. tx_queue' = tx_queue
    BY <2>2, <2>3, FramerProgress DEF FramerOwnsReadSlot, ethernet_tx_queue_step
  <2>5. host'.received = ((host.received \/ (host.nibbles # << >> /\ pins'.en = 0))
                            /\ ~(tx_queue'.valid # tx_queue.valid))
    BY <1>1 DEF Clock
  <2>6. CASE framer.ifg_count = 0
    <3>1. host.nibbles # << >>
      BY <2>3, <2>6 DEF HostInv
    <3>2. QED BY <2>3, <2>4, <2>5, <3>1
  <2>7. CASE framer.ifg_count # 0
    <3>1. host.received = TRUE
      BY <2>3, <2>7 DEF GapMeansReceived
    <3>2. QED BY <2>4, <2>5, <3>1
  <2>8. QED BY <2>6, <2>7
<1>2. CASE UNCHANGED << framer, host >>
  BY <1>2 DEF GapMeansReceived
<1>3. QED BY <1>1, <1>2 DEF WireNext, Publish, wireVars, txVars

\* A packet is freed only after the host has all of its frame
\* (ethernet_tx_queue.h:40-46).
THEOREM FreedAfterReception == WireSafety => FreedOnlyWhenReceived
<1> DEFINE Freed == tx_queue'.read_idx # tx_queue.read_idx => host.received
<1>1. WireInit => GapMeansReceived
  BY DEF WireInit, Init, GapMeansReceived
<1>2. WireSafety => [](TxTypeOK /\ FramerOwnsReadSlot /\ HostInv /\ GapMeansReceived)
  BY <1>1, GapMeansReceivedStep, WireSafe, HostInvHolds, PTL DEF WireSafety
<1>3. TxTypeOK /\ FramerOwnsReadSlot /\ GapMeansReceived /\ [WireNext]_wireVars
        => [Freed]_wireVars
  BY ReadIndexMoves, WireGapAssumption, TxSizesAssumption DEF GapMeansReceived
<1> HIDE DEF Freed
<1>4. WireSafety => [][Freed]_wireVars
  BY <1>2, <1>3, PTL DEF WireSafety
<1>5. QED BY <1>4 DEF Freed, FreedOnlyWhenReceived

----------------------------------------------------------------------------
(* The register over any number of bytes, and the frame by its parts.      *)

\* Induction, for sets of numbers.
Less == { pair \in Nat \X Nat : pair[1] < pair[2] }

LEMMA LessIsWellFounded == IsWellFoundedOn(Less, Nat)
<1>1. OpToRel(<, Nat) = Less
  BY DEF OpToRel, Less
<1>2. IsWellFoundedOn(OpToRel(<, Nat), Nat)
  BY NatLessThanWellFounded
<1>3. QED BY <1>1, <1>2

LEMMA AllNumbers ==
  ASSUME NEW S, 0 \in S, \A n \in Nat : n \in S => n + 1 \in S
  PROVE  Nat \subseteq S
<1> DEFINE T == Nat \ S
<1> SUFFICES ASSUME T # {} PROVE FALSE
  OBVIOUS
<1>1. PICK m \in T : \A y \in T : ~(<< y, m >> \in Less)
  <2>1. T \subseteq Nat
    OBVIOUS
  <2> HIDE DEF T
  <2>2. QED BY <2>1, LessIsWellFounded, WFMin
<1>2. m \in Nat /\ m # 0
  OBVIOUS
<1>3. m - 1 \in Nat /\ << m - 1, m >> \in Less
  BY <1>2 DEF Less
<1>4. m - 1 \in S
  BY <1>1, <1>3
<1>5. (m - 1) + 1 = m
  BY <1>2
<1>6. QED BY <1>3, <1>4, <1>5

\* The reference computes with the operators the framer computes with.
LEMMA SameCrc ==
  /\ Format!CrcInit = CrcInit
  /\ \A crc, byte : Format!NextCrc(crc, byte) = crc32_next_byte(crc, byte)
  /\ \A word : Format!Complement(word) = Complement(word)
  /\ \A word, k : Format!WordByte(word, k) = WordByte(word, k)
<1>1. Format!CrcInit = CrcInit
  BY DEF Format!CrcInit, CrcInit
<1>2. ASSUME NEW crc, NEW byte
      PROVE  Format!NextCrc(crc, byte) = crc32_next_byte(crc, byte)
  <2>1. Format!NextCrc(crc, byte) = Format!crc32_next_byte(crc, byte)
    BY DEF Format!NextCrc
  <2>2. Format!BitsOf(byte) = BitsOf(byte)
    BY DEF Format!BitsOf, BitsOf
  <2>3. ASSUME NEW c, NEW bits, NEW i
        PROVE  Format!CrcBit(c, bits, i) = CrcBit(c, bits, i)
    <3>1. Format!CrcPolynomial = CrcPolynomial
      BY DEF Format!CrcPolynomial, CrcPolynomial
    <3>2. Format!ShiftRight(c) = ShiftRight(c)
      BY DEF Format!ShiftRight, ShiftRight
    <3>3. \A a, b : Format!Xor(a, b) = Xor(a, b)
      BY DEF Format!Xor, Xor
    <3>4. QED BY <3>1, <3>2, <3>3 DEF Format!CrcBit, CrcBit
  <2>4. QED BY <2>1, <2>2, <2>3 DEF Format!crc32_next_byte, crc32_next_byte
<1>3. ASSUME NEW word PROVE Format!Complement(word) = Complement(word)
  BY DEF Format!Complement, Complement
<1>4. ASSUME NEW word, NEW k PROVE Format!WordByte(word, k) = WordByte(word, k)
  BY DEF Format!WordByte, WordByte
<1>5. QED BY <1>1, <1>2, <1>3, <1>4

\* A function is the register after 0, 1, ..., n bytes.
IsRegister(crc, bytes, n) ==
  crc = [k \in 0 .. n |-> IF k = 0 THEN CrcInit
                                   ELSE Format!NextCrc(crc[k - 1], bytes[k])]

\* For any number of bytes there is such a function: one byte more extends it.
LEMMA RegisterExists ==
  ASSUME NEW bytes, NEW n \in Nat
  PROVE  \E crc : IsRegister(crc, bytes, n)
<1> DEFINE S == { k \in Nat : \E crc : IsRegister(crc, bytes, k) }
<1>1. 0 \in S
  <2> DEFINE crc == [k \in 0 .. 0 |-> CrcInit]
  <2>1. IsRegister(crc, bytes, 0)
    BY DEF IsRegister
  <2>2. QED BY <2>1
<1>2. ASSUME NEW k \in Nat, k \in S PROVE k + 1 \in S
  <2>1. PICK old : IsRegister(old, bytes, k)
    BY <1>2
  <2> DEFINE crc == [j \in 0 .. k + 1 |->
                       IF j <= k THEN old[j] ELSE Format!NextCrc(old[k], bytes[k + 1])]
             rhs == [j \in 0 .. k + 1 |->
                       IF j = 0 THEN CrcInit ELSE Format!NextCrc(crc[j - 1], bytes[j])]
  <2>2. ASSUME NEW j \in 0 .. k PROVE crc[j] = old[j]
    OBVIOUS
  <2>3. ASSUME NEW j \in 0 .. k + 1 PROVE crc[j] = rhs[j]
    <3>1. CASE j = 0
      <4>1. old[0] = CrcInit
        BY <2>1 DEF IsRegister
      <4>2. QED BY <2>2, <3>1, <4>1
    <3>2. CASE j \in 1 .. k
      <4>1. old[j] = Format!NextCrc(old[j - 1], bytes[j])
        BY <2>1, <3>2 DEF IsRegister
      <4>2. crc[j - 1] = old[j - 1] /\ crc[j] = old[j]
        BY <3>2, <2>2
      <4> HIDE DEF crc
      <4>3. QED BY <3>2, <4>1, <4>2
    <3>3. CASE j = k + 1
      <4>1. crc[j] = Format!NextCrc(old[k], bytes[k + 1]) /\ crc[j - 1] = old[k]
        BY <3>3, <2>2
      <4> HIDE DEF crc
      <4>2. QED BY <3>3, <4>1
    <3>4. QED BY <3>1, <3>2, <3>3
  <2>4. crc = rhs
    <3>1. \A j \in 0 .. k + 1 : crc[j] = rhs[j]
      BY <2>3
    <3>2. DOMAIN crc = 0 .. k + 1 /\ DOMAIN rhs = 0 .. k + 1
      OBVIOUS
    <3>3. crc = [j \in 0 .. k + 1 |-> crc[j]] /\ rhs = [j \in 0 .. k + 1 |-> rhs[j]]
      OBVIOUS
    <3> HIDE DEF crc, rhs
    <3>4. QED BY <3>1, <3>3
  <2>5. IsRegister(crc, bytes, k + 1)
    BY <2>4 DEF IsRegister
  <2>6. k + 1 \in Nat
    OBVIOUS
  <2> HIDE DEF crc
  <2>7. QED BY <2>5, <2>6
<1>3. \A k \in Nat : k \in S => k + 1 \in S
  BY <1>2
<1> HIDE DEF S
<1>4. Nat \subseteq S
  BY <1>1, <1>3, AllNumbers
<1>5. QED BY <1>4 DEF S

\* The register of a sequence of bytes takes one byte at a time.
LEMMA CrcSteps ==
  ASSUME NEW bytes, Len(bytes) \in Nat
  PROVE  /\ Format!CrcAfter(bytes)[0] = CrcInit
         /\ \A n \in 0 .. Len(bytes) - 1 :
              Format!CrcAfter(bytes)[n + 1] =
                crc32_next_byte(Format!CrcAfter(bytes)[n], bytes[n + 1])
<1> DEFINE crc == Format!CrcAfter(bytes)
<1>1. IsRegister(crc, bytes, Len(bytes))
  <2>1. crc = CHOOSE f : IsRegister(f, bytes, Len(bytes))
    BY SameCrc DEF IsRegister, Format!CrcAfter
  <2>2. \E f : IsRegister(f, bytes, Len(bytes))
    BY RegisterExists
  <2> HIDE DEF crc
  <2>3. QED BY <2>1, <2>2
<1> HIDE DEF crc
<1>2. crc[0] = CrcInit
  BY <1>1 DEF IsRegister
<1>3. ASSUME NEW n \in 0 .. Len(bytes) - 1
      PROVE  crc[n + 1] = crc32_next_byte(crc[n], bytes[n + 1])
  <2>1. n + 1 \in 0 .. Len(bytes) /\ n + 1 # 0 /\ (n + 1) - 1 = n
    OBVIOUS
  <2>2. crc[n + 1] = Format!NextCrc(crc[n], bytes[n + 1])
    BY <1>1, <2>1 DEF IsRegister
  <2>3. QED BY <2>2, SameCrc
<1>4. QED BY <1>2, <1>3 DEF crc

\* Two sequences in one.
LEMMA Joined ==
  ASSUME NEW T, NEW a \in Seq(T), NEW b \in Seq(T)
  PROVE  /\ a \o b \in Seq(T)
         /\ Len(a \o b) = Len(a) + Len(b)
         /\ \A i \in 1 .. Len(a) : (a \o b)[i] = a[i]
         /\ \A i \in 1 .. Len(b) : (a \o b)[Len(a) + i] = b[i]
<1>1. a \o b \in Seq(T) /\ Len(a \o b) = Len(a) + Len(b)
  OBVIOUS
<1>2. ASSUME NEW i \in 1 .. Len(a) PROVE (a \o b)[i] = a[i]
  OBVIOUS
<1>3. ASSUME NEW i \in 1 .. Len(b) PROVE (a \o b)[Len(a) + i] = b[i]
  <2>1. Len(a) \in Nat /\ Len(b) \in Nat /\ (Len(a) + i) - Len(a) = i
    OBVIOUS
  <2>2. QED BY <2>1
<1>4. QED BY <1>1, <1>2, <1>3

\* A body padded with zeros to the minimum.
LEMMA PaddedBody ==
  ASSUME NEW T, 0 \in T, NEW body \in Seq(T), Len(body) \in BodyLen
  PROVE  /\ Format!Pad(body) \in Seq(T)
         /\ Len(Format!Pad(body)) = PaddedLen(Len(body))
         /\ \A i \in 1 .. PaddedLen(Len(body)) :
              Format!Pad(body)[i] = IF i <= Len(body) THEN body[i] ELSE 0
<1> USE TxSizesAssumption DEF BodyLen
<1>1. CASE Len(body) < MIN_ETH_FRAME_BODY_BYTES
  <2> DEFINE missing == MIN_ETH_FRAME_BODY_BYTES - Len(body)
             zeros == [i \in 1 .. missing |-> 0]
  <2>1. missing \in Nat /\ missing > 0
    BY <1>1
  <2>2. zeros \in Seq(T) /\ Len(zeros) = missing /\ \A i \in 1 .. missing : zeros[i] = 0
    BY <2>1
  <2>3. Format!Pad(body) = body \o zeros /\ PaddedLen(Len(body)) = Len(body) + missing
    BY <1>1, <2>1 DEF Format!Pad, PaddedLen
  <2> HIDE DEF zeros, missing
  <2>4. /\ body \o zeros \in Seq(T)
        /\ Len(body \o zeros) = Len(body) + missing
        /\ \A i \in 1 .. Len(body) : (body \o zeros)[i] = body[i]
        /\ \A i \in 1 .. missing : (body \o zeros)[Len(body) + i] = zeros[i]
    BY <2>2, Joined
  <2>5. ASSUME NEW i \in 1 .. Len(body) + missing
        PROVE  (body \o zeros)[i] = IF i <= Len(body) THEN body[i] ELSE 0
    <3>1. Len(body) \in Nat
      OBVIOUS
    <3>2. CASE i <= Len(body)
      BY <2>4, <3>1, <3>2
    <3>3. CASE i > Len(body)
      <4>1. i - Len(body) \in 1 .. missing /\ Len(body) + (i - Len(body)) = i
        BY <2>1, <3>1, <3>3
      <4>2. (body \o zeros)[i] = 0
        BY <2>2, <2>4, <4>1
      <4>3. QED BY <3>1, <3>3, <4>2
    <3>4. i <= Len(body) \/ i > Len(body)
      BY <2>1, <3>1
    <3>5. QED BY <3>2, <3>3, <3>4
  <2>6. QED BY <2>3, <2>4, <2>5
<1>2. CASE ~(Len(body) < MIN_ETH_FRAME_BODY_BYTES)
  <2>1. Format!Pad(body) = body /\ PaddedLen(Len(body)) = Len(body)
    BY <1>2 DEF Format!Pad, PaddedLen
  <2>2. QED BY <2>1
<1>3. QED BY <1>1, <1>2

\* The frame by its parts: preamble, SFD, padded body, FCS.
LEMMA FrameParts ==
  ASSUME NEW body, Format!Pad(body) \in Seq(Byte)
  PROVE  LET frame == Format!WireFrame(body)
             padded == Format!Pad(body)
             n == Len(padded)
         IN  /\ Len(frame) = SfdIndex + 1 + n + 4
             /\ \A i \in 0 .. SfdIndex : frame[i + 1] = PreambleByte(i)
             /\ \A i \in 0 .. n - 1 : frame[SfdIndex + 1 + i + 1] = padded[i + 1]
             /\ \A k \in 0 .. 3 :
                  frame[SfdIndex + 1 + n + k + 1] =
                    WordByte(Complement(Format!CrcAfter(padded)[n]), k)
<1> USE TxSizesAssumption
<1> DEFINE P == Format!Pad(body)
           n == Len(P)
           fcs == Format!FcsOf(P)
           T == Byte \union { fcs[k] : k \in 1 .. 4 }
           pre == [i \in 1 .. SfdIndex |-> 85]
           a == pre \o << 213 >>
           b == a \o P
<1>1. n \in Nat /\ SfdIndex \in Nat
  OBVIOUS
<1>2. fcs = [k \in 1 .. 4 |-> WordByte(Complement(Format!CrcAfter(P)[n]), k - 1)]
  BY SameCrc DEF Format!FcsOf
<1>3. 85 \in T /\ 213 \in T /\ P \in Seq(T)
  BY DEF Byte
<1>4. DOMAIN fcs = 1 .. 4 /\ \A k \in 1 .. 4 : fcs[k] \in T
  BY <1>2
<1>5. fcs = [k \in 1 .. 4 |-> fcs[k]]
  BY <1>2
<1>6. Format!WireFrame(body) = b \o fcs
  BY DEF Format!WireFrame
<1>7. Len(P) = n
  OBVIOUS
<1> HIDE DEF T, P, n
<1>8. fcs \in Seq(T) /\ Len(fcs) = 4
  <2> HIDE DEF fcs
  <2>1. [k \in 1 .. 4 |-> fcs[k]] \in Seq(T)
    BY <1>4
  <2>2. QED BY <1>4, <1>5, <2>1
<1>9. pre \in Seq(T) /\ Len(pre) = SfdIndex /\ \A i \in 1 .. SfdIndex : pre[i] = 85
  BY <1>1, <1>3
<1>10. << 213 >> \in Seq(T) /\ Len(<< 213 >>) = 1 /\ << 213 >>[1] = 213
  BY <1>3
<1>14. ASSUME NEW k \in 0 .. 3
       PROVE  fcs[k + 1] = WordByte(Complement(Format!CrcAfter(P)[n]), k)
  <2>1. k + 1 \in 1 .. 4 /\ (k + 1) - 1 = k
    OBVIOUS
  <2> HIDE DEF fcs
  <2>2. QED BY <1>2, <2>1
<1> HIDE DEF pre, fcs
<1>11. /\ a \in Seq(T) /\ Len(a) = SfdIndex + 1
       /\ \A i \in 1 .. SfdIndex : a[i] = 85
       /\ a[SfdIndex + 1] = 213
  BY <1>1, <1>9, <1>10
<1> HIDE DEF a
<1>12. /\ b \in Seq(T) /\ Len(b) = SfdIndex + 1 + n
       /\ \A i \in 1 .. SfdIndex + 1 : b[i] = a[i]
       /\ \A i \in 1 .. n : b[SfdIndex + 1 + i] = P[i]
  BY <1>1, <1>3, <1>7, <1>11
<1> HIDE DEF b
<1>13. /\ Len(b \o fcs) = SfdIndex + 1 + n + 4
       /\ \A i \in 1 .. SfdIndex + 1 + n : (b \o fcs)[i] = b[i]
       /\ \A k \in 1 .. 4 : (b \o fcs)[SfdIndex + 1 + n + k] = fcs[k]
  <2>1. /\ Len(b \o fcs) = Len(b) + Len(fcs)
        /\ \A i \in 1 .. Len(b) : (b \o fcs)[i] = b[i]
        /\ \A i \in 1 .. Len(fcs) : (b \o fcs)[Len(b) + i] = fcs[i]
    <3>1. b \in Seq(T)
      BY <1>12
    <3>2. fcs \in Seq(T)
      BY <1>8
    <3>3. Len(b \o fcs) = Len(b) + Len(fcs)
      BY <3>1, <3>2, Joined
    <3>4. \A i \in 1 .. Len(b) : (b \o fcs)[i] = b[i]
      BY <3>1, <3>2, Joined
    <3>5. \A i \in 1 .. Len(fcs) : (b \o fcs)[Len(b) + i] = fcs[i]
      BY <3>1, <3>2, Joined
    <3>6. QED BY <3>3, <3>4, <3>5
  <2>2. QED BY <1>8, <1>12, <2>1
<1>15. ASSUME NEW i \in 0 .. SfdIndex
       PROVE  Format!WireFrame(body)[i + 1] = PreambleByte(i)
  <2>1. i + 1 \in 1 .. SfdIndex + 1 /\ i + 1 \in 1 .. SfdIndex + 1 + n
    BY <1>1
  <2>2. Format!WireFrame(body)[i + 1] = a[i + 1]
    BY <1>6, <1>12, <1>13, <2>1
  <2>3. QED BY <1>1, <1>11, <2>1, <2>2 DEF PreambleByte
<1>16. ASSUME NEW i \in 0 .. n - 1
       PROVE  Format!WireFrame(body)[SfdIndex + 1 + i + 1] = P[i + 1]
  <2>1. i + 1 \in 1 .. n /\ SfdIndex + 1 + (i + 1) \in 1 .. SfdIndex + 1 + n
    BY <1>1
  <2>2. SfdIndex + 1 + i + 1 = SfdIndex + 1 + (i + 1)
    BY <1>1
  <2>3. QED BY <1>6, <1>12, <1>13, <2>1, <2>2
<1>17. ASSUME NEW k \in 0 .. 3
       PROVE  Format!WireFrame(body)[SfdIndex + 1 + n + k + 1] =
                WordByte(Complement(Format!CrcAfter(P)[n]), k)
  <2>1. k + 1 \in 1 .. 4 /\ SfdIndex + 1 + n + k + 1 = SfdIndex + 1 + n + (k + 1)
    BY <1>1
  <2>2. QED BY <1>6, <1>13, <1>14, <2>1
<1>18. Len(Format!WireFrame(body)) = SfdIndex + 1 + n + 4
  BY <1>6, <1>13
<1>19. QED BY <1>15, <1>16, <1>17, <1>18 DEF P, n

\* The low nibble of a byte comes first.
LEMMA NibbleAt ==
  ASSUME NEW bytes, Len(bytes) \in Nat, NEW p \in Nat, p < Len(bytes)
  PROVE  /\ Format!NibblesOf(bytes)[2 * p + 1] = bytes[p + 1] % 16
         /\ Format!NibblesOf(bytes)[2 * p + 2] = bytes[p + 1] \div 16
<1>1. 2 * p + 1 \in 1 .. 2 * Len(bytes) /\ 2 * p + 2 \in 1 .. 2 * Len(bytes)
  OBVIOUS
<1>2. (2 * p + 1 + 1) \div 2 = p + 1 /\ (2 * p + 2 + 1) \div 2 = p + 1
  OBVIOUS
<1>3. (2 * p + 1) % 2 = 1 /\ (2 * p + 2) % 2 = 0
  OBVIOUS
<1>4. QED BY <1>1, <1>2, <1>3 DEF Format!NibblesOf

----------------------------------------------------------------------------
(* What the framer has sent of its packet. *)

SendingStates == {"TX_PREAMBLE", "TX_DATA", "TX_FCS"}

HeadBody == SlotBody(tx_queue, framer_slot_idx)

HeadFrame == Format!WireFrame(HeadBody)

BytesSent ==
  CASE framer.state = "TX_PREAMBLE" -> framer.byte_index
    [] framer.state = "TX_DATA" -> SfdIndex + 1 + framer.byte_index
    [] framer.state = "TX_FCS" -> SfdIndex + 1 + framer.frame_body_len + framer.fcs_index

NibblesSent == 2 * BytesSent + IF framer.nibble_phase THEN 1 ELSE 0

\* A packet fits in its slot, and the CRC register covers the bytes sent.
PacketsFit ==
  \A s \in TQ!Slot : tx_queue.valid[s] => tx_queue.meta[s] <= TX_FRAME_BODY_BYTES

CrcCoversSent ==
  LET register == Format!CrcAfter(Format!Pad(HeadBody))
  IN  /\ framer.state = "TX_PREAMBLE" => framer.crc = CrcInit
      /\ framer.state = "TX_DATA" => framer.crc = register[framer.byte_index]
      /\ framer.state = "TX_FCS" =>
           framer.fcs = Complement(register[framer.frame_body_len])

\* The body under way and its frame.
LEMMA HeadParts ==
  ASSUME TxTypeOK, FramerOwnsReadSlot, PacketsFit, framer_active
  PROVE  /\ Format!Pad(HeadBody) \in Seq(Byte)
         /\ Len(Format!Pad(HeadBody)) = framer.frame_body_len
         /\ framer.frame_body_len \in BodyLen /\ framer.frame_body_len >= 1
         /\ \A i \in 0 .. framer.frame_body_len - 1 :
              Format!Pad(HeadBody)[i + 1] =
                tx_frame_body_byte(tx_queue.bytes[framer_slot_idx], i, framer.len)
<1> USE TxSizesAssumption
<1> DEFINE s == framer_slot_idx
           len == tx_queue.meta[s]
<1>1. /\ s \in TQ!Slot /\ tx_queue.bytes[s] \in [BodyIndex -> Byte]
      /\ len \in BodyLen /\ len <= TX_FRAME_BODY_BYTES
      /\ framer.len = len /\ framer.frame_body_len = PaddedLen(len)
  BY DEF TxTypeOK, TxQueueType, TQ!QueueType, FramerOwnsReadSlot, PacketsFit
<1>2. len \in Nat
  BY <1>1 DEF BodyLen
<1>3. ASSUME NEW i \in 1 .. len PROVE tx_queue.bytes[s][i - 1] \in Byte
  <2>1. i - 1 \in BodyIndex
    BY <1>1, <1>2 DEF BodyIndex
  <2>2. QED BY <1>1, <2>1
<1>4. /\ HeadBody \in Seq(Byte) /\ Len(HeadBody) = len
      /\ \A i \in 1 .. len : HeadBody[i] = tx_queue.bytes[s][i - 1]
  BY <1>2, <1>3 DEF HeadBody, SlotBody
<1>5. 0 \in Byte /\ PaddedLen(len) \in BodyLen /\ PaddedLen(len) >= 1
  BY <1>1 DEF Byte, BodyLen, PaddedLen
<1> HIDE DEF len
<1>6. /\ Format!Pad(HeadBody) \in Seq(Byte)
      /\ Len(Format!Pad(HeadBody)) = PaddedLen(len)
      /\ \A i \in 1 .. PaddedLen(len) :
           Format!Pad(HeadBody)[i] = IF i <= len THEN HeadBody[i] ELSE 0
  BY <1>1, <1>4, <1>5, PaddedBody
<1>7. ASSUME NEW i \in 0 .. PaddedLen(len) - 1
      PROVE  Format!Pad(HeadBody)[i + 1] =
               tx_frame_body_byte(tx_queue.bytes[s], i, len)
  <2>1. i + 1 \in 1 .. PaddedLen(len) /\ (i + 1) - 1 = i
    BY <1>5 DEF BodyLen
  <2>2. Format!Pad(HeadBody)[i + 1] = IF i + 1 <= len THEN HeadBody[i + 1] ELSE 0
    BY <1>6, <2>1
  <2>3. CASE i < len
    <3>1. i + 1 \in 1 .. len /\ i < TX_FRAME_BODY_BYTES
      BY <1>1, <1>2, <2>3
    <3>2. HeadBody[i + 1] = tx_queue.bytes[s][i]
      BY <1>4, <2>1, <3>1
    <3>3. QED BY <1>2, <2>2, <2>3, <3>1, <3>2 DEF tx_frame_body_byte
  <2>4. CASE ~(i < len)
    BY <1>2, <2>2, <2>4 DEF tx_frame_body_byte
  <2>5. QED BY <2>3, <2>4
<1>8. QED BY <1>1, <1>5, <1>6, <1>7

\* The frame is a matter of the body alone.
LEMMA HeadFrameKept ==
  ASSUME HeadBody' = HeadBody
  PROVE  HeadFrame' = HeadFrame
BY DEF HeadFrame

\* A cycle that sends the low nibble changes nothing but the phase; one that
\* sends the high nibble goes on to the next byte.
LEMMA SendingCycle ==
  ASSUME TxTypeOK, FramerOwnsReadSlot, ethernet_tx_queue_step,
         framer.state \in SendingStates
  PROVE  /\ framer_active /\ framer_active'
         /\ tx_queue' = tx_queue /\ framer_slot_idx' = framer_slot_idx
         /\ framer'.frame_body_len = framer.frame_body_len
         /\ framer'.nibble_phase = ~framer.nibble_phase
         /\ ~framer.nibble_phase =>
              /\ framer'.state = framer.state
              /\ framer'.byte_index = framer.byte_index
              /\ framer'.fcs_index = framer.fcs_index
              /\ framer'.crc = framer.crc /\ framer'.fcs = framer.fcs
<1>1. framer \in FramerType /\ framer_active
  BY DEF TxTypeOK, FramerOwnsReadSlot, SendingStates
<1>2. /\ framer_active' /\ tx_queue' = tx_queue
      /\ framer_slot_idx' = framer_slot_idx
      /\ framer'.frame_body_len = framer.frame_body_len
  BY <1>1, FramerProgress DEF SendingStates
<1> DEFINE turned == [framer EXCEPT !.nibble_phase = ~@]
<1>3. /\ framer'.nibble_phase = ~framer.nibble_phase
      /\ ~framer.nibble_phase => framer' = turned
  <2>1. CASE PreambleCycle
    BY <1>1, <2>1 DEF PreambleCycle, FramerType
  <2>2. CASE DataCycle
    BY <1>1, <2>2 DEF DataCycle, FramerType
  <2>3. CASE FcsCycle
    BY <1>1, <2>3 DEF FcsCycle, FrameSent, FramerType
  <2>4. ~IdleCycle /\ ~GapCycle
    BY DEF IdleCycle, GapCycle, SendingStates
  <2>5. QED BY <2>1, <2>2, <2>3, <2>4 DEF ethernet_tx_queue_step
<1>4. /\ turned.state = framer.state /\ turned.byte_index = framer.byte_index
      /\ turned.fcs_index = framer.fcs_index
      /\ turned.crc = framer.crc /\ turned.fcs = framer.fcs
  BY <1>1 DEF FramerType
<1> HIDE DEF turned
<1>5. QED BY <1>1, <1>2, <1>3, <1>4

\* The byte the framer is at is the one the frame has there.
LEMMA EmitsFrameByte ==
  ASSUME TxTypeOK, FramerOwnsReadSlot, PacketsFit, CrcCoversSent,
         ethernet_tx_queue_step, framer.state \in SendingStates
  PROVE  /\ BytesSent \in Nat /\ BytesSent < Len(HeadFrame)
         /\ Len(HeadFrame) = SfdIndex + 1 + framer.frame_body_len + 4
         /\ pins'.en = 1
         /\ pins'.d = IF framer.nibble_phase THEN HeadFrame[BytesSent + 1] \div 16
                                             ELSE HeadFrame[BytesSent + 1] % 16
<1> USE TxSizesAssumption
<1> DEFINE n == framer.frame_body_len
           W == HeadFrame
           P == Format!Pad(HeadBody)
           at == BytesSent
<1>1. framer \in FramerType /\ framer_active /\ ~StartRequest
  BY DEF TxTypeOK, FramerOwnsReadSlot, SendingStates, StartRequest
<1>2. /\ P \in Seq(Byte) /\ Len(P) = n /\ n \in Nat /\ n >= 1
      /\ \A i \in 0 .. n - 1 :
           P[i + 1] = tx_frame_body_byte(tx_queue.bytes[framer_slot_idx], i, framer.len)
  BY <1>1, HeadParts DEF BodyLen
<1>3. /\ Len(W) = SfdIndex + 1 + n + 4
      /\ \A i \in 0 .. SfdIndex : W[i + 1] = PreambleByte(i)
      /\ \A i \in 0 .. n - 1 : W[SfdIndex + 1 + i + 1] = P[i + 1]
      /\ \A k \in 0 .. 3 : W[SfdIndex + 1 + n + k + 1] =
                             WordByte(Complement(Format!CrcAfter(P)[n]), k)
  <2>1. Format!Pad(HeadBody) \in Seq(Byte) /\ Len(Format!Pad(HeadBody)) = n
    BY <1>2
  <2> HIDE DEF n
  <2>2. QED BY <2>1, FrameParts DEF HeadFrame
<1> HIDE DEF W, P, n, at
<1>7. Len(W) \in Nat /\ SfdIndex \in Nat
  BY <1>2, <1>3
<1> DEFINE Emits(byte) ==
             /\ pins'.en = 1
             /\ pins'.d = IF framer.nibble_phase THEN byte \div 16 ELSE byte % 16
<1>4. CASE framer.state = "TX_PREAMBLE"
  <2>1. PreambleCycle
    BY <1>4 DEF ethernet_tx_queue_step, IdleCycle, DataCycle, FcsCycle, GapCycle
  <2>2. Emits(PreambleByte(framer.byte_index))
    BY <2>1 DEF PreambleCycle, Emit
  <2>3. at = framer.byte_index /\ at \in 0 .. SfdIndex
    BY <1>1, <1>4 DEF TxTypeOK, FramerType, BodyLen, BytesSent, at
  <2>4. W[at + 1] = PreambleByte(framer.byte_index)
    BY <1>3, <2>3
  <2>5. at \in Nat /\ at < Len(W)
    BY <1>2, <1>3, <1>7, <2>3
  <2>6. QED BY <1>3, <2>2, <2>4, <2>5 DEF W, n, at
<1>5. CASE framer.state = "TX_DATA"
  <2> DEFINE byte == tx_frame_body_byte(tx_queue.bytes[framer_slot_idx],
                                        framer.byte_index, framer.len)
  <2>1. DataCycle
    BY <1>5 DEF ethernet_tx_queue_step, IdleCycle, PreambleCycle, FcsCycle, GapCycle
  <2>2. Emits(byte)
    BY <1>1, <2>1 DEF DataCycle, Emit, CurrentSlot
  <2>3. at = SfdIndex + 1 + framer.byte_index /\ framer.byte_index \in 0 .. n - 1
    BY <1>1, <1>5 DEF TxTypeOK, FramerType, BodyLen, BytesSent, n, at
  <2>4. W[at + 1] = byte
    BY <1>2, <1>3, <2>3
  <2> HIDE DEF byte
  <2>5. at \in Nat /\ at < Len(W)
    BY <1>2, <1>3, <1>7, <2>3
  <2>6. QED BY <1>3, <2>2, <2>4, <2>5 DEF W, n, at
<1>6. CASE framer.state = "TX_FCS"
  <2>1. FcsCycle
    BY <1>6 DEF ethernet_tx_queue_step, IdleCycle, PreambleCycle, DataCycle, GapCycle
  <2>2. Emits(WordByte(framer.fcs, framer.fcs_index))
    BY <2>1 DEF FcsCycle, Emit
  <2>3. at = SfdIndex + 1 + n + framer.fcs_index /\ framer.fcs_index \in 0 .. 3
    BY <1>1, <1>6 DEF TxTypeOK, FramerType, BytesSent, n, at
  <2>4. framer.fcs = Complement(Format!CrcAfter(P)[n])
    BY <1>6 DEF CrcCoversSent, P, n
  <2>5. W[at + 1] = WordByte(framer.fcs, framer.fcs_index)
    BY <1>2, <1>3, <2>3, <2>4
  <2>6. at \in Nat /\ at < Len(W)
    BY <1>2, <1>3, <1>7, <2>3
  <2>7. QED BY <1>3, <2>2, <2>5, <2>6 DEF W, n, at
<1>8. QED BY <1>4, <1>5, <1>6 DEF SendingStates

\* A sending cycle moves on by one nibble, and the CRC with it.
LEMMA SentGrows ==
  ASSUME TxTypeOK, FramerOwnsReadSlot, PacketsFit, CrcCoversSent,
         ethernet_tx_queue_step, framer.state \in SendingStates
  PROVE  /\ HeadBody' = HeadBody
         /\ CrcCoversSent'
         /\ framer'.nibble_phase = ~framer.nibble_phase
         /\ ~framer.nibble_phase =>
              framer'.state \in SendingStates /\ BytesSent' = BytesSent
         /\ framer.nibble_phase =>
              \/ framer'.state \in SendingStates /\ BytesSent' = BytesSent + 1
              \/ /\ framer'.state = "TX_IFG" /\ framer'.ifg_count = 0
                 /\ BytesSent + 1 = Len(HeadFrame)
<1> USE TxSizesAssumption
<1> DEFINE n == framer.frame_body_len
           P == Format!Pad(HeadBody)
           register == Format!CrcAfter(P)
<1>1. framer \in FramerType /\ framer_active /\ ~StartRequest
  BY DEF TxTypeOK, FramerOwnsReadSlot, SendingStates, StartRequest
<1>2. /\ tx_queue' = tx_queue /\ framer_slot_idx' = framer_slot_idx
      /\ framer'.frame_body_len = n
      /\ framer'.nibble_phase = ~framer.nibble_phase
      /\ ~framer.nibble_phase =>
           /\ framer'.state = framer.state
           /\ framer'.byte_index = framer.byte_index
           /\ framer'.fcs_index = framer.fcs_index
           /\ framer'.crc = framer.crc /\ framer'.fcs = framer.fcs
  BY SendingCycle
<1>3. HeadBody' = HeadBody
  BY <1>2 DEF HeadBody, SlotBody
<1>4. register' = register
  BY <1>3
<1>5. /\ Len(HeadFrame) = SfdIndex + 1 + n + 4
      /\ n \in Nat /\ n >= 1 /\ Len(P) = n
      /\ \A i \in 0 .. n - 1 :
           P[i + 1] = tx_frame_body_byte(tx_queue.bytes[framer_slot_idx], i, framer.len)
  BY <1>1, HeadParts, EmitsFrameByte DEF BodyLen
<1>6. /\ register[0] = CrcInit
      /\ \A i \in 0 .. n - 1 : register[i + 1] = crc32_next_byte(register[i], P[i + 1])
  BY <1>5, CrcSteps
<1>7. CASE ~framer.nibble_phase
  <2>1. CrcCoversSent'
    BY <1>2, <1>4, <1>7 DEF CrcCoversSent
  <2>2. framer'.state \in SendingStates /\ BytesSent' = BytesSent
    BY <1>2, <1>7 DEF BytesSent
  <2>3. QED BY <1>2, <1>3, <1>7, <2>1, <2>2
<1>8. CASE framer.nibble_phase /\ framer.state = "TX_PREAMBLE"
  <2>1. PreambleCycle
    BY <1>8 DEF ethernet_tx_queue_step, IdleCycle, DataCycle, FcsCycle, GapCycle
  <2>2. /\ framer.byte_index \in Nat
        /\ framer'.crc = framer.crc
        /\ \/ /\ framer.byte_index = SfdIndex
              /\ framer'.state = "TX_DATA" /\ framer'.byte_index = 0
           \/ /\ framer'.state = "TX_PREAMBLE"
              /\ framer'.byte_index = framer.byte_index + 1
    BY <1>1, <1>8, <2>1 DEF PreambleCycle, FramerType, BodyLen
  <2>3. CrcCoversSent'
    BY <1>4, <1>6, <1>8, <2>2 DEF CrcCoversSent
  <2>4. BytesSent' = BytesSent + 1 /\ framer'.state \in SendingStates
    BY <1>8, <2>2 DEF BytesSent, SendingStates
  <2>5. QED BY <1>2, <1>3, <1>8, <2>3, <2>4
<1>9. CASE framer.nibble_phase /\ framer.state = "TX_DATA"
  <2> DEFINE byte == tx_frame_body_byte(tx_queue.bytes[framer_slot_idx],
                                        framer.byte_index, framer.len)
             next_crc == crc32_next_byte(framer.crc, byte)
  <2>1. DataCycle
    BY <1>9 DEF ethernet_tx_queue_step, IdleCycle, PreambleCycle, FcsCycle, GapCycle
  <2>2. framer.byte_index \in 0 .. n - 1
    BY <1>1, <1>5, <1>9 DEF TxTypeOK, FramerType, BodyLen
  <2>3. \/ /\ framer.byte_index = n - 1
           /\ framer'.state = "TX_FCS" /\ framer'.fcs_index = 0
           /\ framer'.fcs = Complement(next_crc)
        \/ /\ framer'.state = "TX_DATA" /\ framer'.crc = next_crc
           /\ framer'.byte_index = framer.byte_index + 1
    BY <1>1, <1>9, <2>1 DEF DataCycle, CurrentSlot, FramerType
  <2>4. next_crc = register[framer.byte_index + 1]
    <3>1. framer.crc = register[framer.byte_index]
      BY <1>9 DEF CrcCoversSent
    <3>2. byte = P[framer.byte_index + 1]
      BY <1>5, <2>2
    <3> HIDE DEF byte, register, P
    <3>3. QED BY <1>6, <2>2, <3>1, <3>2
  <2> HIDE DEF next_crc
  <2>5. CrcCoversSent'
    <3> HIDE DEF register
    <3>1. /\ framer'.state = "TX_DATA" => framer'.crc = register[framer'.byte_index]
          /\ framer'.state = "TX_FCS" => framer'.fcs = Complement(register[n])
          /\ framer'.state # "TX_PREAMBLE"
      BY <1>5, <2>2, <2>3, <2>4
    <3>2. QED BY <1>2, <1>4, <3>1 DEF CrcCoversSent, register
  <2>6. BytesSent' = BytesSent + 1 /\ framer'.state \in SendingStates
    <3>1. BytesSent = SfdIndex + 1 + framer.byte_index
      BY <1>9 DEF BytesSent
    <3>2. /\ framer'.state = "TX_DATA" => BytesSent' = SfdIndex + 1 + framer'.byte_index
          /\ framer'.state = "TX_FCS" => BytesSent' = SfdIndex + 1 + n + framer'.fcs_index
      BY <1>2 DEF BytesSent
    <3>3. BytesSent' = SfdIndex + 1 + framer.byte_index + 1
      BY <1>5, <2>2, <2>3, <3>2
    <3>4. QED BY <2>2, <2>3, <3>1, <3>3 DEF SendingStates
  <2>7. QED BY <1>2, <1>3, <1>9, <2>5, <2>6
<1>10. CASE framer.nibble_phase /\ framer.state = "TX_FCS"
  <2>1. FcsCycle
    BY <1>10 DEF ethernet_tx_queue_step, IdleCycle, PreambleCycle, DataCycle, GapCycle
  <2>2. /\ framer.fcs_index \in 0 .. 3
        /\ \/ /\ framer.fcs_index = 3
              /\ framer'.state = "TX_IFG" /\ framer'.ifg_count = 0
           \/ /\ framer'.state = "TX_FCS" /\ framer'.fcs = framer.fcs
              /\ framer'.fcs_index = framer.fcs_index + 1
    BY <1>1, <1>10, <2>1 DEF FcsCycle, FrameSent, FramerType
  <2>3. CrcCoversSent'
    BY <1>2, <1>4, <1>10, <2>2 DEF CrcCoversSent
  <2>4. BytesSent = SfdIndex + 1 + n + framer.fcs_index
    BY <1>10 DEF BytesSent
  <2>5. framer'.state = "TX_FCS" => BytesSent' = SfdIndex + 1 + n + framer'.fcs_index
    BY <1>2 DEF BytesSent
  <2>6. \/ framer'.state \in SendingStates /\ BytesSent' = BytesSent + 1
        \/ /\ framer'.state = "TX_IFG" /\ framer'.ifg_count = 0
           /\ BytesSent + 1 = Len(HeadFrame)
    BY <1>5, <2>2, <2>4, <2>5 DEF SendingStates
  <2>7. QED BY <1>2, <1>3, <1>10, <2>3, <2>6
<1>11. QED BY <1>7, <1>8, <1>9, <1>10 DEF SendingStates

----------------------------------------------------------------------------
(* And what the host has received of it. *)

Prefix(f, n) == [k \in 1 .. n |-> f[k]]

LEMMA PrefixGrows ==
  ASSUME NEW f, NEW n \in Nat
  PROVE  Append(Prefix(f, n), f[n + 1]) = Prefix(f, n + 1)
<1> DEFINE T == { f[k] : k \in 1 .. n + 1 }
           p == Prefix(f, n)
           x == f[n + 1]
<1>1. p \in Seq(T) /\ Len(p) = n /\ \A k \in 1 .. n : p[k] = f[k]
  BY DEF Prefix
<1>2. x \in T
  OBVIOUS
<1> HIDE DEF T, p, x
<1>3. /\ Append(p, x) \in Seq(T) /\ Len(Append(p, x)) = n + 1
      /\ \A k \in 1 .. n : Append(p, x)[k] = p[k]
      /\ Append(p, x)[n + 1] = x
  BY <1>1, <1>2
<1> DEFINE a == Append(p, x)
<1>4. a \in Seq(T) /\ Len(a) = n + 1
  BY <1>3
<1>5. \A k \in 1 .. n + 1 : a[k] = f[k]
  BY <1>1, <1>3 DEF x
<1> HIDE DEF a
<1>6. a = [k \in 1 .. n + 1 |-> a[k]]
  BY <1>4
<1>7. a = [k \in 1 .. n + 1 |-> f[k]]
  BY <1>5, <1>6
<1>8. QED BY <1>7 DEF a, p, x, Prefix

\* The host holds what has been sent, at the end all of it, and takes a
\* packet for received only while its gap lasts.
HostHasSent ==
  /\ framer.state \in SendingStates =>
       host.nibbles = Prefix(Format!NibblesOf(HeadFrame), NibblesSent)
  /\ framer.state = "TX_IFG" /\ framer.ifg_count = 0 =>
       host.nibbles = Format!NibblesOf(HeadFrame)
  /\ host.received => framer.state = "TX_IFG" /\ framer.ifg_count # 0

ContentInv == PacketsFit /\ CrcCoversSent /\ HostHasSent

\* While the framer sends.
LEMMA ContentWhileSending ==
  ASSUME TxTypeOK, FramerOwnsReadSlot, HostInv, ContentInv, Clock,
         framer.state \in SendingStates
  PROVE  ContentInv'
<1> DEFINE N == Format!NibblesOf(HeadFrame)
           sent == NibblesSent
           at == BytesSent
<1>1. /\ HeadBody' = HeadBody /\ CrcCoversSent'
      /\ framer'.nibble_phase = ~framer.nibble_phase
      /\ ~framer.nibble_phase => framer'.state \in SendingStates /\ BytesSent' = at
      /\ framer.nibble_phase =>
           \/ framer'.state \in SendingStates /\ BytesSent' = at + 1
           \/ /\ framer'.state = "TX_IFG" /\ framer'.ifg_count = 0
              /\ at + 1 = Len(HeadFrame)
  BY SentGrows DEF ContentInv, Clock
<1>2. /\ at \in Nat /\ at < Len(HeadFrame)
      /\ Len(HeadFrame) = SfdIndex + 1 + framer.frame_body_len + 4
      /\ pins'.en = 1
      /\ pins'.d = IF framer.nibble_phase THEN HeadFrame[at + 1] \div 16
                                          ELSE HeadFrame[at + 1] % 16
  BY EmitsFrameByte DEF ContentInv, Clock
<1>3. Len(HeadFrame) \in Nat
  BY <1>2, TxSizesAssumption DEF TxTypeOK, FramerType, BodyLen
<1>4. framer.nibble_phase \in BOOLEAN
  BY DEF TxTypeOK, FramerType
<1>5. HeadFrame' = HeadFrame
  BY <1>1, HeadFrameKept
<1>6. N' = N
  BY <1>5
<1>7. tx_queue' = tx_queue
  BY SendingCycle DEF Clock
<1>8. PacketsFit'
  BY <1>7 DEF ContentInv, PacketsFit
<1>9. host.nibbles = Prefix(N, sent) /\ host.received = FALSE
  BY DEF ContentInv, HostHasSent, SendingStates
<1>10. host'.nibbles = Append(host.nibbles, pins'.d) /\ ~host'.received
  <2>1. host'.nibbles = Append(host.nibbles, pins'.d)
    BY <1>2 DEF Clock
  <2>2. host'.received = ((host.received \/ (host.nibbles # << >> /\ pins'.en = 0))
                            /\ ~(tx_queue'.valid # tx_queue.valid))
    BY DEF Clock
  <2>3. pins'.en # 0
    BY <1>2
  <2>4. QED BY <1>9, <2>1, <2>2, <2>3, Zenon
<1>11. sent \in Nat /\ sent = 2 * at + IF framer.nibble_phase THEN 1 ELSE 0
  BY <1>2, <1>4 DEF NibblesSent
<1>12. pins'.d = N[sent + 1]
  <2>1. N[2 * at + 1] = HeadFrame[at + 1] % 16 /\ N[2 * at + 2] = HeadFrame[at + 1] \div 16
    BY <1>2, <1>3, NibbleAt
  <2> HIDE DEF N, at, sent
  <2>2. QED BY <1>2, <1>4, <1>11, <2>1
<1>13. host'.nibbles = Prefix(N, sent + 1)
  BY <1>9, <1>10, <1>11, <1>12, PrefixGrows
<1>14. CASE framer'.state \in SendingStates
  <2>1. NibblesSent' = sent + 1
    <3>1. NibblesSent' = 2 * BytesSent' + IF framer'.nibble_phase THEN 1 ELSE 0
      BY DEF NibblesSent
    <3>2. CASE framer.nibble_phase = TRUE
      <4>1. framer'.nibble_phase = FALSE /\ BytesSent' = at + 1
        BY <1>1, <1>14, <3>2 DEF SendingStates
      <4> HIDE DEF at, sent
      <4>2. QED BY <1>2, <1>11, <3>1, <3>2, <4>1 DEF sent
    <3>3. CASE framer.nibble_phase = FALSE
      <4>1. framer'.nibble_phase = TRUE /\ BytesSent' = at
        BY <1>1, <3>3
      <4> HIDE DEF at, sent
      <4>2. QED BY <1>2, <1>11, <3>1, <3>3, <4>1 DEF sent
    <3>4. QED BY <1>4, <3>2, <3>3
  <2>2. host'.nibbles = Prefix(N, NibblesSent)'
    BY <1>6, <1>13, <2>1
  <2>3. QED BY <1>1, <1>8, <1>10, <1>14, <2>2 DEF ContentInv, HostHasSent, SendingStates
<1>15. CASE /\ framer'.state = "TX_IFG" /\ framer'.ifg_count = 0
            /\ at + 1 = Len(HeadFrame) /\ framer.nibble_phase
  <2>1. sent + 1 = 2 * Len(HeadFrame)
    BY <1>2, <1>11, <1>15
  <2>2. Prefix(N, 2 * Len(HeadFrame)) = N
    BY DEF Prefix, Format!NibblesOf
  <2>3. host'.nibbles = N'
    BY <1>6, <1>13, <2>1, <2>2
  <2>4. QED BY <1>1, <1>8, <1>10, <1>15, <2>3 DEF ContentInv, HostHasSent, SendingStates
<1>16. QED BY <1>1, <1>4, <1>14, <1>15

\* From rest to the first preamble nibble.
LEMMA ContentAtRest ==
  ASSUME TxTypeOK, FramerOwnsReadSlot, HostInv, ContentInv, Clock,
         framer.state = "TX_IDLE"
  PROVE  ContentInv'
<1>1. framer \in FramerType
  BY DEF TxTypeOK
<1>2. IdleCycle
  BY DEF Clock, ethernet_tx_queue_step, PreambleCycle, DataCycle, FcsCycle, GapCycle
<1>3. /\ framer'.state \in {"TX_IDLE", "TX_PREAMBLE"}
      /\ framer'.crc = CrcInit /\ framer'.byte_index = 0
      /\ framer'.nibble_phase = FALSE
      /\ pins'.en = 0
  BY <1>1, <1>2 DEF IdleCycle, Quiet, FramerType
<1>4. tx_queue' = tx_queue
  BY FramerProgress DEF Clock, FramerOwnsReadSlot
<1>5. PacketsFit'
  BY <1>4 DEF ContentInv, PacketsFit
<1>6. CrcCoversSent'
  BY <1>3 DEF CrcCoversSent
<1>7. ~host.received /\ host.nibbles = << >>
  BY DEF ContentInv, HostHasSent, HostInv
<1>8. host'.nibbles = << >>
  BY <1>3 DEF Clock
<1>9. ~host'.received
  <2>1. host'.received = ((host.received \/ (host.nibbles # << >> /\ pins'.en = 0))
                            /\ ~(tx_queue'.valid # tx_queue.valid))
    BY DEF Clock
  <2>2. QED BY <1>7, <2>1
<1>10. framer'.state = "TX_PREAMBLE" => NibblesSent' = 0
  BY <1>3 DEF NibblesSent, BytesSent
<1>11. \A f : Prefix(f, 0) = << >>
  BY DEF Prefix
<1>12. HostHasSent'
  <2> DEFINE N == Format!NibblesOf(HeadFrame)
  <2>1. framer'.state = "TX_PREAMBLE" => Prefix(N, NibblesSent)' = << >>
    <3> DEFINE M == N'
               sent == NibblesSent'
    <3>1. framer'.state = "TX_PREAMBLE" => sent = 0
      BY <1>10
    <3>2. Prefix(N, NibblesSent)' = Prefix(M, sent)
      OBVIOUS
    <3> HIDE DEF M, sent
    <3>3. QED BY <1>11, <3>1, <3>2
  <2> HIDE DEF N
  <2>2. QED BY <1>3, <1>8, <1>9, <2>1 DEF HostHasSent, SendingStates, N
<1>13. QED BY <1>5, <1>6, <1>12 DEF ContentInv

\* The host takes the frame at the end of the first cycle of the gap, and
\* the last cycle frees the slot.
LEMMA ContentInGap ==
  ASSUME TxTypeOK, FramerOwnsReadSlot, HostInv, ContentInv, Clock,
         framer.state = "TX_IFG"
  PROVE  ContentInv'
<1>1. framer \in FramerType /\ framer_active
  BY DEF TxTypeOK, FramerOwnsReadSlot
<1>2. GapCycle
  BY DEF Clock, ethernet_tx_queue_step, IdleCycle, PreambleCycle, DataCycle, FcsCycle
<1>3. \/ /\ framer'.state = "TX_IFG" /\ framer'.ifg_count # 0
         /\ tx_queue' = tx_queue
      \/ /\ framer'.state = "TX_IDLE"
         /\ tx_queue' = TQ!packet_queue_consume_read_slot(tx_queue)
  <2>1. \/ framer'.state = "TX_IFG" /\ framer'.ifg_count = framer.ifg_count + 1
        \/ framer'.state = "TX_IDLE"
    BY <1>1, <1>2 DEF GapCycle, FramerType
  <2>2. framer.ifg_count + 1 # 0
    BY <1>1 DEF FramerType
  <2>3. framer'.state = "TX_IDLE" =>
          tx_queue' = TQ!packet_queue_consume_read_slot(tx_queue)
    BY <1>1, FramerProgress DEF Clock
  <2>4. framer'.state # "TX_IDLE" => tx_queue' = tx_queue
    BY <1>1, FramerProgress DEF Clock
  <2>5. QED BY <2>1, <2>2, <2>3, <2>4
<1>4. /\ tx_queue \in TxQueueType /\ tx_queue.valid[tx_queue.read_idx]
      /\ tx_queue.read_idx \in TQ!Slot
  BY <1>1 DEF TxTypeOK, FramerOwnsReadSlot, TxQueueType, TQ!QueueType
<1>5. framer'.state = "TX_IDLE" =>
        /\ tx_queue'.meta = tx_queue.meta
        /\ tx_queue'.valid = [tx_queue.valid EXCEPT ![tx_queue.read_idx] = FALSE]
        /\ tx_queue'.valid # tx_queue.valid
  <2> DEFINE freed == TQ!packet_queue_consume_read_slot(tx_queue)
  <2>1. /\ freed.meta = tx_queue.meta
        /\ freed.valid = [tx_queue.valid EXCEPT ![tx_queue.read_idx] = FALSE]
    BY <1>4 DEF TQ!packet_queue_consume_read_slot, TxQueueType, TQ!QueueType
  <2>2. freed.valid # tx_queue.valid
    BY <1>4, <2>1 DEF TxQueueType, TQ!QueueType
  <2> HIDE DEF freed
  <2>3. QED BY <1>3, <2>1, <2>2 DEF freed
<1>6. PacketsFit'
  <2>1. CASE tx_queue' = tx_queue
    BY <2>1 DEF ContentInv, PacketsFit
  <2>2. CASE framer'.state = "TX_IDLE"
    BY <1>4, <1>5, <2>2 DEF ContentInv, PacketsFit, TxQueueType, TQ!QueueType
  <2>3. QED BY <1>3, <2>1, <2>2
<1>7. CrcCoversSent'
  BY <1>3 DEF CrcCoversSent
<1>8. framer'.state = "TX_IDLE" => ~host'.received
  <2>1. host'.received = ((host.received \/ (host.nibbles # << >> /\ pins'.en = 0))
                            /\ ~(tx_queue'.valid # tx_queue.valid))
    BY DEF Clock
  <2>2. QED BY <1>5, <2>1
<1>9. HostHasSent'
  BY <1>3, <1>8 DEF HostHasSent, SendingStates
<1>10. QED BY <1>6, <1>7, <1>9 DEF ContentInv

\* The producer fills a free slot with a packet that fits, and leaves the one
\* that is being sent.
LEMMA ContentOnPublish ==
  ASSUME TxTypeOK, FramerOwnsReadSlot, ContentInv, NEW body \in Bodies, Publish(body)
  PROVE  ContentInv'
<1> DEFINE s == framer_slot_idx
           w == tx_queue.write_idx
<1>1. /\ ~tx_queue.valid[w] /\ w \in TQ!Slot
      /\ tx_queue'.valid = [tx_queue.valid EXCEPT ![w] = TRUE]
      /\ tx_queue'.meta[w] = Len(body) /\ Len(body) <= TX_FRAME_BODY_BYTES
      /\ \A t \in TQ!Slot : t # w =>
           tx_queue'.meta[t] = tx_queue.meta[t] /\ tx_queue'.bytes[t] = tx_queue.bytes[t]
  BY PublishPutsBehind, WireBodiesAssumption
     DEF TxTypeOK, TxQueueType, TQ!QueueType, FramerOwnsReadSlot
<1>2. UNCHANGED << framer_active, framer_slot_idx, framer, host >>
  BY DEF Publish
<1>3. PacketsFit'
  BY <1>1 DEF ContentInv, PacketsFit, TxTypeOK, TxQueueType, TQ!QueueType
<1>4. ASSUME framer.state # "TX_IDLE" PROVE HeadBody' = HeadBody
  <2>1. s \in TQ!Slot /\ s # w
    BY <1>1, <1>4 DEF TxTypeOK, FramerOwnsReadSlot
  <2>2. QED BY <1>1, <1>2, <2>1 DEF HeadBody, SlotBody
<1>5. CrcCoversSent'
  <2>1. CASE framer.state = "TX_IDLE"
    BY <1>2, <2>1 DEF CrcCoversSent
  <2>2. CASE framer.state # "TX_IDLE"
    BY <1>2, <1>4, <2>2 DEF CrcCoversSent, ContentInv
  <2>3. QED BY <2>1, <2>2
<1>6. HostHasSent'
  <2>1. CASE framer.state = "TX_IDLE"
    BY <1>2, <2>1 DEF HostHasSent, ContentInv, SendingStates
  <2>2. CASE framer.state # "TX_IDLE"
    <3>1. HeadFrame' = HeadFrame
      BY <1>4, <2>2, HeadFrameKept
    <3>2. Format!NibblesOf(HeadFrame)' = Format!NibblesOf(HeadFrame)
      BY <3>1
    <3>3. NibblesSent' = NibblesSent
      BY <1>2 DEF NibblesSent, BytesSent
    <3>4. Prefix(Format!NibblesOf(HeadFrame), NibblesSent)' =
            Prefix(Format!NibblesOf(HeadFrame), NibblesSent)
      BY <3>2, <3>3
    <3>5. QED BY <1>2, <3>2, <3>4 DEF HostHasSent, ContentInv
  <2>3. QED BY <2>1, <2>2
<1>7. QED BY <1>3, <1>5, <1>6 DEF ContentInv

LEMMA ContentHolds == WireSafety => []ContentInv
<1>1. WireInit => ContentInv
  <2> SUFFICES ASSUME WireInit PROVE ContentInv
    OBVIOUS
  <2>1. /\ framer.state = "TX_IDLE" /\ ~host.received
        /\ \A s \in TQ!Slot : ~tx_queue.valid[s]
    BY DEF WireInit, Init, TQ!EmptyQueue
  <2>2. QED
    BY <2>1 DEF ContentInv, PacketsFit, CrcCoversSent, HostHasSent, SendingStates
<1>2. ASSUME TxTypeOK, FramerOwnsReadSlot, HostInv, ContentInv, [WireNext]_wireVars
      PROVE  ContentInv'
  <2>1. CASE Clock
    <3>1. framer.state \in SendingStates \union {"TX_IDLE", "TX_IFG"}
      BY <1>2 DEF HostInv, FramerStates, SendingStates
    <3>2. QED
      BY <1>2, <2>1, <3>1, ContentWhileSending, ContentAtRest, ContentInGap
  <2>2. ASSUME NEW body \in Bodies, Publish(body) PROVE ContentInv'
    BY <1>2, <2>2, ContentOnPublish
  <2>3. CASE UNCHANGED wireVars
    <3>1. HeadBody' = HeadBody
      BY <2>3 DEF wireVars, txVars, HeadBody, SlotBody
    <3>2. PacketsFit'
      BY <1>2, <2>3 DEF wireVars, txVars, ContentInv, PacketsFit
    <3>3. CrcCoversSent'
      BY <1>2, <2>3, <3>1 DEF wireVars, txVars, ContentInv, CrcCoversSent
    <3>4. HeadFrame' = HeadFrame
      BY <3>1, HeadFrameKept
    <3>5. NibblesSent' = NibblesSent
      BY <2>3 DEF wireVars, txVars, NibblesSent, BytesSent
    <3>6. HostHasSent'
      BY <1>2, <2>3, <3>4, <3>5 DEF wireVars, txVars, ContentInv, HostHasSent
    <3>7. QED BY <3>2, <3>3, <3>6 DEF ContentInv
  <2>4. QED BY <1>2, <2>1, <2>2, <2>3 DEF WireNext
<1>3. QED BY <1>1, <1>2, WireSafe, HostInvHolds, PTL DEF WireSafety

\* What the host receives is, complete and once only, the frame of the packet
\* at the head of the ring: preamble, SFD, body, zeros up to the minimum and
\* the FCS of both, whatever earlier packets left in the slot and whatever is
\* published meanwhile (ethernet_framer.h:97-188, ethernet_tx_queue.h:17-46).
THEOREM FrameIsTheHead == WireSafety => FrameIsTheHeadPacket
<1> DEFINE Complete ==
      host.nibbles # << >> /\ host'.nibbles = << >> =>
        /\ ~host.received
        /\ tx_queue.valid[tx_queue.read_idx]
        /\ host.nibbles = Format!NibblesOf(Format!WireFrame(
                             SlotBody(tx_queue, tx_queue.read_idx)))
<1>1. ASSUME TxTypeOK, FramerOwnsReadSlot, HostInv, ContentInv, Clock,
             host.nibbles # << >>, host'.nibbles = << >>
      PROVE  /\ ~host.received
             /\ tx_queue.valid[tx_queue.read_idx]
             /\ host.nibbles = Format!NibblesOf(Format!WireFrame(
                                  SlotBody(tx_queue, tx_queue.read_idx)))
  <2>1. pins.en # 0 /\ pins'.en # 1
    <3>1. HostInv'
      BY <1>1, FramerKeepsHostInv
    <3>2. QED BY <1>1, <3>1 DEF HostInv
  <2>2. framer.state \notin SendingStates
    BY <1>1, <2>1, EmitsFrameByte DEF ContentInv, Clock
  <2>3. framer.state = "TX_IFG" /\ framer.ifg_count = 0
    BY <1>1, <2>1, <2>2 DEF HostInv, FramerStates, SendingStates
  <2>4. framer_slot_idx = tx_queue.read_idx /\ tx_queue.valid[tx_queue.read_idx]
    BY <1>1, <2>3 DEF FramerOwnsReadSlot
  <2>5. QED BY <1>1, <2>3, <2>4 DEF ContentInv, HostHasSent, HeadFrame, HeadBody
<1>2. TxTypeOK /\ FramerOwnsReadSlot /\ HostInv /\ ContentInv /\ [WireNext]_wireVars
        => [Complete]_wireVars
  BY <1>1 DEF WireNext, Publish, wireVars
<1> HIDE DEF Complete
<1>3. WireSafety => [][Complete]_wireVars
  BY <1>2, WireSafe, HostInvHolds, ContentHolds, PTL DEF WireSafety
<1>4. QED BY <1>3 DEF Complete, FrameIsTheHeadPacket

----------------------------------------------------------------------------
(* When the toggle flips. *)

\* The pin shows the framer's flag in every cycle, and the framer is before
\* the end of its frame while it sends.
PinShowsFrame == pins.toggle = framer.frame

BytesLeft ==
  framer_active =>
    /\ Len(HeadFrame) \in Nat \ {0}
    /\ framer.state \in SendingStates => BytesSent \in Nat /\ BytesSent < Len(HeadFrame)

LEMMA FramerHasBytesLeft ==
  ASSUME TxTypeOK, FramerOwnsReadSlot, PacketsFit
  PROVE  BytesLeft
<1> USE TxSizesAssumption
<1> SUFFICES ASSUME framer_active
             PROVE  /\ Len(HeadFrame) \in Nat \ {0}
                    /\ framer.state \in SendingStates =>
                         BytesSent \in Nat /\ BytesSent < Len(HeadFrame)
  BY DEF BytesLeft
<1> DEFINE n == framer.frame_body_len
<1>1. /\ Format!Pad(HeadBody) \in Seq(Byte) /\ Len(Format!Pad(HeadBody)) = n
      /\ n \in Nat /\ n >= 1
  BY HeadParts DEF BodyLen
<1>2. Len(HeadFrame) = SfdIndex + 1 + n + 4
  BY <1>1, FrameParts DEF HeadFrame
<1>3. Len(HeadFrame) \in Nat \ {0}
  BY <1>1, <1>2
<1>4. framer \in FramerType
  BY DEF TxTypeOK
<1>5. CASE framer.state = "TX_PREAMBLE"
  <2>1. BytesSent = framer.byte_index /\ framer.byte_index \in 0 .. SfdIndex
    BY <1>4, <1>5 DEF TxTypeOK, FramerType, BodyLen, BytesSent
  <2>2. QED BY <1>1, <1>2, <1>3, <2>1
<1>6. CASE framer.state = "TX_DATA"
  <2>1. BytesSent = SfdIndex + 1 + framer.byte_index /\ framer.byte_index \in 0 .. n - 1
    BY <1>4, <1>6 DEF TxTypeOK, FramerType, BodyLen, BytesSent
  <2>2. QED BY <1>1, <1>2, <1>3, <2>1
<1>7. CASE framer.state = "TX_FCS"
  <2>1. BytesSent = SfdIndex + 1 + n + framer.fcs_index /\ framer.fcs_index \in 0 .. 3
    BY <1>4, <1>7 DEF FramerType, BytesSent
  <2>2. QED BY <1>1, <1>2, <1>3, <2>1
<1>8. QED BY <1>3, <1>5, <1>6, <1>7 DEF SendingStates

\* The flag flips where the framer leaves the FCS for the gap.
LEMMA FlipsAfterFcs ==
  ASSUME TxTypeOK, PinShowsFrame, ethernet_tx_queue_step
  PROVE  /\ PinShowsFrame'
         /\ pins'.toggle # pins.toggle <=>
              framer.state \in SendingStates /\ framer'.state = "TX_IFG"
<1>1. framer \in FramerType
  BY DEF TxTypeOK
<1>2. CASE IdleCycle
  BY <1>1, <1>2 DEF IdleCycle, Quiet, PinShowsFrame, FramerType, SendingStates
<1>3. CASE PreambleCycle
  <2>1. framer'.frame = framer.frame /\ framer'.state # "TX_IFG"
    BY <1>1, <1>3 DEF PreambleCycle, FramerType
  <2>2. pins'.toggle = framer.frame
    BY <1>3 DEF PreambleCycle, Emit
  <2>3. QED BY <2>1, <2>2 DEF PinShowsFrame
<1>4. CASE DataCycle
  <2>1. framer'.frame = framer.frame /\ framer'.state # "TX_IFG"
    BY <1>1, <1>4 DEF DataCycle, FramerType
  <2>2. pins'.toggle = framer.frame
    BY <1>4 DEF DataCycle, Emit
  <2>3. QED BY <2>1, <2>2 DEF PinShowsFrame
<1>5. CASE FcsCycle
  <2>1. /\ framer.state = "TX_FCS" /\ framer.frame \in BOOLEAN
        /\ \/ framer'.frame = ~framer.frame /\ framer'.state = "TX_IFG"
           \/ framer'.frame = framer.frame /\ framer'.state = "TX_FCS"
    BY <1>1, <1>5 DEF FcsCycle, FrameSent, FramerType
  <2>2. pins'.toggle = framer'.frame
    BY <1>5 DEF FcsCycle, Emit
  <2>3. QED BY <2>1, <2>2 DEF PinShowsFrame, SendingStates
<1>6. CASE GapCycle
  <2>1. framer.state = "TX_IFG" /\ framer'.frame = framer.frame
    BY <1>1, <1>6 DEF GapCycle, FramerType
  <2>2. pins'.toggle = framer.frame
    BY <1>6 DEF GapCycle, Quiet
  <2>3. QED BY <2>1, <2>2 DEF PinShowsFrame, SendingStates
<1>7. QED BY <1>2, <1>3, <1>4, <1>5, <1>6 DEF ethernet_tx_queue_step

LEMMA PinShowsFrameHolds == WireSafety => []PinShowsFrame
<1>1. WireInit => PinShowsFrame
  BY DEF WireInit, Init, Quiet, PinShowsFrame
<1>2. TxTypeOK /\ PinShowsFrame /\ [WireNext]_wireVars => PinShowsFrame'
  <2>1. ASSUME TxTypeOK, PinShowsFrame, Clock PROVE PinShowsFrame'
    BY <2>1, FlipsAfterFcs DEF Clock
  <2>2. ASSUME PinShowsFrame, UNCHANGED << framer, pins >> PROVE PinShowsFrame'
    BY <2>2 DEF PinShowsFrame
  <2>3. QED BY <2>1, <2>2 DEF WireNext, Publish, wireVars, txVars
<1>3. QED BY <1>1, <1>2, WireSafe, PTL DEF WireSafety

\* The toggle flips in the cycle that completes the host's frame, and in no
\* other (ethernet_framer.h:164-167, 195): the status logic is told of every
\* frame once, when it is complete, and of the next one no sooner than its own
\* last nibble.
THEOREM FlipIsWithFrame == WireSafety => ToggleFlipsWithFrame
<1> DEFINE Complete == Format!NibblesOf(Format!WireFrame(
                         SlotBody(tx_queue, tx_queue.read_idx)))
           Flips == pins'.toggle # pins.toggle <=>
                      /\ host'.nibbles # host.nibbles
                      /\ host'.nibbles = Complete
           Inv == /\ TxTypeOK /\ FramerOwnsReadSlot /\ HostInv /\ ContentInv
                  /\ PinShowsFrame /\ BytesLeft
<1>1. ASSUME Inv, Inv', Clock PROVE Flips
  <2> DEFINE N == Format!NibblesOf(HeadFrame)
  <2>1. pins'.toggle # pins.toggle <=>
          framer.state \in SendingStates /\ framer'.state = "TX_IFG"
    BY <1>1, FlipsAfterFcs DEF Clock
  <2>2. framer_active => N = Complete /\ Len(HeadFrame) \in Nat \ {0}
    BY <1>1 DEF FramerOwnsReadSlot, BytesLeft, HeadFrame, HeadBody
  <2>3. N \in [1 .. 2 * Len(HeadFrame) -> { N[k] : k \in 1 .. 2 * Len(HeadFrame) }]
    BY DEF Format!NibblesOf
  <2>4. framer_active => DOMAIN N = 1 .. 2 * Len(HeadFrame)
    BY DEF Format!NibblesOf
  <2>5. framer.state \in FramerStates
    BY <1>1 DEF HostInv
  <2>6. CASE framer.state \in SendingStates
    <3>1. framer_active
      BY <1>1, <2>6 DEF FramerOwnsReadSlot, SendingStates
    <3>2. /\ HeadBody' = HeadBody
          /\ \/ framer'.state \in SendingStates
             \/ framer'.state = "TX_IFG" /\ framer'.ifg_count = 0
      BY <1>1, <2>6, SentGrows DEF ContentInv, Clock, TxTypeOK, FramerType
    <3>3. HeadFrame' = HeadFrame
      BY <3>2, HeadFrameKept
    <3>4. N' = N
      BY <3>3
    <3>5. CASE framer'.state = "TX_IFG" /\ framer'.ifg_count = 0
      <4>1. host'.nibbles = N
        BY <1>1, <3>4, <3>5 DEF ContentInv, HostHasSent
      <4>2. host.nibbles = Prefix(N, NibblesSent)
        BY <1>1, <2>6 DEF ContentInv, HostHasSent
      <4>3. /\ pins'.en = 1
            /\ host'.nibbles = Append(host.nibbles, pins'.d)
        BY <1>1, <2>6, EmitsFrameByte DEF ContentInv, Clock
      <4>4. BytesSent \in Nat
        BY <1>1, <2>6, <3>1 DEF BytesLeft
      <4>5. NibblesSent \in Nat
        BY <1>1, <4>4 DEF NibblesSent, TxTypeOK, FramerType
      <4>6. Len(Append(host.nibbles, pins'.d)) = NibblesSent + 1 /\ Len(host.nibbles) = NibblesSent
        <5> DEFINE T == { N[k] : k \in 1 .. NibblesSent } \union { pins'.d }
        <5>1. host.nibbles \in Seq(T) /\ Len(host.nibbles) = NibblesSent
          BY <4>2, <4>5 DEF Prefix
        <5> HIDE DEF T
        <5>2. pins'.d \in T
          BY DEF T
        <5>3. QED BY <5>1, <5>2
      <4>7. host'.nibbles # host.nibbles
        BY <4>3, <4>5, <4>6
      <4>8. QED BY <2>1, <2>2, <2>6, <3>1, <3>5, <4>1, <4>7
    <3>6. CASE framer'.state \in SendingStates
      <4>1. host'.nibbles = Prefix(N, NibblesSent')
        <5>1. host'.nibbles = Prefix(N, NibblesSent)'
          BY <1>1, <3>6 DEF ContentInv, HostHasSent
        <5>2. QED BY <3>4, <5>1
      <4>2. framer_active'
        BY <1>1, <3>6 DEF FramerOwnsReadSlot, SendingStates
      <4>3. BytesSent' \in Nat /\ BytesSent' < Len(HeadFrame)
        BY <1>1, <3>3, <3>6, <4>2 DEF BytesLeft
      <4>4. NibblesSent' \in Nat /\ NibblesSent' < 2 * Len(HeadFrame)
        <5> DEFINE sent == BytesSent'
                   total == NibblesSent'
                   length == Len(HeadFrame)
        <5>1. total = 2 * sent + IF framer'.nibble_phase THEN 1 ELSE 0
          BY DEF NibblesSent
        <5>2. sent \in Nat /\ length \in Nat /\ sent < length
          BY <2>2, <3>1, <4>3
        <5> HIDE DEF sent, total, length
        <5>3. total \in Nat /\ total < 2 * length
          BY <5>1, <5>2
        <5>4. QED BY <5>3 DEF total, length
      <4>5. DOMAIN Prefix(N, NibblesSent') = 1 .. NibblesSent'
        BY DEF Prefix
      <4>6. host'.nibbles # N
        <5>1. 2 * Len(HeadFrame) \in 1 .. 2 * Len(HeadFrame)
          BY <2>2, <3>1
        <5>2. 2 * Len(HeadFrame) \notin 1 .. NibblesSent'
          BY <4>4
        <5>3. QED BY <2>4, <3>1, <4>1, <4>5, <5>1, <5>2
      <4>7. QED BY <2>1, <2>2, <3>1, <3>6, <4>6 DEF SendingStates
    <3>7. QED BY <3>2, <3>5, <3>6
  <2>7. CASE framer.state = "TX_IDLE"
    <3>1. IdleCycle
      BY <1>1, <2>7 DEF Clock, ethernet_tx_queue_step, PreambleCycle, DataCycle, FcsCycle, GapCycle
    <3>2. pins.en = 0 /\ pins'.en = 0
      BY <1>1, <2>7, <3>1 DEF HostInv, IdleCycle, Quiet
    <3>3. host.nibbles = << >> /\ host'.nibbles = << >>
      BY <1>1, <3>2 DEF HostInv
    <3>4. QED BY <2>1, <2>7, <3>3 DEF SendingStates
  <2>8. CASE framer.state = "TX_IFG"
    <3>1. GapCycle
      BY <1>1, <2>8 DEF Clock, ethernet_tx_queue_step, IdleCycle, PreambleCycle, DataCycle, FcsCycle
    <3>2. pins'.en = 0
      BY <3>1 DEF GapCycle, Quiet
    <3>3. host'.nibbles = << >>
      BY <1>1, <3>2 DEF HostInv
    <3>4. framer_active
      BY <1>1, <2>8 DEF FramerOwnsReadSlot
    <3>5. 1 \in DOMAIN N
      BY <2>2, <2>4, <3>4
    <3>6. N # << >>
      BY <3>5
    <3>7. QED BY <2>1, <2>2, <2>8, <3>3, <3>4, <3>6 DEF SendingStates
  <2>9. QED BY <2>5, <2>6, <2>7, <2>8 DEF FramerStates, SendingStates
<1>2. ASSUME UNCHANGED << pins, host >> PROVE Flips
  BY <1>2
<1>3. Inv /\ Inv' /\ [WireNext]_wireVars => [Flips]_wireVars
  <2> HIDE DEF Inv, Flips
  <2>1. QED BY <1>1, <1>2 DEF WireNext, Publish, wireVars, txVars
<1>4. TxTypeOK /\ FramerOwnsReadSlot /\ ContentInv => BytesLeft
  BY FramerHasBytesLeft DEF ContentInv
<1>5. WireSafety => []Inv
  BY <1>4, WireSafe, HostInvHolds, ContentHolds, PinShowsFrameHolds, PTL
<1> HIDE DEF Flips, Inv
<1>6. WireSafety => [][Flips]_wireVars
  BY <1>3, <1>5, PTL DEF WireSafety
<1>7. QED BY <1>6 DEF Flips, ToggleFlipsWithFrame


----------------------------------------------------------------------------
(* The FCS is the remainder of a polynomial division.  The register does   *)
(* one row of the long division with each bit: after k bits the row begins *)
(* with the bits of the register, the lowest first, and goes on with those *)
(* of the message that the register has not met.                           *)

IsTable(f, m, D, first, step) ==
  /\ f \in [0 .. m -> D] /\ f[0] = first
  /\ \A k \in 1 .. m : f[k] = step[<< k, f[k - 1] >>]

\* A function whose values are each made from the one before exists.
LEMMA TableExists ==
  ASSUME NEW D, NEW first \in D, NEW n \in Nat, NEW step \in [(1 .. n) \X D -> D]
  PROVE  \E f : IsTable(f, n, D, first, step)
<1> DEFINE Table(f, m) == IsTable(f, m, D, first, step)
           S == { m \in Nat : m <= n => \E f : Table(f, m) }
<1>1. 0 \in S
  <2>1. Table([k \in 0 .. 0 |-> first], 0)
    BY DEF IsTable
  <2>2. QED BY <2>1
<1>2. ASSUME NEW m \in Nat, m \in S PROVE m + 1 \in S
  <2>1. CASE m + 1 <= n
    <3>1. PICK old : Table(old, m)
      BY <1>2, <2>1
    <3> DEFINE next == step[<< m + 1, old[m] >>]
               f == [j \in 0 .. m + 1 |-> IF j <= m THEN old[j] ELSE next]
    <3>2. old[m] \in D /\ << m + 1, old[m] >> \in (1 .. n) \X D
      BY <2>1, <3>1 DEF IsTable
    <3>3. next \in D
      BY <3>2
    <3>4. f \in [0 .. m + 1 -> D] /\ (\A j \in 0 .. m : f[j] = old[j]) /\ f[m + 1] = next
      BY <3>1, <3>3 DEF IsTable
    <3> HIDE DEF f
    <3>5. ASSUME NEW k \in 1 .. m + 1 PROVE f[k] = step[<< k, f[k - 1] >>]
      <4>1. CASE k \in 1 .. m
        BY <3>1, <3>4, <4>1 DEF IsTable
      <4>2. CASE k = m + 1
        BY <3>4, <4>2
      <4>3. QED BY <4>1, <4>2
    <3>6. Table(f, m + 1)
      BY <3>1, <3>4, <3>5 DEF IsTable
    <3>7. QED BY <3>6
  <2>2. QED BY <2>1
<1> HIDE DEF S
<1>3. Nat \subseteq S
  BY <1>1, <1>2, AllNumbers
<1>4. PICK f : Table(f, n)
  BY <1>3 DEF S
<1>5. QED BY <1>4

IsDivision(row, p, n) ==
  row = [k \in 0 .. n |-> IF k = 0 THEN p ELSE CancelTerm(row[k - 1], n + 32 - k)]

\* The rows of a division are defined, each by the one above it.
LEMMA DivisionRows ==
  ASSUME NEW p \in SUBSET Int, NEW n \in Nat
  PROVE  /\ DivisionRow(p, n)[0] = p
         /\ \A k \in 1 .. n :
              DivisionRow(p, n)[k] = CancelTerm(DivisionRow(p, n)[k - 1], n + 32 - k)
<1> DEFINE D == SUBSET Int
           step == [x \in (1 .. n) \X D |-> CancelTerm(x[2], n + 32 - x[1])]
<1>1. ASSUME NEW q \in D, NEW e \in Int PROVE CancelTerm(q, e) \in D
  <2>1. TimesX(Generator, e - 32) \subseteq Int
    BY DEF TimesX, Generator
  <2>2. QED BY <2>1 DEF CancelTerm, Xor
<1>2. step \in [(1 .. n) \X D -> D]
  BY <1>1
<1>3. \A k \in 1 .. n : \A q \in D : step[<< k, q >>] = CancelTerm(q, n + 32 - k)
  OBVIOUS
<1> HIDE DEF step, D
<1>4. p \in D
  BY DEF D
<1>5. PICK f : IsTable(f, n, D, p, step)
  BY <1>2, <1>4, TableExists
<1>6. ASSUME NEW k \in 1 .. n PROVE f[k] = CancelTerm(f[k - 1], n + 32 - k)
  <2>1. f[k] = step[<< k, f[k - 1] >>] /\ f[k - 1] \in D
    BY <1>5 DEF IsTable
  <2>2. QED BY <1>3, <2>1
<1>7. IsDivision(f, p, n)
  BY <1>5, <1>6 DEF IsDivision, IsTable
<1> DEFINE row == DivisionRow(p, n)
<1>8. row = CHOOSE g : IsDivision(g, p, n)
  BY DEF DivisionRow, IsDivision
<1> HIDE DEF row
<1>9. IsDivision(row, p, n)
  BY <1>7, <1>8
<1>10. QED BY <1>9 DEF IsDivision, row

\* Bit k of a message, in the order of transmission.
BitSent(bytes, k) == (k % 8) \in BitsOf(bytes[k \div 8 + 1])

\* The row after k bits, by the register.
RowOf(word, bytes, k) ==
  LET n == 8 * Len(bytes)
  IN  { e \in 0 .. n + 31 :
          ~((n + 31 - k - e \in word) <=> (e \in 32 .. n + 31 - k /\ BitSent(bytes, n + 31 - e))) }

\* The generator is the register's polynomial, and x^32.
LEMMA GeneratorIsReflected ==
  ASSUME NEW e \in Int, NEW t \in Int
  PROVE  e \in TimesX(Generator, t) <=> (e = 32 + t \/ 31 + t - e \in CrcPolynomial)
<1>1. e \in TimesX(Generator, t) <=> e - t \in Generator
  BY DEF TimesX, Generator
<1>2. ASSUME NEW i \in Int PROVE i \in Generator <=> (i = 32 \/ 31 - i \in CrcPolynomial)
  BY DEF Generator, CrcPolynomial
<1>3. e - t \in Int /\ 31 - (e - t) = 31 + t - e /\ (e - t = 32 <=> e = 32 + t)
  OBVIOUS
<1>4. QED BY <1>1, <1>2, <1>3

\* The first row.
LEMMA FirstRow ==
  ASSUME NEW bytes, Len(bytes) \in Nat
  PROVE  Dividend(bytes) = RowOf(CrcInit, bytes, 0)
<1> DEFINE n == 8 * Len(bytes)
<1>0. n \in Nat
  OBVIOUS
<1>1. ASSUME NEW e
      PROVE  e \in TimesX(MessagePolynomial(bytes), 32) <=>
               (e \in 32 .. n + 31 /\ BitSent(bytes, n + 31 - e))
  <2>1. MessagePolynomial(bytes) = { n - 1 - k : k \in { j \in 0 .. n - 1 : BitSent(bytes, j) } }
    BY DEF MessagePolynomial, BitSent
  <2> HIDE DEF n
  <2>2. e \in TimesX(MessagePolynomial(bytes), 32) <=>
          \E k \in 0 .. n - 1 : BitSent(bytes, k) /\ e = (n - 1 - k) + 32
    BY <2>1 DEF TimesX
  <2>3. ASSUME e \in TimesX(MessagePolynomial(bytes), 32)
        PROVE  e \in 32 .. n + 31 /\ BitSent(bytes, n + 31 - e)
    <3>1. PICK k \in 0 .. n - 1 : BitSent(bytes, k) /\ e = (n - 1 - k) + 32
      BY <2>2, <2>3
    <3>2. n + 31 - e = k /\ e \in 32 .. n + 31
      BY <1>0, <3>1
    <3>3. QED BY <3>1, <3>2
  <2>4. ASSUME e \in 32 .. n + 31, BitSent(bytes, n + 31 - e)
        PROVE  e \in TimesX(MessagePolynomial(bytes), 32)
    <3>1. n + 31 - e \in 0 .. n - 1 /\ e = (n - 1 - (n + 31 - e)) + 32
      BY <1>0, <2>4
    <3>2. QED BY <2>2, <2>4, <3>1
  <2>5. QED BY <2>3, <2>4
<1> HIDE DEF n
<1>2. ASSUME NEW e
      PROVE  e \in TimesX(0 .. 31, n) <=> (e \in 0 .. n + 31 /\ n + 31 - 0 - e \in CrcInit)
  <2>1. e \in TimesX(0 .. 31, n) <=> \E i \in 0 .. 31 : e = i + n
    BY DEF TimesX
  <2>2. e \in n .. n + 31 => e - n \in 0 .. 31 /\ e = (e - n) + n
    BY <1>0
  <2>3. ASSUME NEW i \in 0 .. 31, e = i + n PROVE e \in n .. n + 31
    BY <1>0, <2>3
  <2>4. e \in TimesX(0 .. 31, n) <=> e \in n .. n + 31
    BY <2>1, <2>2, <2>3
  <2>5. e \in n .. n + 31 <=> (e \in 0 .. n + 31 /\ n + 31 - 0 - e \in 0 .. 31)
    <3>1. ASSUME e \in Int
          PROVE  e \in n .. n + 31 <=> (e \in 0 .. n + 31 /\ n + 31 - 0 - e \in 0 .. 31)
      BY <1>0, <3>1
    <3>2. (e \in n .. n + 31 \/ e \in 0 .. n + 31) => e \in Int
      BY <1>0
    <3>3. QED BY <3>1, <3>2
  <2>6. QED BY <2>4, <2>5 DEF CrcInit
<1>3. ASSUME NEW e
      PROVE  e \in Dividend(bytes) <=> e \in RowOf(CrcInit, bytes, 0)
  <2>1. e \in Dividend(bytes) <=>
          ~((e \in 32 .. n + 31 /\ BitSent(bytes, n + 31 - e)) <=>
            (e \in 0 .. n + 31 /\ n + 31 - 0 - e \in CrcInit))
    BY <1>1, <1>2 DEF Dividend, Xor, n
  <2>2. e \in RowOf(CrcInit, bytes, 0) <=>
          /\ e \in 0 .. n + 31
          /\ ~((n + 31 - 0 - e \in CrcInit) <=>
               (e \in 32 .. n + 31 - 0 /\ BitSent(bytes, n + 31 - e)))
    BY DEF RowOf, n
  <2>3. n + 31 - 0 = n + 31 /\ (e \in 32 .. n + 31 => e \in 0 .. n + 31)
    BY <1>0
  <2>4. QED BY <2>1, <2>2, <2>3
<1>4. QED BY <1>3

\* The register's turn is the next row.
LEMMA NextRow ==
  ASSUME NEW bytes, Len(bytes) \in Nat, NEW k \in 0 .. 8 * Len(bytes) - 1, NEW word \in Word
  PROVE  CancelTerm(RowOf(word, bytes, k), 8 * Len(bytes) + 32 - (k + 1))
           = RowOf(CrcBit(word, BitsOf(bytes[k \div 8 + 1]), k % 8), bytes, k + 1)
<1> DEFINE n == 8 * Len(bytes)
           d == n + 31 - k
           next == CrcBit(word, BitsOf(bytes[k \div 8 + 1]), k % 8)
           row == RowOf(word, bytes, k)
           one == CancelTerm(row, n + 32 - (k + 1))
           other == RowOf(next, bytes, k + 1)
           cond == ~(0 \in word <=> BitSent(bytes, k))
<1>1. n \in Nat /\ k \in 0 .. n - 1
  OBVIOUS
<1>2. ASSUME NEW j \in Int
      PROVE  j \in next <=> ~((j + 1 \in word /\ j + 1 # 0) <=> (cond /\ j \in CrcPolynomial))
  <2>1. j \in ShiftRight(word) <=> (j + 1 \in word /\ j + 1 # 0)
    BY DEF ShiftRight, Word
  <2>2. QED BY <2>1 DEF CrcBit, Xor, BitSent
<1>3. ASSUME NEW e
      PROVE  e \in row <=>
               /\ e \in 0 .. n + 31
               /\ ~((d - e \in word) <=> (e \in 32 .. d /\ BitSent(bytes, n + 31 - e)))
  BY DEF RowOf
<1>4. ASSUME NEW e
      PROVE  e \in other <=>
               /\ e \in 0 .. n + 31
               /\ ~((n + 31 - (k + 1) - e \in next) <=>
                    (e \in 32 .. n + 31 - (k + 1) /\ BitSent(bytes, n + 31 - e)))
  <2> HIDE DEF next
  <2>1. QED BY DEF RowOf
<1> HIDE DEF n, next, row, other
<1>5. /\ d \in 32 .. n + 31 /\ n + 32 - (k + 1) = d /\ d - d = 0 /\ n + 31 - d = k
      /\ n + 31 - (k + 1) = d - 1
  BY <1>1
<1> HIDE DEF d
<1>6. d \in row <=> cond
  BY <1>3, <1>5
<1>7. ASSUME NEW e PROVE e \in TimesX(Generator, d - 32) => e \in 0 .. n + 31
  <2>1. CASE e \in TimesX(Generator, d - 32)
    <3>1. PICK i \in Generator : e = i + (d - 32)
      BY <2>1 DEF TimesX
    <3>2. i \in 0 .. 32
      BY DEF Generator
    <3>3. QED BY <1>1, <1>5, <3>1, <3>2
  <2>2. QED BY <2>1
<1>8. ASSUME NEW e \in 0 .. n + 31
      PROVE  e \in TimesX(Generator, d - 32) <=> (e = d \/ d - 1 - e \in CrcPolynomial)
  <2>1. e \in Int /\ d - 32 \in Int /\ 32 + (d - 32) = d /\ 31 + (d - 32) - e = d - 1 - e
    BY <1>1, <1>5
  <2>2. QED BY <2>1, GeneratorIsReflected
<1>9. one = IF cond THEN Xor(row, TimesX(Generator, d - 32)) ELSE row
  BY <1>5, <1>6 DEF CancelTerm
<1> HIDE DEF one
<1>10. ASSUME NEW e \in 0 .. n + 31
       PROVE  e \in one <=>
                ~((e \in row) <=> (cond /\ (e = d \/ d - 1 - e \in CrcPolynomial)))
  BY <1>8, <1>9 DEF Xor
<1>11. ASSUME NEW e \in 0 .. n + 31 PROVE e \in one <=> e \in other
  <2>1. /\ d - 1 - e \in Int /\ (d - 1 - e) + 1 = d - e /\ (d - e = 0 <=> e = d)
        /\ (e \in 32 .. d - 1 <=> (e \in 32 .. d /\ e # d))
    BY <1>1, <1>5
  <2>2. d - 1 - e \in next <=>
          ~((d - e \in word /\ e # d) <=> (cond /\ d - 1 - e \in CrcPolynomial))
    BY <1>2, <2>1
  <2>3. e \in other <=>
          ~((d - 1 - e \in next) <=> (e \in 32 .. d - 1 /\ BitSent(bytes, n + 31 - e)))
    <3>1. n + 31 - (k + 1) - e = d - 1 - e /\ 32 .. n + 31 - (k + 1) = 32 .. d - 1
      BY <1>1, <1>5
    <3>2. e \in other <=> ~((n + 31 - (k + 1) - e \in next) <=>
                           (e \in 32 .. n + 31 - (k + 1) /\ BitSent(bytes, n + 31 - e)))
      BY <1>4, Zenon
    <3>3. QED BY <3>1, <3>2, Zenon
  <2>4. e \in row <=> ~((d - e \in word) <=> (e \in 32 .. d /\ BitSent(bytes, n + 31 - e)))
    BY <1>3
  <2>5. CASE e = d
    <3>1. d - 1 - e = -1 /\ -1 \notin CrcPolynomial
      BY <1>1, <1>5, <2>5 DEF CrcPolynomial
    <3>2. e \notin other
      BY <2>1, <2>2, <2>3, <2>5, <3>1
    <3>3. e \notin one
      BY <1>6, <1>10, <2>5
    <3>4. QED BY <3>2, <3>3
  <2>6. CASE e # d
    BY <1>10, <2>1, <2>2, <2>3, <2>4, <2>6
  <2>7. QED BY <2>5, <2>6
<1>12. ASSUME NEW e, e \in one \/ e \in other PROVE e \in 0 .. n + 31
  <2>1. CASE e \in other
    BY <1>4, <2>1
  <2>2. CASE e \in one
    <3>1. e \in row \/ e \in TimesX(Generator, d - 32)
      BY <1>9, <2>2 DEF Xor
    <3>2. QED BY <1>3, <1>7, <3>1
  <2>3. QED BY <1>12, <2>1, <2>2
<1>13. one = other
  BY <1>11, <1>12
<1>14. QED BY <1>13 DEF one, row, other, next, n

Divides(row, bytes) ==
  \A k \in 1 .. 8 * Len(bytes) : row[k] = CancelTerm(row[k - 1], 8 * Len(bytes) + 32 - k)

\* A byte is eight rows.
LEMMA NextByteIsRows ==
  ASSUME NEW bytes, Len(bytes) \in Nat, NEW b \in 0 .. Len(bytes) - 1, NEW word \in Word,
         NEW row, row[8 * b] = RowOf(word, bytes, 8 * b), Divides(row, bytes)
  PROVE  row[8 * (b + 1)] = RowOf(crc32_next_byte(word, bytes[b + 1]), bytes, 8 * (b + 1))
<1> DEFINE bits == BitsOf(bytes[b + 1])
           Turn(w, i) == CrcBit(w, bits, i)
           Row(w, i) == row[8 * b + i] = RowOf(w, bytes, 8 * b + i)
<1>1. ASSUME NEW w \in Word, NEW i \in 0 .. 7, Row(w, i)
      PROVE  Turn(w, i) \in Word /\ Row(Turn(w, i), i + 1)
  <2> DEFINE k == 8 * b + i
  <2>1. /\ k \in 0 .. 8 * Len(bytes) - 1 /\ k + 1 \in 1 .. 8 * Len(bytes)
        /\ (k + 1) - 1 = k /\ k + 1 = 8 * b + (i + 1)
        /\ k \div 8 = b /\ k % 8 = i
    <3>1. \A l \in Nat : b <= l - 1 => 8 * b + i + 1 <= 8 * l
      OBVIOUS
    <3>2. k \div 8 = b /\ k % 8 = i
      OBVIOUS
    <3>3. k \in Nat /\ k + 1 <= 8 * Len(bytes) /\ k + 1 = 8 * b + (i + 1)
      BY <3>1
    <3> HIDE DEF k
    <3>4. QED BY <3>2, <3>3
  <2>2. row[k + 1] = CancelTerm(row[k], 8 * Len(bytes) + 32 - (k + 1))
    BY <2>1 DEF Divides
  <2> HIDE DEF k
  <2>3. CancelTerm(RowOf(w, bytes, k), 8 * Len(bytes) + 32 - (k + 1))
          = RowOf(CrcBit(w, BitsOf(bytes[k \div 8 + 1]), k % 8), bytes, k + 1)
    BY <2>1, NextRow
  <2>4. row[k + 1] = RowOf(Turn(w, i), bytes, k + 1)
    BY <1>1, <2>1, <2>2, <2>3 DEF k
  <2>5. Turn(w, i) \in Word
    BY CrcBitType
  <2>6. QED BY <2>1, <2>4, <2>5
<1> DEFINE c1 == Turn(word, 0)
           c2 == Turn(c1, 1)
           c3 == Turn(c2, 2)
           c4 == Turn(c3, 3)
           c5 == Turn(c4, 4)
           c6 == Turn(c5, 5)
           c7 == Turn(c6, 6)
<1>2. crc32_next_byte(word, bytes[b + 1]) = Turn(c7, 7)
  BY DEF crc32_next_byte
<1>3. 8 * b + 0 = 8 * b /\ 8 * b + 8 = 8 * (b + 1)
  OBVIOUS
<1>4. Row(word, 0)
  BY <1>3
<1> HIDE DEF Turn, Row
<1>5. \A w \in Word : \A i \in 0 .. 7 : Row(w, i) => Turn(w, i) \in Word /\ Row(Turn(w, i), i + 1)
  BY <1>1
<1>6. c1 \in Word /\ Row(c1, 1) /\ c2 \in Word /\ Row(c2, 2)
  BY <1>4, <1>5
<1>7. c3 \in Word /\ Row(c3, 3) /\ c4 \in Word /\ Row(c4, 4)
  BY <1>5, <1>6
<1>8. c5 \in Word /\ Row(c5, 5) /\ c6 \in Word /\ Row(c6, 6)
  BY <1>5, <1>7
<1>9. c7 \in Word /\ Row(c7, 7) /\ Row(Turn(c7, 7), 8)
  BY <1>5, <1>8
<1>10. QED BY <1>2, <1>3, <1>9 DEF Row

Mirror(word) == { 31 - i : i \in word }

\* The register of a message, from byte to byte.
Fed(crc, bytes) ==
  /\ crc[0] = CrcInit
  /\ \A b \in 0 .. Len(bytes) - 1 : crc[b + 1] = crc32_next_byte(crc[b], bytes[b + 1])

\* When the message has been read, the row is the register.
LEMMA LastRow ==
  ASSUME NEW bytes, Len(bytes) \in Nat, NEW crc, Fed(crc, bytes)
  PROVE  /\ crc[Len(bytes)] \in Word
         /\ RemainderOf(Dividend(bytes), 8 * Len(bytes)) = Mirror(crc[Len(bytes)])
<1> DEFINE n == 8 * Len(bytes)
           row == DivisionRow(Dividend(bytes), n)
           S == { b \in Nat : b <= Len(bytes) =>
                    crc[b] \in Word /\ row[8 * b] = RowOf(crc[b], bytes, 8 * b) }
<1>1. Dividend(bytes) = RowOf(CrcInit, bytes, 0) /\ Dividend(bytes) \in SUBSET Int /\ n \in Nat
  BY FirstRow DEF RowOf
<1>2. row[0] = Dividend(bytes) /\ Divides(row, bytes)
  BY <1>1, DivisionRows DEF Divides
<1> HIDE DEF row
<1>3. 0 \in S
  <2>1. crc[0] \in Word /\ row[8 * 0] = RowOf(crc[0], bytes, 8 * 0)
    BY <1>1, <1>2 DEF Fed, CrcInit, Word
  <2>2. QED BY <2>1
<1>4. ASSUME NEW b \in Nat, b \in S PROVE b + 1 \in S
  <2>1. CASE b + 1 <= Len(bytes)
    <3>1. b \in 0 .. Len(bytes) - 1 /\ crc[b] \in Word /\ row[8 * b] = RowOf(crc[b], bytes, 8 * b)
      BY <1>4, <2>1
    <3>2. crc[b + 1] = crc32_next_byte(crc[b], bytes[b + 1])
      BY <3>1 DEF Fed
    <3>3. row[8 * (b + 1)] = RowOf(crc[b + 1], bytes, 8 * (b + 1))
      BY <1>2, <3>1, <3>2, NextByteIsRows
    <3>4. crc[b + 1] \in Word
      BY <3>1, <3>2, CrcType
    <3>5. QED BY <3>3, <3>4
  <2>2. QED BY <2>1
<1>5. Len(bytes) \in S
  <2> HIDE DEF S
  <2>1. QED BY <1>3, <1>4, AllNumbers
<1>6. crc[Len(bytes)] \in Word /\ row[n] = RowOf(crc[Len(bytes)], bytes, n)
  BY <1>5
<1> DEFINE w == crc[Len(bytes)]
<1>7. w \in Word
  BY <1>6
<1> HIDE DEF w
<1>8. RowOf(w, bytes, n) = Mirror(w)
  <2>1. ASSUME NEW e
        PROVE  e \in RowOf(w, bytes, n) <=>
                 /\ e \in 0 .. n + 31
                 /\ ~((n + 31 - n - e \in w) <=>
                      (e \in 32 .. n + 31 - n /\ BitSent(bytes, n + 31 - e)))
    BY DEF RowOf
  <2> HIDE DEF n
  <2>2. 32 .. n + 31 - n = {} /\ \A e \in Int : n + 31 - n - e = 31 - e
    BY <1>1
  <2>3. ASSUME NEW e \in 0 .. n + 31
        PROVE  e \in RowOf(w, bytes, n) <=> 31 - e \in w
    <3>1. e \in Int
      BY <1>1
    <3>2. n + 31 - n - e = 31 - e /\ e \notin 32 .. n + 31 - n
      BY <2>2, <3>1
    <3>3. QED BY <2>1, <3>2
  <2>4. ASSUME NEW e PROVE e \in Mirror(w) <=> (e \in 0 .. n + 31 /\ 31 - e \in w)
    <3>1. ASSUME e \in Mirror(w) PROVE e \in 0 .. n + 31 /\ 31 - e \in w
      BY <1>1, <1>7, <3>1 DEF Mirror, Word
    <3>2. ASSUME e \in 0 .. n + 31, 31 - e \in w PROVE e \in Mirror(w)
      <4>1. e = 31 - (31 - e)
        BY <1>1, <3>2
      <4>2. QED BY <3>2, <4>1 DEF Mirror
    <3>3. QED BY <3>1, <3>2
  <2>5. QED BY <2>1, <2>3, <2>4
<1>9. QED BY <1>6, <1>8 DEF RemainderOf, row, w

\* The bits of a byte of a word are bits of the word.
LEMMA BitsOfWordByte ==
  ASSUME NEW word, NEW k
  PROVE  BitsOf(WordByte(word, k)) = { i \in 0 .. 7 : 8 * k + i \in word }
<1> DEFINE bit(i) == IF 8 * k + i \in word THEN 1 ELSE 0
           byte == bit(0) + 2 * bit(1) + 4 * bit(2) + 8 * bit(3) + 16 * bit(4) + 32 * bit(5)
                     + 64 * bit(6) + 128 * bit(7)
<1>1. /\ 2 ^ 0 = 1 /\ 2 ^ 1 = 2 /\ 2 ^ 2 = 4 /\ 2 ^ 3 = 8
      /\ 2 ^ 4 = 16 /\ 2 ^ 5 = 32 /\ 2 ^ 6 = 64 /\ 2 ^ 7 = 128
  OBVIOUS
<1>2. WordByte(word, k) = byte
  BY <1>1 DEF WordByte
<1>3. \A i \in 0 .. 7 : bit(i) \in 0 .. 1 /\ (bit(i) = 1 <=> 8 * k + i \in word)
  OBVIOUS
<1> HIDE DEF bit
<1>4. /\ (byte \div 1) % 2 = bit(0) /\ (byte \div 2) % 2 = bit(1)
      /\ (byte \div 4) % 2 = bit(2) /\ (byte \div 8) % 2 = bit(3)
      /\ (byte \div 16) % 2 = bit(4) /\ (byte \div 32) % 2 = bit(5)
      /\ (byte \div 64) % 2 = bit(6) /\ (byte \div 128) % 2 = bit(7)
  BY <1>3
<1> HIDE DEF byte
<1>5. ASSUME NEW i \in 0 .. 7 PROVE (byte \div 2 ^ i) % 2 = bit(i)
  <2>1. i = 0 \/ i = 1 \/ i = 2 \/ i = 3 \/ i = 4 \/ i = 5 \/ i = 6 \/ i = 7
    OBVIOUS
  <2>2. QED BY <1>1, <1>4, <2>1, Zenon
<1>6. BitsOf(byte) = { i \in 0 .. 7 : bit(i) = 1 }
  BY <1>5 DEF BitsOf
<1>7. QED BY <1>2, <1>3, <1>6

\* The FCS bytes have the register's bits, complemented and the lowest first.
LEMMA FcsIsMirrored ==
  ASSUME NEW word \in Word
  PROVE  FcsPolynomial(FcsBytesOf(word)) = Complement(Mirror(word))
<1> DEFINE fcs == FcsBytesOf(word)
<1>1. ASSUME NEW i \in 0 .. 31
      PROVE  (i % 8) \in BitsOf(fcs[i \div 8 + 1]) <=> i \notin word
  <2>1. i \div 8 \in 0 .. 3 /\ i % 8 \in 0 .. 7 /\ 8 * (i \div 8) + (i % 8) = i
    OBVIOUS
  <2>2. fcs[i \div 8 + 1] = WordByte(Complement(word), i \div 8)
    BY <2>1 DEF FcsBytesOf
  <2> HIDE DEF fcs
  <2>3. (i % 8) \in BitsOf(fcs[i \div 8 + 1]) <=> i \in Complement(word)
    BY <2>1, <2>2, BitsOfWordByte
  <2>4. QED BY <2>3 DEF Complement
<1>2. FcsPolynomial(fcs) = { 31 - j : j \in { i \in 0 .. 31 : i \notin word } }
  BY <1>1 DEF FcsPolynomial
<1> HIDE DEF fcs
<1>3. ASSUME NEW e PROVE e \in FcsPolynomial(fcs) <=> (e \in 0 .. 31 /\ 31 - e \notin word)
  <2>1. ASSUME e \in FcsPolynomial(fcs) PROVE e \in 0 .. 31 /\ 31 - e \notin word
    <3>1. PICK j \in 0 .. 31 : j \notin word /\ e = 31 - j
      BY <1>2, <2>1
    <3>2. 31 - (31 - j) = j
      BY <3>1
    <3>3. QED BY <3>1, <3>2
  <2>2. ASSUME e \in 0 .. 31, 31 - e \notin word PROVE e \in FcsPolynomial(fcs)
    <3>1. e = 31 - (31 - e) /\ 31 - e \in 0 .. 31
      BY <2>2
    <3>2. QED BY <1>2, <2>2, <3>1
  <2>3. QED BY <2>1, <2>2
<1>4. ASSUME NEW e \in 0 .. 31 PROVE e \in Mirror(word) <=> 31 - e \in word
  <2>1. ASSUME e \in Mirror(word) PROVE 31 - e \in word
    <3>1. PICK i \in word : e = 31 - i
      BY <2>1 DEF Mirror
    <3>2. i \in 0 .. 31
      BY DEF Word
    <3>3. 31 - e = i
      BY <3>1, <3>2
    <3>4. QED BY <3>3
  <2>2. ASSUME 31 - e \in word PROVE e \in Mirror(word)
    <3>1. e = 31 - (31 - e)
      OBVIOUS
    <3>2. QED BY <2>2, <3>1 DEF Mirror
  <2>3. QED BY <2>1, <2>2
<1>5. QED BY <1>3, <1>4 DEF Complement, fcs

\* The FCS of every message is the one of IEEE 802.3.
LEMMA FcsOfRegister ==
  ASSUME NEW bytes, Len(bytes) \in Nat, NEW crc, Fed(crc, bytes)
  PROVE  FcsPolynomial(FcsBytesOf(crc[Len(bytes)])) = ReferenceFcs(bytes)
  BY LastRow, FcsIsMirrored DEF ReferenceFcs

\* The FCS at the end of every frame, as FrameIsTheHeadPacket has it, is the
\* remainder of the padded body's polynomial (ethernet_framer.h:19-31, 125-156).
THEOREM FrameFcsIsRemainder ==
  ASSUME NEW bytes, Len(bytes) \in Nat
  PROVE  FcsPolynomial(Format!FcsOf(bytes)) = ReferenceFcs(bytes)
<1> DEFINE crc == Format!CrcAfter(bytes)
<1>1. Fed(crc, bytes)
  BY CrcSteps DEF Fed
<1>2. Format!FcsOf(bytes) = FcsBytesOf(crc[Len(bytes)])
  BY SameCrc DEF Format!FcsOf, FcsBytesOf
<1> HIDE DEF crc
<1>3. QED BY <1>1, <1>2, FcsOfRegister

\* The register has been fed the message.
MessageInv ==
  /\ message \in Seq(MessageBytes)
  /\ \E crc : Fed(crc, message) /\ crc[Len(message)] = message_crc

LEMMA MessageStep == MessageInv /\ [MessageNext]_messageVars => MessageInv'
<1> SUFFICES ASSUME MessageInv, [MessageNext]_messageVars PROVE MessageInv'
  OBVIOUS
<1>1. CASE UNCHANGED messageVars
  BY <1>1 DEF MessageInv, messageVars, Fed
<1>2. ASSUME NEW byte \in MessageBytes, Feed(byte) PROVE MessageInv'
  <2>1. PICK old : Fed(old, message) /\ old[Len(message)] = message_crc
    BY DEF MessageInv
  <2> DEFINE n == Len(message)
             next == crc32_next_byte(message_crc, byte)
             crc == [b \in 0 .. n + 1 |-> IF b <= n THEN old[b] ELSE next]
  <2>2. n \in Nat /\ message \in Seq(MessageBytes)
    BY DEF MessageInv
  <2>3. /\ message' \in Seq(MessageBytes) /\ Len(message') = n + 1
        /\ message'[n + 1] = byte /\ \A b \in 1 .. n : message'[b] = message[b]
        /\ message_crc' = next
    BY <1>2, <2>2 DEF Feed
  <2>4. (\A b \in 0 .. n : crc[b] = old[b]) /\ crc[n + 1] = next
    BY <2>2
  <2> HIDE DEF n, next, crc
  <2>5. crc[0] = CrcInit
    BY <2>1, <2>2, <2>4 DEF Fed
  <2>6. ASSUME NEW b \in 0 .. n
        PROVE  crc[b + 1] = crc32_next_byte(crc[b], message'[b + 1])
    <3>1. CASE b = n
      BY <2>1, <2>2, <2>3, <2>4, <3>1 DEF n, next
    <3>2. CASE b \in 0 .. n - 1
      <4>1. old[b + 1] = crc32_next_byte(old[b], message[b + 1])
        BY <2>1, <3>2 DEF Fed, n
      <4>2. b + 1 \in 1 .. n /\ b + 1 \in 0 .. n
        BY <2>2, <3>2
      <4>3. QED BY <2>3, <2>4, <4>1, <4>2
    <3>3. QED BY <2>2, <3>1, <3>2
  <2>7. Len(message') - 1 = n
    BY <2>2, <2>3
  <2>8. Fed(crc, message') /\ crc[Len(message')] = message_crc'
    BY <2>3, <2>4, <2>5, <2>6, <2>7 DEF Fed
  <2>9. QED BY <2>3, <2>8 DEF MessageInv, Fed
<1>3. QED BY <1>1, <1>2 DEF MessageNext

LEMMA MessageHolds == MessageSpec => []MessageInv
<1>1. MessageInit => MessageInv
  <2> SUFFICES ASSUME MessageInit PROVE MessageInv
    OBVIOUS
  <2>1. message = << >> /\ message_crc = CrcInit /\ Len(message) = 0
    BY DEF MessageInit
  <2>2. Fed([b \in 0 .. 0 |-> CrcInit], message)
    BY <2>1 DEF Fed
  <2>3. [b \in 0 .. 0 |-> CrcInit][Len(message)] = message_crc
    BY <2>1
  <2>4. QED BY <2>1, <2>2, <2>3 DEF MessageInv
<1>2. QED BY <1>1, MessageStep, PTL DEF MessageSpec

\* The register's four bytes are the FCS of IEEE 802.3, for every message of
\* every length (ethernet_framer.h:19-31, 144-156).
THEOREM RegisterIsRemainder == MessageSpec => []FcsIsRemainder
<1>1. MessageInv => FcsIsRemainder
  BY FcsOfRegister DEF MessageInv, FcsIsRemainder
<1>2. QED BY <1>1, MessageHolds, PTL

----------------------------------------------------------------------------
(* The residue.  Each bit of the FCS is the complement of one that was in  *)
(* the register at the end of the message, so that what the message has    *)
(* left there drops out and what the FCS itself brings in is always the    *)
(* same.                                                                   *)

\* What is left of a word after k turns that shift it.
Above(word, k) == { j \in 0 .. 31 : j + k \in word }

\* A turn of the register that meets a one.
FedOne(crc) ==
  IF 0 \in crc THEN ShiftRight(crc) ELSE Xor(ShiftRight(crc), CrcPolynomial)

FedOnes(crc) ==
  FedOne(FedOne(FedOne(FedOne(FedOne(FedOne(FedOne(FedOne(crc))))))))

LEMMA FedOneType == ASSUME NEW crc \in Word PROVE FedOne(crc) \in Word
<1>1. FedOne(crc) = CrcBit(crc, {0}, 0)
  BY DEF FedOne, CrcBit
<1>2. QED BY <1>1, CrcBitType

\* The turn, bit for bit.
OneAfter(a, b) ==
  /\ a \in Word /\ b \in Word
  /\ \A j \in 0 .. 31 : j \in b <=> ~(j + 1 \in a <=> (0 \notin a /\ j \in CrcPolynomial))

LEMMA FedOneIs ==
  ASSUME NEW a, NEW b, OneAfter(a, b)
  PROVE  FedOne(a) = b
<1>1. a \in Word /\ b \in Word
  BY DEF OneAfter
<1>2. ASSUME NEW j \in 0 .. 31
      PROVE  j \in FedOne(a) <=> j \in b
  <2>1. j \in ShiftRight(a) <=> j + 1 \in a
    BY <1>1 DEF ShiftRight, Word
  <2>2. j \in b <=> ~(j + 1 \in a <=> (0 \notin a /\ j \in CrcPolynomial))
    BY DEF OneAfter
  <2>3. QED BY <2>1, <2>2 DEF FedOne, Xor
<1>3. FedOne(a) \in Word
  BY <1>1, FedOneType
<1>4. QED BY <1>1, <1>2, <1>3 DEF Word

LEMMA FedOnesAre ==
  ASSUME NEW a0, NEW a1, NEW a2, NEW a3, NEW a4, NEW a5, NEW a6, NEW a7, NEW a8,
         OneAfter(a0, a1), OneAfter(a1, a2), OneAfter(a2, a3), OneAfter(a3, a4),
         OneAfter(a4, a5), OneAfter(a5, a6), OneAfter(a6, a7), OneAfter(a7, a8)
  PROVE  FedOnes(a0) = a8
  BY FedOneIs DEF FedOnes

\* A turn that meets a bit of the FCS.
LEMMA TurnOfFcs ==
  ASSUME NEW word \in Word, NEW part \in Word, NEW k \in 0 .. 31,
         NEW bits, NEW i, i \in bits <=> k \notin word
  PROVE  CrcBit(Xor(Above(word, k), part), bits, i) = Xor(Above(word, k + 1), FedOne(part))
<1> DEFINE crc == Xor(Above(word, k), part)
<1>1. 0 \in Above(word, k) <=> k \in word
  BY DEF Above
<1>2. (0 \in crc) # (i \in bits) <=> ~(0 \in part)
  BY <1>1 DEF Xor
<1>3. ASSUME NEW a \in Word, NEW j \in 0 .. 31
      PROVE  j \in ShiftRight(a) <=> j + 1 \in a
  BY DEF ShiftRight, Word
<1>4. crc \in Word /\ ShiftRight(part) \in Word
  <2>1. Above(word, k) \in Word
    BY DEF Above, Word
  <2>2. crc \in Word
    BY <2>1 DEF Xor, Word
  <2>3. ShiftRight(part) \in Word
    BY DEF ShiftRight, Word
  <2>4. QED BY <2>2, <2>3
<1>5. ASSUME NEW j \in 0 .. 31
      PROVE  j \in ShiftRight(crc) <=> j \in Xor(Above(word, k + 1), ShiftRight(part))
  <2>1. j \in ShiftRight(crc) <=> j + 1 \in crc
    BY <1>3, <1>4
  <2>2. j \in ShiftRight(part) <=> j + 1 \in part
    BY <1>3
  <2>3. j + 1 \in Above(word, k) <=> j \in Above(word, k + 1)
    BY DEF Above, Word
  <2>4. QED BY <2>1, <2>2, <2>3 DEF Xor
<1>6. ShiftRight(crc) = Xor(Above(word, k + 1), ShiftRight(part))
  <2>1. Xor(Above(word, k + 1), ShiftRight(part)) \in Word
    BY <1>4 DEF Xor, Above, Word
  <2>2. ShiftRight(crc) \in Word
    BY <1>4 DEF ShiftRight, Word
  <2>3. QED BY <1>5, <2>1, <2>2 DEF Word
<1> HIDE DEF crc
<1>7. CASE 0 \in part
  <2>1. CrcBit(crc, bits, i) = ShiftRight(crc) /\ FedOne(part) = ShiftRight(part)
    BY <1>2, <1>7 DEF CrcBit, FedOne
  <2>2. QED BY <1>6, <2>1 DEF crc
<1>8. CASE 0 \notin part
  <2>1. /\ CrcBit(crc, bits, i) = Xor(ShiftRight(crc), CrcPolynomial)
        /\ FedOne(part) = Xor(ShiftRight(part), CrcPolynomial)
    BY <1>2, <1>8 DEF CrcBit, FedOne
  <2>2. \A a, b, c : Xor(Xor(a, b), c) = Xor(a, Xor(b, c))
    BY DEF Xor
  <2>3. QED BY <1>6, <2>1, <2>2 DEF crc
<1>9. QED BY <1>7, <1>8

\* A byte of the FCS.
LEMMA ByteOfFcs ==
  ASSUME NEW word \in Word, NEW part \in Word, NEW k \in 0 .. 3
  PROVE  /\ crc32_next_byte(Xor(Above(word, 8 * k), part), WordByte(Complement(word), k))
              = Xor(Above(word, 8 * (k + 1)), FedOnes(part))
         /\ FedOnes(part) \in Word
<1> DEFINE bits == BitsOf(WordByte(Complement(word), k))
           Turn(c, i) == CrcBit(c, bits, i)
           State(i, p) == Xor(Above(word, 8 * k + i), p)
<1>1. ASSUME NEW i \in 0 .. 7, NEW p \in Word
      PROVE  Turn(State(i, p), i) = State(i + 1, FedOne(p)) /\ FedOne(p) \in Word
  <2>1. 8 * k + i \in 0 .. 31 /\ (8 * k + i) + 1 = 8 * k + (i + 1)
    OBVIOUS
  <2>2. i \in bits <=> 8 * k + i \notin word
    BY <2>1, BitsOfWordByte DEF Complement
  <2> DEFINE m == 8 * k + i
  <2> HIDE DEF bits, m
  <2>3. m \in 0 .. 31 /\ (i \in bits <=> m \notin word)
    BY <2>1, <2>2 DEF m
  <2>4. CrcBit(Xor(Above(word, m), p), bits, i) = Xor(Above(word, m + 1), FedOne(p))
    BY <2>3, TurnOfFcs
  <2>5. QED BY <2>1, <2>4, FedOneType DEF m
<1> DEFINE p1 == FedOne(part)
           p2 == FedOne(p1)
           p3 == FedOne(p2)
           p4 == FedOne(p3)
           p5 == FedOne(p4)
           p6 == FedOne(p5)
           p7 == FedOne(p6)
           p8 == FedOne(p7)
<1>2. \A c : crc32_next_byte(c, WordByte(Complement(word), k))
        = Turn(Turn(Turn(Turn(Turn(Turn(Turn(Turn(c, 0), 1), 2), 3), 4), 5), 6), 7)
  BY DEF crc32_next_byte
<1>3. FedOnes(part) = p8
  BY DEF FedOnes
<1>4. 8 * k + 0 = 8 * k /\ 8 * k + 8 = 8 * (k + 1)
  OBVIOUS
<1> HIDE DEF Turn, State
<1>5. \A i \in 0 .. 7 : \A p \in Word :
        Turn(State(i, p), i) = State(i + 1, FedOne(p)) /\ FedOne(p) \in Word
  BY <1>1
<1>6. /\ Turn(State(0, part), 0) = State(1, p1) /\ p1 \in Word
      /\ Turn(State(1, p1), 1) = State(2, p2) /\ p2 \in Word
  BY <1>5
<1>7. /\ Turn(State(2, p2), 2) = State(3, p3) /\ p3 \in Word
      /\ Turn(State(3, p3), 3) = State(4, p4) /\ p4 \in Word
  BY <1>5, <1>6
<1>8. /\ Turn(State(4, p4), 4) = State(5, p5) /\ p5 \in Word
      /\ Turn(State(5, p5), 5) = State(6, p6) /\ p6 \in Word
  BY <1>5, <1>7
<1>9. /\ Turn(State(6, p6), 6) = State(7, p7) /\ p7 \in Word
      /\ Turn(State(7, p7), 7) = State(8, p8) /\ p8 \in Word
  BY <1>5, <1>8
<1>10. crc32_next_byte(State(0, part), WordByte(Complement(word), k)) = State(8, p8)
  BY <1>2, <1>6, <1>7, <1>8, <1>9
<1>11. /\ State(0, part) = Xor(Above(word, 8 * k), part)
       /\ State(8, p8) = Xor(Above(word, 8 * (k + 1)), p8)
  BY <1>4 DEF State
<1>12. QED BY <1>3, <1>9, <1>10, <1>11

\* What thirty-two ones leave in an empty register.
LEMMA ResidueOfOnes == FedOnes(FedOnes(FedOnes(FedOnes({})))) = Residue
<1>1. FedOnes({})
        = {0, 2, 3, 7, 8, 9, 10, 11, 13, 14, 15, 17, 24, 26, 27, 29}
  <2> DEFINE
    a0 == {}
    a1 == {5, 8, 9, 15, 19, 20, 21, 23, 24, 26, 27, 29, 30, 31}
    a2 == {4, 5, 7, 9, 14, 15, 18, 21, 22, 24, 25, 27, 28, 31}
    a3 == {3, 4, 5, 6, 9, 13, 14, 15, 17, 19, 29, 31}
    a4 == {2, 3, 4, 9, 12, 13, 14, 15, 16, 18, 19, 20, 21, 23, 24, 26, 27, 28, 29, 31}
    a5 == {1, 2, 3, 5, 9, 11, 12, 13, 14, 17, 18, 21, 22, 24, 25, 28, 29, 31}
    a6 == {0, 1, 2, 4, 5, 9, 10, 11, 12, 13, 15, 16, 17, 19, 26, 28, 29, 31}
    a7 == {0, 1, 3, 4, 8, 9, 10, 11, 12, 14, 15, 16, 18, 25, 27, 28, 30}
    a8 == {0, 2, 3, 7, 8, 9, 10, 11, 13, 14, 15, 17, 24, 26, 27, 29}
  <2>1. OneAfter(a0, a1)
    BY DEF OneAfter, CrcPolynomial, Word
  <2>2. OneAfter(a1, a2)
    BY DEF OneAfter, CrcPolynomial, Word
  <2>3. OneAfter(a2, a3)
    BY DEF OneAfter, CrcPolynomial, Word
  <2>4. OneAfter(a3, a4)
    BY DEF OneAfter, CrcPolynomial, Word
  <2>5. OneAfter(a4, a5)
    BY DEF OneAfter, CrcPolynomial, Word
  <2>6. OneAfter(a5, a6)
    BY DEF OneAfter, CrcPolynomial, Word
  <2>7. OneAfter(a6, a7)
    BY DEF OneAfter, CrcPolynomial, Word
  <2>8. OneAfter(a7, a8)
    BY DEF OneAfter, CrcPolynomial, Word
  <2> HIDE DEF a0, a1, a2, a3, a4, a5, a6, a7, a8
  <2>9. FedOnes(a0) = a8
    BY <2>1, <2>2, <2>3, <2>4, <2>5, <2>6, <2>7, <2>8, FedOnesAre
  <2>10. QED BY <2>9 DEF a0, a8
<1>2. FedOnes({0, 2, 3, 7, 8, 9, 10, 11, 13, 14, 15, 17, 24, 26, 27, 29})
        = {0, 1, 2, 3, 4, 5, 6, 7, 9, 12, 17, 18, 21, 25, 26, 27, 28, 29, 31}
  <2> DEFINE
    a0 == {0, 2, 3, 7, 8, 9, 10, 11, 13, 14, 15, 17, 24, 26, 27, 29}
    a1 == {1, 2, 6, 7, 8, 9, 10, 12, 13, 14, 16, 23, 25, 26, 28}
    a2 == {0, 1, 6, 7, 11, 12, 13, 19, 20, 21, 22, 23, 25, 26, 29, 30, 31}
    a3 == {0, 5, 6, 10, 11, 12, 18, 19, 20, 21, 22, 24, 25, 28, 29, 30}
    a4 == {4, 5, 9, 10, 11, 17, 18, 19, 20, 21, 23, 24, 27, 28, 29}
    a5 == {3, 4, 5, 10, 15, 16, 17, 18, 21, 22, 24, 28, 29, 30, 31}
    a6 == {2, 3, 4, 5, 8, 14, 16, 17, 19, 24, 26, 28, 31}
    a7 == {1, 2, 3, 4, 5, 7, 8, 9, 13, 16, 18, 19, 20, 21, 24, 25, 26, 29, 31}
    a8 == {0, 1, 2, 3, 4, 5, 6, 7, 9, 12, 17, 18, 21, 25, 26, 27, 28, 29, 31}
  <2>1. OneAfter(a0, a1)
    BY DEF OneAfter, CrcPolynomial, Word
  <2>2. OneAfter(a1, a2)
    BY DEF OneAfter, CrcPolynomial, Word
  <2>3. OneAfter(a2, a3)
    BY DEF OneAfter, CrcPolynomial, Word
  <2>4. OneAfter(a3, a4)
    BY DEF OneAfter, CrcPolynomial, Word
  <2>5. OneAfter(a4, a5)
    BY DEF OneAfter, CrcPolynomial, Word
  <2>6. OneAfter(a5, a6)
    BY DEF OneAfter, CrcPolynomial, Word
  <2>7. OneAfter(a6, a7)
    BY DEF OneAfter, CrcPolynomial, Word
  <2>8. OneAfter(a7, a8)
    BY DEF OneAfter, CrcPolynomial, Word
  <2> HIDE DEF a0, a1, a2, a3, a4, a5, a6, a7, a8
  <2>9. FedOnes(a0) = a8
    BY <2>1, <2>2, <2>3, <2>4, <2>5, <2>6, <2>7, <2>8, FedOnesAre
  <2>10. QED BY <2>9 DEF a0, a8
<1>3. FedOnes({0, 1, 2, 3, 4, 5, 6, 7, 9, 12, 17, 18, 21, 25, 26, 27, 28, 29, 31})
        = {1, 4, 9, 10, 13, 17, 18, 19, 20, 21, 23}
  <2> DEFINE
    a0 == {0, 1, 2, 3, 4, 5, 6, 7, 9, 12, 17, 18, 21, 25, 26, 27, 28, 29, 31}
    a1 == {0, 1, 2, 3, 4, 5, 6, 8, 11, 16, 17, 20, 24, 25, 26, 27, 28, 30}
    a2 == {0, 1, 2, 3, 4, 5, 7, 10, 15, 16, 19, 23, 24, 25, 26, 27, 29}
    a3 == {0, 1, 2, 3, 4, 6, 9, 14, 15, 18, 22, 23, 24, 25, 26, 28}
    a4 == {0, 1, 2, 3, 5, 8, 13, 14, 17, 21, 22, 23, 24, 25, 27}
    a5 == {0, 1, 2, 4, 7, 12, 13, 16, 20, 21, 22, 23, 24, 26}
    a6 == {0, 1, 3, 6, 11, 12, 15, 19, 20, 21, 22, 23, 25}
    a7 == {0, 2, 5, 10, 11, 14, 18, 19, 20, 21, 22, 24}
    a8 == {1, 4, 9, 10, 13, 17, 18, 19, 20, 21, 23}
  <2>1. OneAfter(a0, a1)
    BY DEF OneAfter, CrcPolynomial, Word
  <2>2. OneAfter(a1, a2)
    BY DEF OneAfter, CrcPolynomial, Word
  <2>3. OneAfter(a2, a3)
    BY DEF OneAfter, CrcPolynomial, Word
  <2>4. OneAfter(a3, a4)
    BY DEF OneAfter, CrcPolynomial, Word
  <2>5. OneAfter(a4, a5)
    BY DEF OneAfter, CrcPolynomial, Word
  <2>6. OneAfter(a5, a6)
    BY DEF OneAfter, CrcPolynomial, Word
  <2>7. OneAfter(a6, a7)
    BY DEF OneAfter, CrcPolynomial, Word
  <2>8. OneAfter(a7, a8)
    BY DEF OneAfter, CrcPolynomial, Word
  <2> HIDE DEF a0, a1, a2, a3, a4, a5, a6, a7, a8
  <2>9. FedOnes(a0) = a8
    BY <2>1, <2>2, <2>3, <2>4, <2>5, <2>6, <2>7, <2>8, FedOnesAre
  <2>10. QED BY <2>9 DEF a0, a8
<1>4. FedOnes({1, 4, 9, 10, 13, 17, 18, 19, 20, 21, 23})
        = {0, 1, 5, 6, 7, 13, 16, 17, 19, 20, 21, 23, 25, 26, 27, 28, 30, 31}
  <2> DEFINE
    a0 == {1, 4, 9, 10, 13, 17, 18, 19, 20, 21, 23}
    a1 == {0, 3, 5, 12, 15, 16, 17, 18, 21, 22, 23, 24, 26, 27, 29, 30, 31}
    a2 == {2, 4, 11, 14, 15, 16, 17, 20, 21, 22, 23, 25, 26, 28, 29, 30}
    a3 == {1, 3, 5, 8, 9, 10, 13, 14, 16, 22, 23, 25, 26, 28, 30, 31}
    a4 == {0, 2, 4, 5, 7, 12, 13, 19, 20, 22, 23, 25, 26, 31}
    a5 == {1, 3, 4, 6, 11, 12, 18, 19, 21, 22, 24, 25, 30}
    a6 == {0, 2, 3, 8, 9, 10, 11, 15, 17, 18, 19, 26, 27, 30, 31}
    a7 == {1, 2, 7, 8, 9, 10, 14, 16, 17, 18, 25, 26, 29, 30}
    a8 == {0, 1, 5, 6, 7, 13, 16, 17, 19, 20, 21, 23, 25, 26, 27, 28, 30, 31}
  <2>1. OneAfter(a0, a1)
    BY DEF OneAfter, CrcPolynomial, Word
  <2>2. OneAfter(a1, a2)
    BY DEF OneAfter, CrcPolynomial, Word
  <2>3. OneAfter(a2, a3)
    BY DEF OneAfter, CrcPolynomial, Word
  <2>4. OneAfter(a3, a4)
    BY DEF OneAfter, CrcPolynomial, Word
  <2>5. OneAfter(a4, a5)
    BY DEF OneAfter, CrcPolynomial, Word
  <2>6. OneAfter(a5, a6)
    BY DEF OneAfter, CrcPolynomial, Word
  <2>7. OneAfter(a6, a7)
    BY DEF OneAfter, CrcPolynomial, Word
  <2>8. OneAfter(a7, a8)
    BY DEF OneAfter, CrcPolynomial, Word
  <2> HIDE DEF a0, a1, a2, a3, a4, a5, a6, a7, a8
  <2>9. FedOnes(a0) = a8
    BY <2>1, <2>2, <2>3, <2>4, <2>5, <2>6, <2>7, <2>8, FedOnesAre
  <2>10. QED BY <2>9 DEF a0, a8
<1>5. QED BY <1>1, <1>2, <1>3, <1>4 DEF Residue

\* A receiver that runs the register over a message and its FCS ends with the
\* residue, whatever the message (ethernet_framer.h:19-31, 144-156).
THEOREM ResidueIsLeft == MessageSpec => []FcsLeavesResidue
<1>1. ASSUME MessageInv PROVE FcsLeavesResidue
  <2> DEFINE w == message_crc
             fcs == FcsBytesOf(w)
             p1 == FedOnes({})
             p2 == FedOnes(p1)
             p3 == FedOnes(p2)
             p4 == FedOnes(p3)
             State(k, p) == Xor(Above(w, 8 * k), p)
  <2>1. w \in Word
    BY <1>1, LastRow DEF MessageInv
  <2>2. {} \in Word
    BY DEF Word
  <2>3. /\ fcs[1] = WordByte(Complement(w), 0) /\ fcs[2] = WordByte(Complement(w), 1)
        /\ fcs[3] = WordByte(Complement(w), 2) /\ fcs[4] = WordByte(Complement(w), 3)
    BY DEF FcsBytesOf
  <2>4. State(0, {}) = w
    <3>1. \A j \in 0 .. 31 : j \in Above(w, 8 * 0) <=> j \in w
      BY DEF Above
    <3>2. Above(w, 8 * 0) = w
      BY <2>1, <3>1 DEF Above, Word
    <3>3. QED BY <3>2 DEF Xor
  <2>5. State(4, p4) = p4
    <3>1. Above(w, 8 * 4) = {}
      BY <2>1 DEF Above, Word
    <3>2. QED BY <3>1 DEF Xor
  <2> HIDE DEF w, fcs
  <2>6. ASSUME NEW k \in 0 .. 3, NEW p \in Word
        PROVE  /\ crc32_next_byte(State(k, p), WordByte(Complement(w), k))
                    = State(k + 1, FedOnes(p))
               /\ FedOnes(p) \in Word
    BY <2>1, ByteOfFcs
  <2> HIDE DEF State
  <2>7. crc32_next_byte(w, fcs[1]) = State(1, p1) /\ p1 \in Word
    BY <2>2, <2>3, <2>4, <2>6
  <2>8. crc32_next_byte(State(1, p1), fcs[2]) = State(2, p2) /\ p2 \in Word
    BY <2>3, <2>6, <2>7
  <2>9. crc32_next_byte(State(2, p2), fcs[3]) = State(3, p3) /\ p3 \in Word
    BY <2>3, <2>6, <2>8
  <2>10. crc32_next_byte(State(3, p3), fcs[4]) = State(4, p4)
    BY <2>3, <2>6, <2>9
  <2>11. p4 = Residue
    BY ResidueOfOnes
  <2>12. QED
    BY <2>5, <2>7, <2>8, <2>9, <2>10, <2>11 DEF FcsLeavesResidue, w, fcs
<1>2. MessageInv => FcsLeavesResidue
  BY <1>1
<1>3. QED BY <1>2, MessageHolds, PTL
=============================================================================
