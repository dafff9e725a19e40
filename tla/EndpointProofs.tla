--------------------------- MODULE EndpointProofs ---------------------------
(***************************************************************************)
(* Proofs about the composition of the three steps, for every size of the  *)
(* rings and the buffers, every layout of the frames and every station.    *)
(*                                                                         *)
(* The receive path was proved about with a PHY and a consumer that are    *)
(* free to do anything within their roles.  Here the station and the       *)
(* handler are shown to keep to these roles, so that its theorems hold of  *)
(* the composition; then the frames are counted on their way.              *)
(*                                                                         *)
(* The handler was proved about from what it relies on its neighbours for. *)
(* Here each of the three steps is shown to be such a neighbour of the     *)
(* others; then the composition is compared with ArpResponder.             *)
(*                                                                         *)
(* HandlerProofs brings the constants and variables of ProtocolHandlerEnv: *)
(* its receiver and its transmitter play no part here, only what is proved *)
(* of protocol_queue_step does, and its observer in the last section.      *)
(***************************************************************************)
EXTENDS Endpoint, HandlerProofs, FiniteSetTheorems

\* The theorems about the receive path, read with the station as the PHY.
Phy == INSTANCE EthernetRxProofs WITH wire <- Wire

----------------------------------------------------------------------------
(* What the assumptions of EthernetRxProofs say here. *)

\* All sizes of the receive path are positive.
LEMMA Sizes ==
  /\ RxSlots \in Nat \ {0}
  /\ CounterMod \in Nat \ {0}
  /\ ETH_HEADER_BYTES \in Nat \ {0}
  /\ MAX_ETH_PAYLOAD_BYTES \in Nat \ {0}
  /\ FcsBytes \in Nat \ {0}
  /\ PreambleCountMax \in Nat \ {0}
  /\ ByteIndexMod \in Nat \ {0}
<1>1. MacBytes \in Nat \ {0} /\ Len(ARP_ETHERTYPE) \in Nat
  BY FramesAssumption DEF MacBytes
<1>2. ETH_HEADER_BYTES \in Nat \ {0}
  BY <1>1 DEF ETH_HEADER_BYTES
<1>3. RxSlots \in Nat \ {0} /\ CounterMod \in Nat \ {0}
  BY HandlerAssumption
<1>4. QED BY <1>2, <1>3, PathAssumption

\* The station sends bytes, and the byte index is wide enough.
LEMMA FramesOK ==
  /\ Frames \subseteq Seq(Phy!Byte) \ {<< >>}
  /\ ByteIndexMod > ETH_HEADER_BYTES + FcsBytes + MAX_ETH_PAYLOAD_BYTES
  BY StationAssumption, PathAssumption DEF Rx!Byte, Phy!Byte

----------------------------------------------------------------------------
(* Rx of Endpoint and Phy are two instances of the same definitions.  The  *)
(* lemmas of this section say so, one operation at a time.                 *)

LEMMA SameStart ==
  ASSUME NEW rxd, NEW err
  PROVE  Rx!FrameStart(rxd, err) <=> Phy!FrameStart(rxd, err)
  BY DEF Rx!FrameStart, Phy!FrameStart, Rx!LatchError, Phy!LatchError,
         Rx!FreshParser, Phy!FreshParser, Rx!ZeroHeader, Phy!ZeroHeader,
         Rx!HeaderIndex, Phy!HeaderIndex,
         Rx!RQ!packet_queue_write_slot_available, Phy!RQ!packet_queue_write_slot_available,
         Rx!RQ!packet_queue_drop_write, Phy!RQ!packet_queue_drop_write,
         Rx!RQ!Bump, Phy!RQ!Bump

LEMMA SameLowNibble ==
  ASSUME NEW rxd, NEW err
  PROVE  /\ Rx!LowNibble(rxd, err) <=> Phy!LowNibble(rxd, err)
         /\ Rx!LineIdle(err) <=> Phy!LineIdle(err)
  BY DEF Rx!LowNibble, Phy!LowNibble, Rx!LineIdle, Phy!LineIdle, Rx!LatchError, Phy!LatchError

LEMMA SameParse ==
  ASSUME NEW p, NEW byte
  PROVE  /\ Rx!ParseByte(p, byte) = Phy!ParseByte(p, byte)
         /\ Rx!StoresPayload(p, byte) <=> Phy!StoresPayload(p, byte)
  BY DEF Rx!ParseByte, Phy!ParseByte, Rx!StoresPayload, Phy!StoresPayload,
         Rx!SkipsPreamble, Phy!SkipsPreamble, Rx!SkipsSfd, Phy!SkipsSfd,
         Rx!IsDataByte, Phy!IsDataByte, Rx!DataByte, Phy!DataByte,
         Rx!TailFull, Phy!TailFull, Rx!rx_capture_payload_byte, Phy!rx_capture_payload_byte,
         Rx!SaturatedPreamble, Phy!SaturatedPreamble

LEMMA SameHighNibble ==
  ASSUME NEW rxd, NEW err
  PROVE  Rx!HighNibble(rxd, err) <=> Phy!HighNibble(rxd, err)
  BY SameParse DEF Rx!HighNibble, Phy!HighNibble, Rx!LatchError, Phy!LatchError,
         Rx!RQ!StoreByte, Phy!RQ!StoreByte

LEMMA SameEnd ==
  ASSUME NEW err
  PROVE  Rx!FrameEnd(err) <=> Phy!FrameEnd(err)
  BY DEF Rx!FrameEnd, Phy!FrameEnd, Rx!LatchError, Phy!LatchError,
         Rx!FreshParser, Phy!FreshParser, Rx!ZeroHeader, Phy!ZeroHeader,
         Rx!HeaderIndex, Phy!HeaderIndex, Rx!MetaValid, Phy!MetaValid,
         Rx!TailFull, Phy!TailFull, Rx!MetaOf, Phy!MetaOf,
         Rx!RQ!packet_queue_publish_write_slot, Phy!RQ!packet_queue_publish_write_slot,
         Rx!RQ!packet_queue_drop_write, Phy!RQ!packet_queue_drop_write,
         Rx!RQ!NextSlot, Phy!RQ!NextSlot,
         Rx!RQ!Bump, Phy!RQ!Bump

LEMMA SameStep ==
  ASSUME NEW dv, NEW rxd, NEW err
  PROVE  Rx!ethernet_rx_queue_step(dv, rxd, err) <=> Phy!ethernet_rx_queue_step(dv, rxd, err)
  BY SameStart, SameLowNibble, SameHighNibble, SameEnd
  DEF Rx!ethernet_rx_queue_step, Phy!ethernet_rx_queue_step

LEMMA SameConsume ==
  /\ RQ!packet_queue_read_slot_valid(rx_queue) <=> Phy!RQ!packet_queue_read_slot_valid(rx_queue)
  /\ Rx!RQ!packet_queue_read_slot_valid(rx_queue) <=> Phy!RQ!packet_queue_read_slot_valid(rx_queue)
  /\ RQ!packet_queue_consume_read_slot(rx_queue) = Phy!RQ!packet_queue_consume_read_slot(rx_queue)
  /\ Rx!RQ!packet_queue_consume_read_slot(rx_queue) = Phy!RQ!packet_queue_consume_read_slot(rx_queue)
  BY DEF RQ!packet_queue_read_slot_valid, Rx!RQ!packet_queue_read_slot_valid,
     Phy!RQ!packet_queue_read_slot_valid,
     RQ!packet_queue_consume_read_slot, Rx!RQ!packet_queue_consume_read_slot,
     Phy!RQ!packet_queue_consume_read_slot,
     RQ!NextSlot, Rx!RQ!NextSlot, Phy!RQ!NextSlot

LEMMA SameWire == Rx!WireNext <=> Phy!WireNext
<1>1. \A f, n : Rx!NibbleAt(f, n) = Phy!NibbleAt(f, n)
  BY DEF Rx!NibbleAt, Phy!NibbleAt
<1>2. Rx!NoFrame = Phy!NoFrame /\ Rx!RQ!Slot = Phy!RQ!Slot
  BY DEF Rx!NoFrame, Phy!NoFrame, Rx!RQ!Slot, Phy!RQ!Slot
<1>3. \A err : Rx!PhyStart(err) <=> Phy!PhyStart(err)
  BY <1>1, <1>2, SameStep DEF Rx!PhyStart, Phy!PhyStart
<1>4. \A err : Rx!PhyNibble(err) <=> Phy!PhyNibble(err)
  BY <1>1, <1>2, SameStep DEF Rx!PhyNibble, Phy!PhyNibble
<1>5. \A err : /\ Rx!PhyStop(err) <=> Phy!PhyStop(err)
               /\ Rx!PhyIdle(err) <=> Phy!PhyIdle(err)
  BY <1>2, SameStep DEF Rx!PhyStop, Phy!PhyStop, Rx!PhyIdle, Phy!PhyIdle
<1>6. Rx!Consume <=> Phy!Consume
  BY SameConsume DEF Rx!Consume, Phy!Consume, Rx!ConsumePacket, Phy!ConsumePacket
<1>7. QED BY <1>3, <1>4, <1>5, <1>6 DEF Rx!WireNext, Phy!WireNext

LEMMA SameWireInit == Rx!WireInit <=> Phy!WireInit
  BY DEF Rx!WireInit, Phy!WireInit, Rx!Init, Phy!Init, Rx!NoFrame, Phy!NoFrame,
         Rx!FreshParser, Phy!FreshParser, Rx!ZeroHeader, Phy!ZeroHeader,
         Rx!ZeroMeta, Phy!ZeroMeta, Rx!ZeroPayload, Phy!ZeroPayload,
         Rx!HeaderIndex, Phy!HeaderIndex, Rx!PayloadIndex, Phy!PayloadIndex,
         Rx!RQ!EmptyQueue, Phy!RQ!EmptyQueue, Rx!RQ!Slot, Phy!RQ!Slot

----------------------------------------------------------------------------
(* The station and the handler as PHY and consumer. *)

\* The record of the station holds a frame of Frames, or none.
SenderOK ==
  /\ DOMAIN sender = {"frame", "nibbles", "pause", "begun", "ended"}
  /\ sender.frame \in Frames \union {<< >>}
  /\ Sending => sender.nibbles \in 1 .. 2 * Len(sender.frame)

\* The agreement of the station with the assembler, and of the handler with
\* the ring.
Agreed ==
  /\ SenderOK
  /\ assembler.in_frame <=> Sending
  /\ ~Sending => ~rx_drop_current
  /\ protocol_state = "PROTO_PARSE_ARP" => RQ!packet_queue_read_slot_valid(rx_queue)

\* The invariant: with it a call of the composition is a step of the receive
\* path between its neighbours.
Driven == Agreed /\ Phy!WireOK /\ Phy!TypeOK /\ Phy!AdmittedFrameOwnsSlot

\* Every frame of the station is a non-empty sequence of bytes.
LEMMA FramesAreBytes ==
  \A frame \in Frames : /\ frame \in Seq(Phy!Byte) /\ frame # << >>
                        /\ Len(frame) \in Nat \ {0}
  BY FramesOK

----------------------------------------------------------------------------
(* The station's steps as those of the PHY. *)

WireRecord(frame, nibbles, errored, admitted) ==
  [frame |-> frame, nibbles |-> nibbles, errored |-> errored, admitted |-> admitted]

\* The wire record with its error field, or with nibbles and error field, set.
LEMMA WireRecordErrored ==
  ASSUME NEW a, NEW b, NEW c, NEW d, NEW err
  PROVE  [WireRecord(a, b, c, d) EXCEPT !.errored = err] = WireRecord(a, b, err, d)
  BY DEF WireRecord

MovedOn(w, n, err) == [w EXCEPT !.nibbles = n, !.errored = err]

LEMMA WireRecordMovesOn ==
  ASSUME NEW a, NEW b, NEW c, NEW d, NEW k, NEW err
  PROVE  MovedOn(WireRecord(a, b, c, d), k, err) = WireRecord(a, k, err, d)
<1> DEFINE Fields == {"frame", "nibbles", "errored", "admitted"}
           moved == MovedOn(WireRecord(a, b, c, d), k, err)
<1>1. moved = [x \in Fields |-> moved[x]]
  BY DEF WireRecord, MovedOn
<1>2. moved.frame = a /\ moved.nibbles = k /\ moved.errored = err /\ moved.admitted = d
  BY DEF WireRecord, MovedOn
<1>3. WireRecord(a, k, err, d) = [x \in Fields |-> moved[x]]
  <2> HIDE DEF moved
  <2>1. QED BY <1>2 DEF WireRecord
<1>4. QED BY <1>1, <1>3

\* The first nibble; the frame is admitted if any slot is free.
LEMMA StartsAsPhy ==
  ASSUME Driven, BeginFrame
  PROVE  Phy!PhyStart(FALSE) /\ SenderOK' /\ (assembler'.in_frame <=> Sending') /\ Sending'
<1>1. PICK frame \in Frames :
        /\ ~Sending
        /\ ReceiveCycle(TRUE, Format!NibblesOf(frame)[1])
        /\ sender' = [sender EXCEPT !.frame = frame, !.nibbles = 1, !.begun = @ + 1]
  BY DEF BeginFrame
<1>2. frame \in Seq(Phy!Byte) /\ frame # << >> /\ Len(frame) \in Nat \ {0}
  BY FramesAreBytes
<1>3. Format!NibblesOf(frame)[1] = Phy!NibbleAt(frame, 0)
  <2>1. 1 \in 1 .. 2 * Len(frame) /\ (1 + 1) \div 2 = 1 /\ 1 % 2 = 1
        /\ 0 \div 2 + 1 = 1 /\ 0 % 2 = 0
    BY <1>2
  <2>2. QED BY <2>1 DEF Format!NibblesOf, Phy!NibbleAt
<1>4. ~assembler.in_frame
  BY <1>1 DEF Driven, Agreed
<1>5. /\ sender'.frame = frame /\ sender'.nibbles = 1
      /\ DOMAIN sender' = DOMAIN sender
  BY <1>1 DEF Driven, Agreed, SenderOK
<1>6. Sending' /\ SenderOK'
  <2>1. 1 \in 1 .. 2 * Len(frame)
    BY <1>2
  <2>2. QED BY <1>2, <1>5, <2>1 DEF Driven, Agreed, SenderOK, Sending
<1>7. Phy!ethernet_rx_queue_step(TRUE, Phy!NibbleAt(frame, 0), FALSE)
  BY <1>1, <1>3, SameStep DEF ReceiveCycle
<1>8. Phy!FrameStart(Phy!NibbleAt(frame, 0), FALSE)
  BY <1>4, <1>7 DEF Phy!ethernet_rx_queue_step, Phy!LowNibble, Phy!HighNibble
<1>9. ~rx_drop_current' <=> \E s \in Phy!RQ!Slot : ~rx_queue.valid[s]
  <2>1. rx_queue \in Phy!QType /\ Phy!RQ!RingShape(rx_queue)
    BY DEF Driven, Agreed, Phy!TypeOK, Phy!QType, Phy!AdmittedFrameOwnsSlot
  <2>2. (\E s \in Phy!RQ!Slot : ~rx_queue.valid[s]) <=> ~rx_queue.valid[rx_queue.write_idx]
    BY <2>1, Sizes, FramesOK, Phy!FreeSlotIsNext
  <2>3. QED
    BY <1>8, <2>2 DEF Phy!FrameStart, Phy!RQ!packet_queue_write_slot_available
<1>10. Wire' = [frame |-> frame, nibbles |-> 1, errored |-> FALSE,
                admitted |-> \E s \in Phy!RQ!Slot : ~rx_queue.valid[s]]
  <2>1. Wire' = [frame |-> frame, nibbles |-> 1, errored |-> FALSE,
                 admitted |-> ~rx_drop_current']
    BY <1>5, <1>6 DEF Wire
  <2> DEFINE free == \E s \in Phy!RQ!Slot : ~rx_queue.valid[s]
             refused == ~rx_drop_current'
  <2>2. refused = free
    BY <1>9
  <2>3. Wire' = [frame |-> frame, nibbles |-> 1, errored |-> FALSE, admitted |-> refused]
    BY <2>1
  <2> HIDE DEF free, refused
  <2>4. Wire' = [frame |-> frame, nibbles |-> 1, errored |-> FALSE, admitted |-> free]
    BY <2>2, <2>3
  <2>5. QED BY <2>4 DEF free
<1>11. Phy!PhyStart(FALSE)
  BY <1>4, <1>7, <1>10 DEF Phy!PhyStart
<1>12. assembler'.in_frame
  BY <1>8 DEF Phy!FrameStart
<1>13. QED BY <1>6, <1>11, <1>12

\* The n-th nibble the station presents is the one the PHY would.
LEMMA NibblesInOrder ==
  ASSUME NEW frame \in Seq(Phy!Byte), NEW n \in 0 .. 2 * Len(frame) - 1
  PROVE  Format!NibblesOf(frame)[n + 1] = Phy!NibbleAt(frame, n)
<1>1. n \in Nat /\ n + 1 \in 1 .. 2 * Len(frame)
  OBVIOUS
<1>2. (n + 1 + 1) \div 2 = n \div 2 + 1 /\ ((n + 1) % 2 = 1 <=> n % 2 = 0)
  BY <1>1
<1>3. Format!NibblesOf(frame)[n + 1] =
        LET byte == frame[(n + 1 + 1) \div 2]
        IN  IF (n + 1) % 2 = 1 THEN byte % 16 ELSE byte \div 16
  BY <1>1 DEF Format!NibblesOf
<1> DEFINE at == (n + 1 + 1) \div 2
           odd == (n + 1) % 2 = 1
<1>4. at = n \div 2 + 1 /\ (odd <=> n % 2 = 0)
  BY <1>2
<1>5. Format!NibblesOf(frame)[n + 1] =
        IF odd THEN frame[at] % 16 ELSE frame[at] \div 16
  BY <1>3
<1> HIDE DEF at, odd
<1>6. CASE odd
  BY <1>4, <1>5, <1>6 DEF Phy!NibbleAt
<1>7. CASE ~odd
  BY <1>4, <1>5, <1>7 DEF Phy!NibbleAt
<1>8. QED BY <1>6, <1>7

\* A nibble in the middle.
LEMMA SendsAsPhy ==
  ASSUME Driven, SendNibble
  PROVE  Phy!PhyNibble(FALSE) /\ SenderOK' /\ (assembler'.in_frame <=> Sending') /\ Sending'
<1> DEFINE f == sender.frame
           n == sender.nibbles
<1>1. /\ Sending /\ f \in Seq(Phy!Byte) /\ f # << >> /\ Len(f) \in Nat
      /\ n \in 1 .. 2 * Len(f) /\ n # 2 * Len(f)
  BY FramesAreBytes DEF Driven, Agreed, SenderOK, SendNibble, Sending, LastNibbleSent
<1>2. /\ ReceiveCycle(TRUE, Format!NibblesOf(f)[n + 1])
      /\ sender' = [sender EXCEPT !.nibbles = @ + 1]
  BY DEF SendNibble
<1>3. n \in 0 .. 2 * Len(f) - 1 /\ n + 1 \in 1 .. 2 * Len(f) /\ n < 2 * Len(f)
  BY <1>1
<1>4. assembler.in_frame
  BY <1>1 DEF Driven, Agreed
<1>5. sender'.frame = f /\ sender'.nibbles = n + 1 /\ DOMAIN sender' = DOMAIN sender
  BY <1>2 DEF Driven, Agreed, SenderOK
<1>6. Sending' /\ SenderOK'
  BY <1>1, <1>3, <1>5 DEF Driven, Agreed, SenderOK, Sending
<1>7. Wire = [frame |-> f, nibbles |-> n, errored |-> FALSE, admitted |-> ~rx_drop_current]
  BY <1>1 DEF Wire
<1>8. Phy!ethernet_rx_queue_step(TRUE, Phy!NibbleAt(f, n), FALSE)
  BY <1>1, <1>2, <1>3, NibblesInOrder, SameStep DEF ReceiveCycle
<1>9. /\ assembler'.in_frame
      /\ rx_drop_current' = rx_drop_current
  BY <1>4, <1>8
  DEF Phy!ethernet_rx_queue_step, Phy!LowNibble, Phy!HighNibble, Phy!FrameStart,
      Driven, Agreed, Phy!TypeOK
<1>10. Wire' = [frame |-> f, nibbles |-> n + 1, errored |-> FALSE,
                admitted |-> ~rx_drop_current]
  BY <1>5, <1>6, <1>9 DEF Wire
<1>11. Wire' = [Wire EXCEPT !.nibbles = @ + 1, !.errored = @ \/ FALSE]
  <2> DEFINE e == Wire.errored \/ FALSE
             a == ~rx_drop_current
             m == n + 1
  <2>1. e = FALSE
    BY <1>7
  <2>2. /\ Wire = [frame |-> f, nibbles |-> n, errored |-> FALSE, admitted |-> a]
        /\ Wire' = [frame |-> f, nibbles |-> m, errored |-> FALSE, admitted |-> a]
    BY <1>7, <1>10
  <2>3. Wire.nibbles + 1 = m
    BY <1>7
  <2> HIDE DEF e, a, f, n, m
  <2>4. Wire = WireRecord(f, n, e, a) /\ Wire' = WireRecord(f, m, e, a)
    BY <2>1, <2>2 DEF WireRecord
  <2>5. MovedOn(WireRecord(f, n, e, a), m, e) = WireRecord(f, m, e, a)
    BY ONLY WireRecordMovesOn
  <2>6. Wire' = MovedOn(Wire, m, e)
    BY ONLY <2>4, <2>5, Zenon
  <2>7. QED BY <2>3, <2>6 DEF e, MovedOn
<1>12. Phy!PhyNibble(FALSE)
  BY <1>3, <1>4, <1>7, <1>8, <1>11 DEF Phy!PhyNibble
<1>13. QED BY <1>6, <1>9, <1>12

\* eth_rx_dv falls after the last nibble.
LEMMA EndsAsPhy ==
  ASSUME Driven, EndFrame
  PROVE  /\ Phy!PhyStop(FALSE) /\ SenderOK' /\ (assembler'.in_frame <=> Sending')
         /\ ~Sending' /\ ~rx_drop_current'
<1>1. PICK pause \in Pauses :
        /\ Sending /\ LastNibbleSent
        /\ ReceiveCycle(FALSE, 0)
        /\ sender' = [sender EXCEPT !.frame = << >>, !.nibbles = 0, !.pause = pause,
                                    !.ended = RQ!Bump(@)]
  BY DEF EndFrame
<1>2. assembler.in_frame
  BY <1>1 DEF Driven, Agreed
<1>3. sender'.frame = << >> /\ DOMAIN sender' = DOMAIN sender
  BY <1>1 DEF Driven, Agreed, SenderOK
<1>4. ~Sending' /\ SenderOK'
  BY <1>3 DEF Driven, Agreed, SenderOK, Sending
<1>5. Phy!ethernet_rx_queue_step(FALSE, 0, FALSE)
  BY <1>1, SameStep DEF ReceiveCycle
<1>6. Phy!FrameEnd(FALSE)
  BY <1>2, <1>5 DEF Phy!ethernet_rx_queue_step, Phy!LineIdle
<1>7. ~assembler'.in_frame /\ ~rx_drop_current'
  BY <1>6 DEF Phy!FrameEnd, Driven, Agreed, Phy!TypeOK
<1>8. Wire' = Phy!NoFrame
  BY <1>4 DEF Wire, Phy!NoFrame
<1>9. Wire.errored = FALSE
  BY DEF Wire
<1>10. Wire' = [Phy!NoFrame EXCEPT !.errored = Wire.errored \/ FALSE]
  <2> DEFINE e == Wire.errored \/ FALSE
  <2>1. e = FALSE
    BY <1>9
  <2> HIDE DEF e
  <2>2. Phy!NoFrame = WireRecord(<< >>, 0, e, e)
    BY <2>1 DEF Phy!NoFrame, WireRecord
  <2>3. [WireRecord(<< >>, 0, e, e) EXCEPT !.errored = e] = WireRecord(<< >>, 0, e, e)
    BY WireRecordErrored
  <2>4. Wire' = [Phy!NoFrame EXCEPT !.errored = e]
    BY ONLY <1>8, <2>2, <2>3, Zenon
  <2>5. QED BY <2>4 DEF e
<1>11. Phy!PhyStop(FALSE)
  BY <1>2, <1>5, <1>10 DEF Phy!PhyStop
<1>12. QED BY <1>4, <1>7, <1>11

\* Between two frames.
LEMMA IdlesAsPhy ==
  ASSUME Driven, LeaveLineIdle
  PROVE  /\ Phy!PhyIdle(FALSE) /\ SenderOK' /\ (assembler'.in_frame <=> Sending')
         /\ ~Sending' /\ ~rx_drop_current'
<1>1. /\ ~Sending
      /\ ReceiveCycle(FALSE, 0)
      /\ sender' = [sender EXCEPT !.pause = IF @ = 0 THEN 0 ELSE @ - 1]
  BY DEF LeaveLineIdle
<1>2. ~assembler.in_frame /\ ~rx_drop_current
  BY <1>1 DEF Driven, Agreed
<1>3. sender'.frame = sender.frame /\ DOMAIN sender' = DOMAIN sender
  BY <1>1 DEF Driven, Agreed, SenderOK
<1>4. ~Sending' /\ SenderOK'
  BY <1>1, <1>3 DEF Driven, Agreed, SenderOK, Sending
<1>5. Phy!ethernet_rx_queue_step(FALSE, 0, FALSE)
  BY <1>1, SameStep DEF ReceiveCycle
<1>6. Phy!LineIdle(FALSE)
  BY <1>2, <1>5 DEF Phy!ethernet_rx_queue_step, Phy!FrameEnd
<1>7. ~assembler'.in_frame /\ ~rx_drop_current'
  BY <1>2, <1>6 DEF Phy!LineIdle, Driven, Agreed, Phy!TypeOK
<1>8. Wire' = Phy!NoFrame
  BY <1>4 DEF Wire, Phy!NoFrame
<1>9. Phy!PhyIdle(FALSE)
  BY <1>2, <1>5, <1>8 DEF Phy!PhyIdle
<1>10. QED BY <1>4, <1>7, <1>9

----------------------------------------------------------------------------
(* The other steps of the call, and all of them together. *)

\* The handler frees at most the packet at the read index, and only while it
\* is valid: it looks at the flag as it takes the packet, and nobody lowers
\* the flag while it parses.
LEMMA HandlesAsConsumer ==
  ASSUME Driven, HandleCycle
  PROVE  /\ Phy!Consume \/ UNCHANGED Phy!wireVars
         /\ UNCHANGED << assembler, rx_drop_current, sender >>
         /\ protocol_state' = "PROTO_PARSE_ARP" => RQ!packet_queue_read_slot_valid(rx_queue')
<1>1. UNCHANGED << assembler, parser, rx_drop_current, sender >> /\ protocol_queue_step
  BY DEF HandleCycle, receiveVars
<1>2. Wire' = Wire
  BY <1>1 DEF Wire, Sending
<1>3. CASE UNCHANGED rx_queue
  <2>1. UNCHANGED Phy!wireVars
    BY <1>1, <1>2, <1>3 DEF Phy!wireVars, Phy!vars
  <2>2. protocol_state' = "PROTO_PARSE_ARP" => RQ!packet_queue_read_slot_valid(rx_queue)
    <3>1. CASE BeginParse
      BY <3>1 DEF BeginParse, PacketWaiting
    <3>2. CASE DropWaiting
      BY <3>2 DEF DropWaiting, PacketWaiting
    <3>3. CASE FinishArp
      BY <3>3 DEF FinishArp
    <3>4. CASE UNCHANGED protocol_state
      BY <3>4 DEF Driven, Agreed
    <3>5. QED
      BY <1>1, <3>1, <3>2, <3>3, <3>4
      DEF protocol_queue_step, Preparing, SendGratuitousArp, SendBeacon, NothingToDo, ParseArpByte
  <2>3. QED BY <1>1, <1>3, <2>1, <2>2 DEF RQ!packet_queue_read_slot_valid
<1>4. CASE DropWaiting \/ FinishArp
  <2>1. /\ RQ!packet_queue_read_slot_valid(rx_queue)
        /\ rx_queue' = RQ!packet_queue_consume_read_slot(rx_queue)
        /\ protocol_state' # "PROTO_PARSE_ARP"
    BY <1>4 DEF Driven, Agreed, DropWaiting, FinishArp, Free, PacketWaiting
  <2>2. Phy!Consume
    BY <1>1, <1>2, <2>1, SameConsume DEF Phy!Consume, Phy!ConsumePacket
  <2>3. QED BY <1>1, <2>1, <2>2
<1>5. QED
  BY <1>1, <1>3, <1>4
  DEF protocol_queue_step, Preparing, BeginParse, SendGratuitousArp, SendBeacon, NothingToDo,
      ParseArpByte

\* The transmit step does not touch the receive path.
LEMMA TransmitsAside ==
  ASSUME Driven, TransmitCycle
  PROVE  UNCHANGED << Phy!wireVars, sender, protocol_state >>
  BY DEF TransmitCycle, handlerVars, receiveVars, Phy!wireVars, Phy!vars, Wire, Sending

\* What a receive step does to the flags of the ring: it raises at most the
\* one at the write index.
LEMMA ReceivingKeepsWaiting ==
  ASSUME Driven, NEW dv \in BOOLEAN, NEW rxd, NEW err, Phy!ethernet_rx_queue_step(dv, rxd, err),
         RQ!packet_queue_read_slot_valid(rx_queue)
  PROVE  RQ!packet_queue_read_slot_valid(rx_queue')
<1>1. rx_queue \in Phy!QType /\ rx_queue.read_idx \in Phy!RQ!Slot
  BY DEF Driven, Agreed, Phy!TypeOK, Phy!QType, Phy!RQ!QueueType
<1>2. rx_queue.valid[rx_queue.read_idx]
  BY DEF RQ!packet_queue_read_slot_valid
<1>3. ASSUME NEW meta
      PROVE  LET d == Phy!RQ!packet_queue_publish_write_slot(rx_queue, meta)
             IN  d.valid[d.read_idx]
  BY <1>1, <1>2
  DEF Phy!RQ!packet_queue_publish_write_slot, Phy!RQ!packet_queue_drop_write,
      Phy!QType, Phy!RQ!QueueType
<1>4. ASSUME NEW i, NEW byte, NEW s
      PROVE  LET d == Phy!RQ!StoreByte(rx_queue, s, i, byte)
             IN  d.valid[d.read_idx]
  BY <1>1, <1>2 DEF Phy!RQ!StoreByte, Phy!QType, Phy!RQ!QueueType
<1>5. LET d == Phy!RQ!packet_queue_drop_write(rx_queue)
      IN  d.valid[d.read_idx]
  BY <1>1, <1>2 DEF Phy!RQ!packet_queue_drop_write, Phy!QType, Phy!RQ!QueueType
<1>6. \/ rx_queue' = rx_queue
      \/ \E meta : rx_queue' = Phy!RQ!packet_queue_publish_write_slot(rx_queue, meta)
      \/ \E i, byte, s : rx_queue' = Phy!RQ!StoreByte(rx_queue, s, i, byte)
      \/ rx_queue' = Phy!RQ!packet_queue_drop_write(rx_queue)
  BY DEF Phy!ethernet_rx_queue_step, Phy!FrameStart, Phy!LowNibble, Phy!HighNibble,
         Phy!FrameEnd, Phy!LineIdle
<1>7. QED BY <1>2, <1>3, <1>4, <1>5, <1>6 DEF RQ!packet_queue_read_slot_valid

\* A call of the composition is a step of the receive path with its PHY and
\* its consumer, or none of theirs.
LEMMA CallIsWireStep ==
  ASSUME Driven, [Call]_vars
  PROVE  [Phy!WireNext]_(Phy!wireVars)
<1>1. CASE BeginFrame \/ SendNibble \/ EndFrame \/ LeaveLineIdle
  <2>1. Phy!PhyStart(FALSE) \/ Phy!PhyNibble(FALSE) \/ Phy!PhyStop(FALSE) \/ Phy!PhyIdle(FALSE)
    BY <1>1, StartsAsPhy, SendsAsPhy, EndsAsPhy, IdlesAsPhy
  <2>2. QED BY <2>1 DEF Phy!WireNext
<1>2. CASE HandleCycle
  BY <1>2, HandlesAsConsumer DEF Phy!WireNext
<1>3. CASE TransmitCycle
  BY <1>3, TransmitsAside
<1>4. CASE UNCHANGED vars
  BY <1>4 DEF vars, protoVars, receiveVars, Phy!wireVars, Phy!vars, Wire, Sending
<1>5. QED BY <1>1, <1>2, <1>3, <1>4 DEF Call

\* Station and assembler, handler and ring stay in agreement.
LEMMA AgreedStep ==
  ASSUME Driven, [Call]_vars
  PROVE  Agreed'
<1>1. ASSUME BeginFrame \/ SendNibble \/ EndFrame \/ LeaveLineIdle
      PROVE  Agreed'
  <2>1. /\ SenderOK' /\ (assembler'.in_frame <=> Sending')
        /\ ~Sending' => ~rx_drop_current'
    BY <1>1, StartsAsPhy, SendsAsPhy, EndsAsPhy, IdlesAsPhy
  <2>2. /\ protocol_state' = protocol_state
        /\ \E dv \in BOOLEAN : \E rxd : Rx!ethernet_rx_queue_step(dv, rxd, FALSE)
    BY <1>1 DEF BeginFrame, SendNibble, EndFrame, LeaveLineIdle, ReceiveCycle, handlerVars
  <2>3. protocol_state' = "PROTO_PARSE_ARP" => RQ!packet_queue_read_slot_valid(rx_queue')
    BY <2>2, SameStep, ReceivingKeepsWaiting DEF Driven, Agreed
  <2>4. QED BY <2>1, <2>3 DEF Agreed, RQ!packet_queue_read_slot_valid
<1>2. CASE HandleCycle
  <2>1. /\ UNCHANGED << assembler, rx_drop_current, sender >>
        /\ protocol_state' = "PROTO_PARSE_ARP" => RQ!packet_queue_read_slot_valid(rx_queue')
    BY <1>2, HandlesAsConsumer
  <2>2. QED
    BY <2>1 DEF Driven, Agreed, SenderOK, Sending, RQ!packet_queue_read_slot_valid
<1>3. CASE UNCHANGED << Phy!wireVars, sender, protocol_state >>
  BY <1>3 DEF Driven, Agreed, SenderOK, Sending, Phy!wireVars, Phy!vars, RQ!packet_queue_read_slot_valid
<1>4. CASE UNCHANGED vars
  BY <1>4 DEF Driven, Agreed, SenderOK, Sending, vars, protoVars, handlerVars, receiveVars, RQ!packet_queue_read_slot_valid
<1>5. QED BY <1>1, <1>2, <1>3, <1>4, TransmitsAside DEF Call

\* The invariant holds at first, ...
LEMMA DrivenAtFirst == EndpointInit => Driven /\ Phy!WireInit
<1> SUFFICES ASSUME EndpointInit PROVE Driven /\ Phy!WireInit
  OBVIOUS
<1>1. PICK pause \in FirstPauses :
        sender = [frame |-> << >>, nibbles |-> 0, pause |-> pause, begun |-> 0, ended |-> 0]
  BY DEF EndpointInit
<1>2. ~Sending /\ SenderOK
  BY <1>1 DEF Sending, SenderOK
<1>3. Rx!Init /\ protocol_state = "PROTO_IDLE"
  BY DEF EndpointInit, Init
<1>4. ~assembler.in_frame /\ ~rx_drop_current
  BY <1>3 DEF Rx!Init
<1>5. Wire = Rx!NoFrame
  BY <1>2 DEF Wire, Rx!NoFrame
<1>6. Phy!WireInit
  BY <1>3, <1>5, SameWireInit DEF Rx!WireInit
<1>7. Phy!Init /\ Wire = Phy!NoFrame
  BY <1>6 DEF Phy!WireInit
<1>8. Phy!TypeOK /\ Phy!AdmittedFrameOwnsSlot
  BY <1>7, Sizes, FramesOK, Phy!TypeAtFirst, Phy!OwnerAtFirst
<1>9. Phy!WireOK
  BY <1>4, <1>7 DEF Phy!WireOK, Phy!WireFields, Phy!NoFrame
<1>10. QED BY <1>2, <1>3, <1>4, <1>6, <1>8, <1>9 DEF Driven, Agreed

\* ... is kept by every step, ...
LEMMA DrivenStep ==
  ASSUME Driven, [Call]_vars
  PROVE  Driven'
<1>1. [Phy!WireNext]_(Phy!wireVars)
  BY CallIsWireStep
<1>2. Phy!WireOK /\ Phy!TypeOK /\ Phy!AdmittedFrameOwnsSlot
  BY DEF Driven
<1>3. [Phy!Next]_(Phy!vars)
  BY <1>1, <1>2, Sizes, FramesOK, Phy!WireStepIsStep
<1>4. Phy!WireOK'
  BY <1>1, <1>2, Sizes, FramesOK, Phy!WireStep
<1>5. Phy!TypeOK'
  BY <1>2, <1>3, Sizes, FramesOK, Phy!TypeStep
<1>6. Phy!AdmittedFrameOwnsSlot'
  BY <1>2, <1>3, Sizes, FramesOK, Phy!OwnerStep
<1>7. QED BY <1>4, <1>5, <1>6, AgreedStep DEF Driven

\* ... and so every behaviour of the composition is one of the receive path
\* with its PHY and consumer.
LEMMA DrivenHolds == EndpointSafety => []Driven /\ Phy!WireSpec
<1>1. EndpointInit => Driven /\ Phy!WireInit
  BY DrivenAtFirst
<1>2. Driven /\ [Call]_vars => Driven' /\ [Phy!WireNext]_(Phy!wireVars)
  BY DrivenStep, CallIsWireStep
<1>3. QED BY <1>1, <1>2, PTL DEF EndpointSafety, Phy!WireSpec

\* The neighbours the receive step has in ethernet_l2_endpoint_hls (the wire,
\* and protocol_queue_step on the same ring) do nothing but what those of
\* EthernetRxWire may do.
THEOREM ReceivePathMeetsItsWire == EndpointSafety => ReceivePathIsDriven
<1>1. Rx!WireInit <=> Phy!WireInit
  BY SameWireInit
<1>2. [Phy!WireNext]_(Phy!wireVars) => [Rx!WireNext]_(Rx!wireVars)
  BY SameWire DEF Phy!wireVars, Rx!wireVars, Phy!vars, Rx!vars
<1>3. QED BY <1>1, <1>2, DrivenHolds, PTL DEF ReceivePathIsDriven, Rx!WireSpec, Phy!WireSpec

\* What the receive path promises holds in the whole endpoint: the packets
\* the handler finds in the RX ring are the frames of the station, whole and
\* in order, whatever the handler and the transmit step do meanwhile.
THEOREM ReceivedPacketsAreFrames ==
  EndpointSafety => Phy!PublishedIffClean /\ Phy!PublishedIsTheFrame /\ Phy!RingIsFifo
<1>1. Phy!WireSpec => Phy!PublishedIffClean
  BY Sizes, FramesOK, Phy!PublishedExactlyIfClean
<1>2. Phy!WireSpec => Phy!PublishedIsTheFrame
  BY Sizes, FramesOK, Phy!PublishedPacketIsTheFrame
<1>3. Phy!WireSpec => Phy!RingIsFifo
  BY Sizes, FramesOK, Phy!RxRingIsFifo
<1>4. QED BY <1>1, <1>2, <1>3, DrivenHolds, PTL

----------------------------------------------------------------------------
(* Counting modulo CounterMod. *)

\* Quotient and remainder, for a divisor that is a constant.
LEMMA Remainder ==
  ASSUME NEW x \in Int
  PROVE  /\ (x % CounterMod) \in 0 .. CounterMod - 1 /\ (x \div CounterMod) \in Int
         /\ x = (CounterMod * (x \div CounterMod)) + (x % CounterMod)
  BY HandlerAssumption

\* There is one remainder only.
LEMMA RemainderIsUnique ==
  ASSUME NEW k \in Int, NEW r \in 0 .. CounterMod - 1
  PROVE  ((CounterMod * k) + r) % CounterMod = r
  BY HandlerAssumption

\* Whole turns of the counter make no difference.
LEMMA TurnsDoNotCount ==
  ASSUME NEW x \in Int, NEW k \in Int
  PROVE  (x + (CounterMod * k)) % CounterMod = x % CounterMod
<1> DEFINE r == x % CounterMod
           q == x \div CounterMod
<1>1. /\ r \in 0 .. CounterMod - 1 /\ q \in Int /\ x = (CounterMod * q) + r
  BY Remainder
<1> HIDE DEF r, q
<1>2. x + (CounterMod * k) = (CounterMod * (q + k)) + r
  BY <1>1, HandlerAssumption
<1>3. ((CounterMod * (q + k)) + r) % CounterMod = r
  BY <1>1, RemainderIsUnique
<1>4. QED BY <1>2, <1>3 DEF r

\* A wrapped summand does as well as the summand.
LEMMA WrapsInSum ==
  ASSUME NEW x \in Int, NEW y \in Int
  PROVE  ((x % CounterMod) + y) % CounterMod = (x + y) % CounterMod
<1> DEFINE r == x % CounterMod
           q == x \div CounterMod
<1>1. /\ r \in 0 .. CounterMod - 1 /\ q \in Int /\ x = (CounterMod * q) + r
  BY Remainder
<1> HIDE DEF r, q
<1>2. x + y = (r + y) + (CounterMod * q) /\ r + y \in Int
  BY <1>1, HandlerAssumption
<1>3. ((r + y) + (CounterMod * q)) % CounterMod = (r + y) % CounterMod
  BY <1>1, <1>2, TurnsDoNotCount
<1>4. QED BY <1>2, <1>3 DEF r

\* So it does for a counter that is bumped.
LEMMA BumpsInSum ==
  ASSUME NEW n \in Int, NEW y \in Int
  PROVE  /\ RQ!Bump(n) \in Nat
         /\ (RQ!Bump(n) + y) % CounterMod = (n + 1 + y) % CounterMod
<1>1. n + 1 \in Int /\ RQ!Bump(n) = (n + 1) % CounterMod
  BY DEF RQ!Bump
<1>2. ((n + 1) % CounterMod) \in 0 .. CounterMod - 1
  BY <1>1, Remainder
<1>3. RQ!Bump(n) \in Nat
  BY <1>1, <1>2, HandlerAssumption
<1>4. QED BY <1>1, <1>3, WrapsInSum

----------------------------------------------------------------------------
(* The frames, counted. *)

\* The parts of FramesAccountedFor.
Refused == rx_queue.drop_count - (IF rx_drop_current THEN 1 ELSE 0)

Parsed == IF protocol_state = "PROTO_PARSE_ARP" THEN 1 ELSE 0

Total == Refused + (RQ!Depth(rx_queue) - Parsed) + counters.rx_packet

\* What FramesAccountedFor needs to be inductive, besides Driven and the
\* relation of the parser to the wire.
CountersOK ==
  /\ DOMAIN counters = {"rx_packet", "rx_protocol_drop", "arp_reply", "uptime_beacon"}
  /\ counters.rx_packet \in Nat

Accounted == CountersOK /\ FramesAccountedFor

\* The property in one line.
LEMMA AccountedIsTotal == FramesAccountedFor <=> sender.ended = Total % CounterMod
  BY DEF FramesAccountedFor, Total, Refused, Parsed

\* The RX ring of the composition is a ring.
LEMMA RxRing ==
  ASSUME Driven
  PROVE  RQ!Ring(rx_queue) /\ rx_queue.drop_count \in Nat
<1>1. rx_queue \in Phy!QType /\ Phy!RQ!RingShape(rx_queue)
  BY DEF Driven, Phy!TypeOK, Phy!QType, Phy!AdmittedFrameOwnsSlot
<1>2. RQ!RingShape(rx_queue)
  BY <1>1 DEF Phy!RQ!RingShape, RQ!RingShape, Phy!RQ!Shape, RQ!Shape, Phy!RQ!Between, RQ!Between, Phy!RQ!Slot, RQ!Slot
<1>3. QED BY <1>1, <1>2 DEF RQ!Ring, Phy!QType, Phy!RQ!QueueType, Phy!RQ!Slot, RQ!Slot

\* All parts are numbers; Refused may be -1, when the drop counter has wrapped.
LEMMA TotalType ==
  ASSUME Driven, CountersOK
  PROVE  /\ Refused \in Int /\ RQ!Depth(rx_queue) \in Nat /\ Parsed \in {0, 1}
         /\ Total \in Int
<1>1. RQ!Ring(rx_queue) /\ rx_queue.drop_count \in Nat
  BY RxRing
<1>2. RQ!Depth(rx_queue) \in 0 .. RxSlots
  BY <1>1, HandlerAssumption, RQ!PublishedAreValid
<1>3. Refused \in Int /\ Parsed \in {0, 1} /\ RQ!Depth(rx_queue) \in Nat
  BY <1>1, <1>2, HandlerAssumption DEF Refused, Parsed
<1>4. QED BY <1>3 DEF Total, CountersOK

\* A frame that is refused as it begins is counted at once, but has not ended.
LEMMA StartCounts ==
  ASSUME Driven, Accounted, BeginFrame
  PROVE  Accounted'
<1>1. /\ ~Sending /\ sender'.ended = sender.ended
      /\ UNCHANGED << protocol_state, counters >>
  BY DEF BeginFrame, ReceiveCycle, handlerVars, Driven, Agreed, SenderOK
<1>2. PICK rxd : Phy!FrameStart(rxd, FALSE)
  BY StartsAsPhy
  DEF Phy!PhyStart, Phy!ethernet_rx_queue_step, Phy!LowNibble, Phy!HighNibble
<1>3. ~rx_drop_current /\ Refused = rx_queue.drop_count
  BY <1>1, RxRing DEF Driven, Agreed, Refused
<1> DEFINE n == rx_queue.drop_count
           depth == RQ!Depth(rx_queue)
           rest == depth - Parsed + counters.rx_packet
<1>4. /\ n \in Nat /\ depth \in Nat /\ rest \in Int /\ Total = n + rest
      /\ depth \in Int /\ Parsed \in Int /\ counters.rx_packet \in Int
  BY <1>3, RxRing, TotalType DEF Accounted, CountersOK, Total
<1>5. sender.ended = (n + rest) % CounterMod
  BY <1>4, AccountedIsTotal DEF Accounted
<1>6. CASE Phy!RQ!packet_queue_write_slot_available(rx_queue)
  <2>1. rx_queue' = rx_queue /\ ~rx_drop_current'
    BY <1>2, <1>6 DEF Phy!FrameStart
  <2>2. Refused' = Refused /\ Parsed' = Parsed /\ RQ!Depth(rx_queue)' = depth
    BY <1>1, <1>3, <2>1 DEF Refused, Parsed, RQ!Depth
  <2>3. Total' = Total
    BY <1>1, <2>2 DEF Total
  <2>4. QED
    BY <1>1, <2>3, AccountedIsTotal DEF Accounted, CountersOK, FramesAccountedFor, Total, Refused, Parsed
<1>7. CASE ~Phy!RQ!packet_queue_write_slot_available(rx_queue)
  <2>1. rx_queue' = RQ!packet_queue_drop_write(rx_queue) /\ rx_drop_current'
    BY <1>2, <1>7 DEF Phy!FrameStart, Phy!RQ!packet_queue_drop_write, RQ!packet_queue_drop_write,
       Phy!RQ!Bump, RQ!Bump
  <2>2. RQ!Depth(rx_queue') = depth /\ rx_queue'.drop_count = RQ!Bump(n)
    BY <2>1, RxRing, HandlerAssumption, RQ!OthersCount
  <2>3. Refused' = RQ!Bump(n) - 1 /\ Parsed' = Parsed
    BY <1>1, <2>1, <2>2 DEF Refused, Parsed
  <2>4. Total' = RQ!Bump(n) - 1 + (depth - Parsed) + counters.rx_packet
    BY <1>1, <2>2, <2>3 DEF Total, RQ!Depth
  <2>5. RQ!Bump(n) \in Nat /\ (RQ!Bump(n) + (rest - 1)) % CounterMod = (n + 1 + (rest - 1)) % CounterMod
    <3>1. n \in Int /\ rest - 1 \in Int
      BY <1>4
    <3> HIDE DEF n, rest
    <3>2. QED BY <3>1, BumpsInSum
  <2>6. Total' = RQ!Bump(n) + (rest - 1) /\ n + 1 + (rest - 1) = n + rest
    BY <1>4, <2>4, <2>5
  <2>7. sender'.ended = Total' % CounterMod
    BY <1>1, <1>5, <2>5, <2>6
  <2>8. QED
    BY <1>1, <2>7 DEF Accounted, CountersOK, FramesAccountedFor, Total, Refused, Parsed
<1>8. QED BY <1>6, <1>7

\* Nothing is counted in the middle of a frame, ...
LEMMA SendCounts ==
  ASSUME Driven, Accounted, SendNibble
  PROVE  Accounted'
<1>1. /\ sender'.ended = sender.ended
      /\ UNCHANGED << protocol_state, counters >>
  BY DEF SendNibble, ReceiveCycle, handlerVars, Driven, Agreed, SenderOK
<1>2. PICK rxd : Phy!LowNibble(rxd, FALSE) \/ Phy!HighNibble(rxd, FALSE)
  BY SendsAsPhy
  DEF Phy!PhyNibble, Phy!ethernet_rx_queue_step, Phy!FrameStart
<1>3. /\ rx_drop_current' = rx_drop_current
      /\ \/ rx_queue' = rx_queue
         \/ \E s, i, byte : rx_queue' = RQ!StoreByte(rx_queue, s, i, byte)
  <2>1. \A s, i, byte :
          Phy!RQ!StoreByte(rx_queue, s, i, byte) = RQ!StoreByte(rx_queue, s, i, byte)
    BY DEF Phy!RQ!StoreByte, RQ!StoreByte
  <2>2. /\ rx_drop_current' = rx_drop_current
        /\ \/ rx_queue' = rx_queue
           \/ \E s, i, byte : rx_queue' = Phy!RQ!StoreByte(rx_queue, s, i, byte)
    BY <1>2 DEF Phy!LowNibble, Phy!HighNibble
  <2>3. QED BY <2>1, <2>2
<1>4. RQ!Depth(rx_queue') = RQ!Depth(rx_queue) /\ rx_queue'.drop_count = rx_queue.drop_count
  <2>1. CASE rx_queue' = rx_queue
    BY <2>1 DEF RQ!Depth
  <2>2. CASE \E s, i, byte : rx_queue' = RQ!StoreByte(rx_queue, s, i, byte)
    BY <2>2, RxRing, HandlerAssumption, RQ!OthersCount
  <2>3. QED BY <1>3, <2>1, <2>2
<1>5. Total' = Total
  BY <1>1, <1>3, <1>4 DEF Total, Refused, Parsed, RQ!Depth
<1>6. QED
  BY <1>1, <1>5, AccountedIsTotal
  DEF Accounted, CountersOK, FramesAccountedFor, Total, Refused, Parsed

\* ... or between two.
LEMMA IdleCounts ==
  ASSUME Driven, Accounted, LeaveLineIdle
  PROVE  Accounted'
<1>1. /\ sender'.ended = sender.ended
      /\ UNCHANGED << protocol_state, counters >>
  BY DEF LeaveLineIdle, ReceiveCycle, handlerVars, Driven, Agreed, SenderOK
<1>2. UNCHANGED << rx_drop_current, rx_queue >>
  BY IdlesAsPhy DEF Phy!PhyIdle, Phy!ethernet_rx_queue_step, Phy!FrameEnd, Phy!LineIdle
<1>3. Total' = Total
  BY <1>1, <1>2 DEF Total, Refused, Parsed, RQ!Depth
<1>4. QED
  BY <1>1, <1>3, AccountedIsTotal
  DEF Accounted, CountersOK, FramesAccountedFor, Total, Refused, Parsed

\* A frame that was admitted is published as it ends.
LEMMA WholeFramesArePublished ==
  ASSUME Driven, Phy!ReadsTheWire, EndFrame, ~rx_drop_current
  PROVE  \E meta : rx_queue' = RQ!packet_queue_publish_write_slot(rx_queue, meta)
<1> DEFINE f == sender.frame
<1>1. /\ Phy!PhyStop(FALSE) /\ [Phy!WireNext]_(Phy!wireVars)
      /\ assembler.in_frame /\ ~assembler'.in_frame
      /\ Sending /\ ~Sending' /\ LastNibbleSent
  BY EndsAsPhy DEF EndFrame, Driven, Agreed, Phy!WireNext
<1>2. f \in Frames /\ f \in Seq(Phy!Byte) /\ Len(f) \in Nat /\ sender.nibbles = 2 * Len(f)
  BY <1>1, FramesAreBytes DEF Driven, Agreed, SenderOK, Sending, LastNibbleSent
<1>3. /\ Wire.frame = f /\ Wire.nibbles = 2 * Len(f) /\ Wire.admitted = ~rx_drop_current
      /\ Wire'.errored = FALSE
  BY <1>1, <1>2 DEF Wire
<1>4. Phy!WireBytes(Wire.frame, Wire.nibbles) = f
  <2>1. (2 * Len(f)) \div 2 = Len(f)
    <3>1. \A n \in Nat : (2 * n) \div 2 = n
      OBVIOUS
    <3>2. QED BY <1>2, <3>1
  <2>2. SubSeq(f, 1, Len(f)) = f
    BY <1>2
  <2>3. QED BY <1>3, <2>1, <2>2 DEF Phy!WireBytes
<1>5. /\ Phy!FrameLongEnough(Phy!FrameData(f))
      /\ Len(Phy!FrameData(f)) < ByteIndexMod
  BY <1>2, StationAssumption
  DEF Rx!FrameLongEnough, Phy!FrameLongEnough, Rx!FrameData, Phy!FrameData
<1>6. Phy!Publishes
  BY <1>1, <1>3, <1>4, <1>5, Sizes, FramesOK, Phy!EndIsClean DEF Driven
<1>7. Phy!FrameEnd(FALSE)
  BY <1>1 DEF Phy!PhyStop, Phy!ethernet_rx_queue_step, Phy!LineIdle
<1>8. PICK meta : rx_queue' = Phy!RQ!packet_queue_publish_write_slot(rx_queue, meta)
  BY <1>6, <1>7 DEF Phy!FrameEnd, Phy!Publishes
<1>9. QED
  BY <1>8
  DEF Phy!RQ!packet_queue_publish_write_slot, RQ!packet_queue_publish_write_slot,
      Phy!RQ!packet_queue_drop_write, RQ!packet_queue_drop_write,
      Phy!RQ!NextSlot, RQ!NextSlot, Phy!RQ!Bump, RQ!Bump

\* A frame that ends was refused, or waits from now on.
LEMMA EndCounts ==
  ASSUME Driven, Phy!ReadsTheWire, Accounted, EndFrame
  PROVE  Accounted'
<1>1. /\ sender'.ended = RQ!Bump(sender.ended)
      /\ UNCHANGED << protocol_state, counters >>
  BY DEF EndFrame, ReceiveCycle, handlerVars, Driven, Agreed, SenderOK
<1>2. Phy!FrameEnd(FALSE) /\ ~rx_drop_current'
  BY EndsAsPhy DEF Phy!PhyStop, Phy!ethernet_rx_queue_step, Phy!LineIdle
<1>3. /\ Total \in Int /\ RQ!Depth(rx_queue) \in Nat /\ Parsed \in Int
      /\ rx_queue.drop_count \in Nat /\ counters.rx_packet \in Nat
  BY TotalType, RxRing DEF Accounted, CountersOK
<1>4. Total' = Total + 1
  <2>1. CASE rx_drop_current
    <3>1. rx_queue' = rx_queue
      BY <1>2, <2>1 DEF Phy!FrameEnd
    <3>2. Refused' = Refused + 1 /\ Refused \in Int
      BY <1>2, <1>3, <2>1, <3>1 DEF Refused
    <3>3. RQ!Depth(rx_queue') = RQ!Depth(rx_queue) /\ Parsed' = Parsed
      BY <1>1, <3>1 DEF RQ!Depth, Parsed
    <3>4. QED BY <1>1, <1>3, <3>2, <3>3 DEF Total, RQ!Depth
  <2>2. CASE ~rx_drop_current
    <3>1. PICK meta : rx_queue' = RQ!packet_queue_publish_write_slot(rx_queue, meta)
      BY <2>2, WholeFramesArePublished
    <3>2. RQ!packet_queue_write_slot_available(rx_queue)
      BY <1>2, <2>2, EndsAsPhy
      DEF Driven, Agreed, Phy!AdmittedFrameOwnsSlot, Phy!PhyStop,
          Phy!RQ!packet_queue_write_slot_available, RQ!packet_queue_write_slot_available
    <3>3. /\ RQ!Depth(rx_queue') = RQ!Depth(rx_queue) + 1
          /\ rx_queue'.drop_count = rx_queue.drop_count
      BY <3>1, <3>2, RxRing, HandlerAssumption, RQ!PublishCounts
    <3>4. Refused' = Refused /\ Refused \in Int /\ Parsed' = Parsed
      BY <1>1, <1>2, <1>3, <2>2, <3>3 DEF Refused, Parsed
    <3>5. QED BY <1>1, <1>3, <3>3, <3>4 DEF Total, RQ!Depth
  <2>3. QED BY <2>1, <2>2
<1>5. sender'.ended = ((Total % CounterMod) + 1) % CounterMod
  BY <1>1, AccountedIsTotal DEF Accounted, RQ!Bump
<1>6. sender'.ended = Total' % CounterMod
  BY <1>3, <1>4, <1>5, WrapsInSum
<1>7. QED
  BY <1>1, <1>6 DEF Accounted, CountersOK, FramesAccountedFor, Total, Refused, Parsed

\* A packet leaves the ring for the counter: at once if it is dropped, and if
\* it is parsed, first for the counter and later from the ring.
LEMMA HandleCounts ==
  ASSUME Driven, Accounted, HandleCycle
  PROVE  Accounted'
<1>1. UNCHANGED << rx_drop_current, sender >> /\ protocol_queue_step
  BY DEF HandleCycle, receiveVars
<1>2. /\ Total \in Int /\ RQ!Depth(rx_queue) \in Nat /\ Refused \in Int
      /\ counters.rx_packet \in Nat /\ counters.rx_packet \in Int
      /\ DOMAIN counters = {"rx_packet", "rx_protocol_drop", "arp_reply", "uptime_beacon"}
      /\ sender.ended = Total % CounterMod
  BY TotalType, AccountedIsTotal DEF Accounted, CountersOK
<1>3. SUFFICES CountersOK' /\ Total' % CounterMod = Total % CounterMod
  BY <1>1, <1>2 DEF Accounted, FramesAccountedFor, Total, Refused, Parsed
<1>4. ASSUME RQ!packet_queue_read_slot_valid(rx_queue),
             rx_queue' = RQ!packet_queue_consume_read_slot(rx_queue)
      PROVE  Refused' = Refused /\ RQ!Depth(rx_queue') = RQ!Depth(rx_queue) - 1
  <2>1. /\ RQ!Depth(rx_queue') = RQ!Depth(rx_queue) - 1
        /\ rx_queue'.drop_count = rx_queue.drop_count
    BY <1>4, RxRing, HandlerAssumption, RQ!ConsumeCounts
  <2>2. QED BY <1>1, <2>1 DEF Refused
<1>5. ASSUME rx_queue' = rx_queue
      PROVE  Refused' = Refused /\ RQ!Depth(rx_queue') = RQ!Depth(rx_queue)
  BY <1>1, <1>5 DEF Refused, RQ!Depth
<1>6. ASSUME counters' = [counters EXCEPT !.rx_packet = RQ!Bump(@)]
             \/ counters' = [counters EXCEPT !.rx_packet = RQ!Bump(@),
                                             !.rx_protocol_drop = RQ!Bump(@)],
             Refused' = Refused,
             RQ!Depth(rx_queue') - Parsed' = RQ!Depth(rx_queue) - Parsed - 1
      PROVE  CountersOK' /\ Total' % CounterMod = Total % CounterMod
  <2> DEFINE n == counters.rx_packet
             rest == Refused + (RQ!Depth(rx_queue) - Parsed)
  <2>1. rest \in Int /\ n \in Nat
    BY <1>2, TotalType DEF Accounted
  <2>2. counters'.rx_packet = RQ!Bump(n) /\ DOMAIN counters' = DOMAIN counters
    BY <1>2, <1>6
  <2>3. RQ!Bump(n) \in Nat /\ (RQ!Bump(n) + (rest - 1)) % CounterMod = (n + 1 + (rest - 1)) % CounterMod
    <3>1. n \in Int /\ rest - 1 \in Int
      BY <2>1
    <3> HIDE DEF n, rest
    <3>2. QED BY <3>1, BumpsInSum
  <2>4. CountersOK'
    BY <1>2, <2>2, <2>3 DEF CountersOK
  <2>5. Total' = RQ!Bump(n) + (rest - 1) /\ Total = n + 1 + (rest - 1)
    <3>1. Total' = Refused' + (RQ!Depth(rx_queue') - Parsed') + counters'.rx_packet
      BY DEF Total, RQ!Depth
    <3>2. Total' = Refused + (RQ!Depth(rx_queue) - Parsed - 1) + RQ!Bump(n)
      BY <1>6, <2>2, <3>1
    <3>3. Refused \in Int /\ RQ!Depth(rx_queue) \in Int /\ Parsed \in Int
      BY TotalType DEF Accounted
    <3>4. Total = Refused + (RQ!Depth(rx_queue) - Parsed) + n
      BY DEF Total
    <3> HIDE DEF n
    <3>5. QED BY <2>1, <2>3, <3>2, <3>3, <3>4
  <2>6. QED BY <2>3, <2>4, <2>5
<1>7. ASSUME counters'.rx_packet = counters.rx_packet, DOMAIN counters' = DOMAIN counters,
             Refused' = Refused,
             RQ!Depth(rx_queue') - Parsed' = RQ!Depth(rx_queue) - Parsed
      PROVE  CountersOK' /\ Total' % CounterMod = Total % CounterMod
  <2>1. Total' = Total
    BY <1>7 DEF Total, RQ!Depth
  <2>2. QED BY <1>2, <1>7, <2>1 DEF CountersOK
<1>8. Parsed \in {0, 1}
  BY DEF Parsed
<1>9. CASE DropWaiting
  <2>1. /\ RQ!packet_queue_read_slot_valid(rx_queue)
        /\ rx_queue' = RQ!packet_queue_consume_read_slot(rx_queue)
        /\ Parsed' = Parsed
        /\ counters' = [counters EXCEPT !.rx_packet = RQ!Bump(@),
                                        !.rx_protocol_drop = RQ!Bump(@)]
    BY <1>9 DEF DropWaiting, PacketWaiting, Parsed
  <2>2. Refused' = Refused /\ RQ!Depth(rx_queue') = RQ!Depth(rx_queue) - 1
    BY <1>4, <2>1
  <2>3. RQ!Depth(rx_queue') - Parsed' = RQ!Depth(rx_queue) - Parsed - 1
    BY <1>2, <1>8, <2>1, <2>2
  <2>4. QED BY <1>6, <2>1, <2>2, <2>3
<1>10. CASE BeginParse
  <2>1. /\ rx_queue' = rx_queue /\ Parsed = 0 /\ Parsed' = 1
        /\ counters' = [counters EXCEPT !.rx_packet = RQ!Bump(@)]
    BY <1>10 DEF BeginParse, Free, Parsed
  <2>2. Refused' = Refused /\ RQ!Depth(rx_queue') = RQ!Depth(rx_queue)
    BY <1>5, <2>1
  <2>3. RQ!Depth(rx_queue') - Parsed' = RQ!Depth(rx_queue) - Parsed - 1
    BY <1>2, <2>1, <2>2
  <2>4. QED BY <1>6, <2>1, <2>2, <2>3
<1>11. CASE FinishArp
  <2>1. /\ RQ!packet_queue_read_slot_valid(rx_queue)
        /\ rx_queue' = RQ!packet_queue_consume_read_slot(rx_queue)
        /\ Parsed = 1 /\ Parsed' = 0
        /\ counters'.rx_packet = counters.rx_packet /\ DOMAIN counters' = DOMAIN counters
    BY <1>2, <1>11 DEF FinishArp, Driven, Agreed, Parsed
  <2>2. Refused' = Refused /\ RQ!Depth(rx_queue') = RQ!Depth(rx_queue) - 1
    BY <1>4, <2>1
  <2>3. RQ!Depth(rx_queue') - Parsed' = RQ!Depth(rx_queue) - Parsed
    BY <1>2, <2>1, <2>2
  <2>4. QED BY <1>7, <2>1, <2>2, <2>3
<1>12. CASE Preparing \/ SendGratuitousArp \/ SendBeacon \/ NothingToDo \/ ParseArpByte
  <2>1. /\ rx_queue' = rx_queue /\ protocol_state' = protocol_state
        /\ counters'.rx_packet = counters.rx_packet /\ DOMAIN counters' = DOMAIN counters
    BY <1>2, <1>12 DEF Preparing, SendGratuitousArp, SendBeacon, NothingToDo, ParseArpByte
  <2>2. Parsed' = Parsed /\ Refused' = Refused /\ RQ!Depth(rx_queue') = RQ!Depth(rx_queue)
    BY <1>5, <2>1 DEF Parsed
  <2>3. QED BY <1>7, <2>1, <2>2
<1>13. QED BY <1>1, <1>9, <1>10, <1>11, <1>12 DEF protocol_queue_step

\* One call at a time.
LEMMA AccountedStep ==
  ASSUME Driven, Phy!ReadsTheWire, Accounted, [Call]_vars
  PROVE  Accounted'
<1>1. CASE UNCHANGED << rx_queue, rx_drop_current, protocol_state, counters, sender >>
  BY <1>1 DEF Accounted, CountersOK, FramesAccountedFor, RQ!Depth
<1>2. CASE TransmitCycle
  BY <1>1, <1>2 DEF TransmitCycle, handlerVars, receiveVars
<1>3. CASE UNCHANGED vars
  BY <1>1, <1>3 DEF vars, protoVars, handlerVars, receiveVars
<1>4. QED
  BY <1>2, <1>3, StartCounts, SendCounts, EndCounts, IdleCounts, HandleCounts DEF Call

\* Nothing has been sent, and nothing counted.
LEMMA AccountedAtFirst == EndpointInit => Accounted
<1> SUFFICES ASSUME EndpointInit PROVE Accounted
  OBVIOUS
<1>1. /\ sender.ended = 0
      /\ protocol_state = "PROTO_IDLE" /\ ~rx_drop_current
      /\ counters = [rx_packet |-> 0, rx_protocol_drop |-> 0, arp_reply |-> 0,
                     uptime_beacon |-> 0]
  BY DEF EndpointInit, Init, Rx!Init
<1>2. /\ rx_queue.drop_count = 0 /\ rx_queue.read_idx = 0 /\ rx_queue.write_idx = 0
      /\ ~rx_queue.valid[0]
  <2>1. 0 \in Rx!RQ!Slot
    BY Sizes DEF Rx!RQ!Slot
  <2>2. QED BY <2>1 DEF EndpointInit, Rx!Init, Rx!RQ!EmptyQueue
<1>3. RQ!Depth(rx_queue) = 0
  BY <1>2 DEF RQ!Depth
<1>4. Total = 0
  BY <1>1, <1>2, <1>3 DEF Total, Refused, Parsed
<1>5. 0 % CounterMod = 0
  BY HandlerAssumption
<1>6. QED BY <1>1, <1>4, <1>5, AccountedIsTotal DEF Accounted, CountersOK

\* Every frame the station has ended was refused, waits in the ring, or was
\* taken by the handler (ethernet_rx_queue.h:40,74 and the counts of
\* ethernet_protocol_handler.h:83-110), also when the counters have wrapped.
THEOREM NoFrameVanishes == EndpointSafety => []FramesAccountedFor
<1>1. EndpointInit => Accounted
  BY AccountedAtFirst
<1>2. Driven /\ Phy!ReadsTheWire /\ Accounted /\ [Call]_vars => Accounted'
  BY AccountedStep
<1>3. Phy!WireSpec => []Phy!ReadsTheWire
  BY Sizes, FramesOK, Phy!ReadsTheWireHolds
<1>4. EndpointSafety => []Driven /\ Phy!WireSpec
  BY DrivenHolds
<1>5. Accounted => FramesAccountedFor
  BY DEF Accounted
<1>6. QED BY <1>1, <1>2, <1>3, <1>4, <1>5, PTL DEF EndpointSafety

----------------------------------------------------------------------------
(* The handler between the receive step and the transmit step.             *)
(*                                                                         *)
(* HandlerProofs shows what the handler keeps between neighbours of which  *)
(* it relies on Rely alone.  Both of its neighbours here are shown to be   *)
(* such, the receive step because a frame owns the write slot it fills and *)
(* the transmit step because the framer frees only the packet it has sent. *)
(* In turn the framer relies on the handler to alter no published packet.  *)

\* The calls that move the receive step.
Receives == BeginFrame \/ SendNibble \/ EndFrame \/ LeaveLineIdle

\* What a receive step does to the RX ring: at most one operation of a producer.
LEMMA ReceiveOnRxRing ==
  ASSUME Driven, Receives
  PROVE  \/ rx_queue' = rx_queue
         \/ rx_queue' = RQ!packet_queue_drop_write(rx_queue)
         \/ /\ RQ!packet_queue_write_slot_available(rx_queue)
            /\ \/ \E i, byte : rx_queue' = RQ!StoreByte(rx_queue, rx_queue.write_idx, i, byte)
               \/ \E meta : rx_queue' = RQ!packet_queue_publish_write_slot(rx_queue, meta)
<1>1. /\ RQ!packet_queue_drop_write(rx_queue) = Phy!RQ!packet_queue_drop_write(rx_queue)
      /\ \A i, byte : RQ!StoreByte(rx_queue, rx_queue.write_idx, i, byte)
                        = Phy!RQ!StoreByte(rx_queue, rx_queue.write_idx, i, byte)
      /\ \A meta : RQ!packet_queue_publish_write_slot(rx_queue, meta)
                     = Phy!RQ!packet_queue_publish_write_slot(rx_queue, meta)
      /\ Phy!RQ!packet_queue_write_slot_available(rx_queue)
           <=> RQ!packet_queue_write_slot_available(rx_queue)
  BY DEF Phy!RQ!packet_queue_publish_write_slot, RQ!packet_queue_publish_write_slot,
         Phy!RQ!packet_queue_drop_write, RQ!packet_queue_drop_write,
         Phy!RQ!StoreByte, RQ!StoreByte, Phy!RQ!NextSlot, RQ!NextSlot,
         Phy!RQ!Bump, RQ!Bump, Phy!RQ!packet_queue_write_slot_available,
         RQ!packet_queue_write_slot_available
<1>2. assembler.in_frame /\ ~rx_drop_current => RQ!packet_queue_write_slot_available(rx_queue)
  BY <1>1 DEF Driven, Phy!AdmittedFrameOwnsSlot
<1>3. \E dv, rxd : Phy!ethernet_rx_queue_step(dv, rxd, FALSE)
  BY SameStep DEF Receives, BeginFrame, SendNibble, EndFrame, LeaveLineIdle, ReceiveCycle
<1>4. \/ rx_queue' = rx_queue
      \/ rx_queue' = Phy!RQ!packet_queue_drop_write(rx_queue)
      \/ /\ assembler.in_frame /\ ~rx_drop_current
         /\ \/ \E i, byte : rx_queue' = Phy!RQ!StoreByte(rx_queue, rx_queue.write_idx, i, byte)
            \/ \E meta : rx_queue' = Phy!RQ!packet_queue_publish_write_slot(rx_queue, meta)
  BY <1>3 DEF Phy!ethernet_rx_queue_step, Phy!FrameStart, Phy!LowNibble, Phy!HighNibble,
              Phy!FrameEnd, Phy!LineIdle
<1>5. QED BY <1>1, <1>2, <1>4

\* So the receive step is a neighbour the handler relies on.
LEMMA ReceiveIsRely ==
  ASSUME Driven, SlotInv, Receives
  PROVE  Rely
<1>1. UNCHANGED << tx_queue, handlerVars >>
  BY DEF Receives, BeginFrame, SendNibble, EndFrame, LeaveLineIdle, ReceiveCycle
<1>2. RQ!Ring(rx_queue) /\ TQ!Ring(tx_queue) /\ rx_queue.write_idx \in RQ!Slot
  BY DEF SlotInv, RQ!Ring
<1>3. TQ!ByConsumer(tx_queue, tx_queue')
  BY <1>1, <1>2, RingSizes, TQ!ConsumerSteps
<1>4. RQ!ByProducer(rx_queue, rx_queue')
  <2>1. CASE rx_queue' = rx_queue \/ rx_queue' = RQ!packet_queue_drop_write(rx_queue)
    BY <1>2, <2>1, RingSizes, RQ!ProducerSteps
  <2>2. ASSUME RQ!packet_queue_write_slot_available(rx_queue),
               NEW i, NEW byte,
               rx_queue' = RQ!StoreByte(rx_queue, rx_queue.write_idx, i, byte)
        PROVE  RQ!ByProducer(rx_queue, rx_queue')
    <3>1. ~rx_queue.valid[rx_queue.write_idx]
      BY <2>2 DEF RQ!packet_queue_write_slot_available
    <3>2. RQ!ByProducer(rx_queue, RQ!StoreByte(rx_queue, rx_queue.write_idx, i, byte))
      BY <1>2, <3>1, RingSizes, RQ!ProducerSteps, Zenon
    <3>3. QED BY <2>2, <3>2
  <2>3. ASSUME RQ!packet_queue_write_slot_available(rx_queue),
               NEW meta, rx_queue' = RQ!packet_queue_publish_write_slot(rx_queue, meta)
        PROVE  RQ!ByProducer(rx_queue, rx_queue')
    BY <1>2, <2>3, RingSizes, RQ!ProducerSteps
  <2>4. QED BY <2>1, <2>2, <2>3, ReceiveOnRxRing
<1>5. rx_queue'.drop_count \in {rx_queue.drop_count, RQ!Bump(rx_queue.drop_count)}
  BY <1>2, ReceiveOnRxRing
  DEF RQ!Ring, RQ!packet_queue_drop_write, RQ!StoreByte,
      RQ!packet_queue_publish_write_slot, RQ!packet_queue_write_slot_available
<1>6. rx_queue.drop_count \in Count => rx_queue'.drop_count \in Count
  BY <1>5, BumpWraps
<1>7. QED BY <1>1, <1>3, <1>4, <1>6 DEF Rely

----------------------------------------------------------------------------
(* The framer.  Nothing is assumed of the lengths and bytes it is given.   *)

FramerFields ==
  {"state", "nibble_phase", "byte_index", "fcs_index", "ifg_count", "crc", "fcs", "len",
   "frame_body_len", "frame"}

FramerInv ==
  /\ DOMAIN framer = FramerFields
  /\ framer_active \in BOOLEAN
  /\ Tx!FramerOwnsReadSlot

\* Tx and TQ are two instances of the same ring.
LEMMA SameTxRing ==
  /\ Tx!TQ!packet_queue_read_slot_valid(tx_queue) <=> TQ!packet_queue_read_slot_valid(tx_queue)
  /\ Tx!TQ!packet_queue_consume_read_slot(tx_queue)
       = TQ!packet_queue_consume_read_slot(tx_queue)
  /\ Tx!TQ!RingShape(tx_queue) <=> TQ!RingShape(tx_queue)
  BY DEF Tx!TQ!packet_queue_read_slot_valid, TQ!packet_queue_read_slot_valid,
         Tx!TQ!packet_queue_consume_read_slot, TQ!packet_queue_consume_read_slot,
         Tx!TQ!NextSlot, TQ!NextSlot, Tx!TQ!RingShape, TQ!RingShape,
         Tx!TQ!Shape, TQ!Shape, Tx!TQ!Between, TQ!Between, Tx!TQ!Slot, TQ!Slot

\* What a cycle of the transmit step does to the flags the two statics share,
\* and to the ring.
LEMMA TransmitProgress ==
  ASSUME FramerInv, Tx!ethernet_tx_queue_step
  PROVE  /\ DOMAIN framer' = FramerFields /\ framer_active' \in BOOLEAN
         /\ \/ /\ framer_active /\ framer_active'
               /\ tx_queue' = tx_queue /\ framer_slot_idx' = framer_slot_idx
               /\ framer'.state # "TX_IDLE" /\ framer'.len = framer.len
               /\ framer'.frame_body_len = framer.frame_body_len
            \/ /\ framer_active /\ ~framer_active'
               /\ framer.state = "TX_IFG" /\ framer.ifg_count = IFG_NIBBLES - 1
               /\ tx_queue' = TQ!packet_queue_consume_read_slot(tx_queue)
               /\ framer'.state = "TX_IDLE"
            \/ /\ ~framer_active /\ ~framer_active'
               /\ tx_queue' = tx_queue /\ framer'.state = "TX_IDLE"
            \/ /\ ~framer_active /\ framer_active'
               /\ TQ!packet_queue_read_slot_valid(tx_queue)
               /\ tx_queue' = tx_queue /\ framer_slot_idx' = tx_queue.read_idx
               /\ framer'.state = "TX_PREAMBLE"
               /\ framer'.len = tx_queue.meta[tx_queue.read_idx]
               /\ framer'.frame_body_len = Tx!PaddedLen(framer'.len)
<1>1. /\ DOMAIN framer = FramerFields /\ framer_active \in BOOLEAN
      /\ framer_active <=> framer.state # "TX_IDLE"
  BY DEF FramerInv, Tx!FramerOwnsReadSlot
<1>2. CASE Tx!IdleCycle /\ Tx!StartRequest
  BY <1>1, <1>2, SameTxRing
  DEF Tx!IdleCycle, Tx!StartRequest, Tx!Handshake, Tx!CurrentSlot, FramerFields
<1>3. CASE Tx!IdleCycle /\ ~Tx!StartRequest
  BY <1>1, <1>3 DEF Tx!IdleCycle, Tx!StartRequest, Tx!Handshake, FramerFields
<1>4. CASE Tx!PreambleCycle
  BY <1>1, <1>4
  DEF Tx!PreambleCycle, Tx!StartRequest, Tx!Handshake, Tx!CurrentSlot, FramerFields
<1>5. CASE Tx!DataCycle
  BY <1>1, <1>5
  DEF Tx!DataCycle, Tx!StartRequest, Tx!Handshake, Tx!CurrentSlot, FramerFields
<1>6. CASE Tx!FcsCycle
  BY <1>1, <1>6
  DEF Tx!FcsCycle, Tx!FrameSent, Tx!StartRequest, Tx!Handshake, Tx!CurrentSlot, FramerFields
<1>7. CASE Tx!GapCycle /\ framer.ifg_count = IFG_NIBBLES - 1
  BY <1>1, <1>7, SameTxRing
  DEF Tx!GapCycle, Tx!StartRequest, Tx!Handshake, Tx!CurrentSlot, FramerFields
<1>8. CASE Tx!GapCycle /\ framer.ifg_count # IFG_NIBBLES - 1
  BY <1>1, <1>8
  DEF Tx!GapCycle, Tx!StartRequest, Tx!Handshake, Tx!CurrentSlot, FramerFields
<1>9. QED
  BY <1>2, <1>3, <1>4, <1>5, <1>6, <1>7, <1>8 DEF Tx!ethernet_tx_queue_step

\* The transmit step is a neighbour the handler relies on: what it frees is
\* published.
LEMMA TransmitIsRely ==
  ASSUME SlotInv, FramerInv, TransmitCycle
  PROVE  Rely
<1>1. UNCHANGED << rx_queue, handlerVars >> /\ Tx!ethernet_tx_queue_step
  BY DEF TransmitCycle
<1>2. RQ!Ring(rx_queue) /\ TQ!Ring(tx_queue)
  BY DEF SlotInv
<1>3. \/ tx_queue' = tx_queue
      \/ /\ framer_active
         /\ tx_queue' = TQ!packet_queue_consume_read_slot(tx_queue)
  BY <1>1, TransmitProgress
<1>4. framer_active => TQ!packet_queue_read_slot_valid(tx_queue)
  BY DEF FramerInv, Tx!FramerOwnsReadSlot, TQ!packet_queue_read_slot_valid
<1>5. TQ!ByConsumer(tx_queue, tx_queue')
  BY <1>2, <1>3, <1>4, RingSizes, TQ!ConsumerSteps
<1>6. RQ!ByProducer(rx_queue, rx_queue')
  BY <1>1, <1>2, RingSizes, RQ!ProducerSteps
<1>7. QED BY <1>1, <1>5, <1>6 DEF Rely

\* Every call moves the handler, or one of the neighbours it relies on.
LEMMA CallIsRely ==
  ASSUME Driven, SlotInv, FramerInv, [Call]_vars
  PROVE  protocol_queue_step \/ Rely
<1>1. CASE UNCHANGED vars
  BY <1>1, RingSizes, TQ!ConsumerSteps, RQ!ProducerSteps
  DEF vars, protoVars, SlotInv, Rely
<1>2. CASE Receives
  BY <1>2, ReceiveIsRely
<1>3. CASE TransmitCycle
  BY <1>3, TransmitIsRely
<1>4. CASE HandleCycle
  BY <1>4 DEF HandleCycle
<1>5. QED BY <1>1, <1>2, <1>3, <1>4 DEF Call, Receives

\* Outside the transmit step the framer rests, and what the others do to its
\* ring is what a producer may do.
LEMMA OthersOnTxRing ==
  ASSUME Driven, SlotInv, FramerInv, [Call]_vars, ~TransmitCycle
  PROVE  UNCHANGED transmitVars /\ TQ!ByProducer(tx_queue, tx_queue')
<1>1. CASE UNCHANGED vars
  BY <1>1, RingSizes, TQ!ProducerSteps DEF vars, protoVars, SlotInv
<1>2. CASE Receives
  <2>1. UNCHANGED transmitVars /\ tx_queue' = tx_queue
    BY <1>2 DEF Receives, BeginFrame, SendNibble, EndFrame, LeaveLineIdle, ReceiveCycle
  <2>2. QED BY <2>1, RingSizes, TQ!ProducerSteps DEF SlotInv
<1>3. CASE HandleCycle
  BY <1>3, HandlerOnTxRing DEF HandleCycle
<1>4. QED BY <1>1, <1>2, <1>3 DEF Call, Receives

\* The framer keeps its hold on the slot it sends from.
LEMMA FramerNext ==
  ASSUME Driven, SlotInv, FramerInv, [Call]_vars
  PROVE  FramerInv'
<1>1. /\ TQ!Ring(tx_queue) /\ TQ!RingShape(tx_queue)
      /\ TQ!Ring(tx_queue') /\ TQ!RingShape(tx_queue') /\ tx_queue.read_idx \in TQ!Slot
  BY CallIsRely, SlotsNext DEF SlotInv, TQ!Ring
<1>2. CASE TransmitCycle
  <2>1. Tx!ethernet_tx_queue_step
    BY <1>2 DEF TransmitCycle
  <2>2. Tx!TQ!RingShape(tx_queue')
    <3>1. Tx!TQ!RingShape(tx_queue') <=> TQ!RingShape(tx_queue')
      BY DEF Tx!TQ!RingShape, TQ!RingShape, Tx!TQ!Shape, TQ!Shape,
             Tx!TQ!Between, TQ!Between, Tx!TQ!Slot, TQ!Slot
    <3>2. QED BY <1>1, <3>1
  <2>3. CASE ~framer_active'
    BY <2>1, <2>2, <2>3, TransmitProgress DEF FramerInv, Tx!FramerOwnsReadSlot
  <2>4. CASE framer_active /\ framer_active'
    BY <2>1, <2>4, TransmitProgress DEF FramerInv, Tx!FramerOwnsReadSlot
  <2>5. CASE ~framer_active /\ framer_active'
    BY <2>1, <2>5, TransmitProgress
    DEF FramerInv, Tx!FramerOwnsReadSlot, TQ!packet_queue_read_slot_valid
  <2>6. QED BY <2>3, <2>4, <2>5, <2>1, TransmitProgress DEF FramerInv
<1>3. CASE ~TransmitCycle
  <2>1. UNCHANGED << framer_active, framer_slot_idx, framer >>
        /\ TQ!ByProducer(tx_queue, tx_queue')
    BY <1>3, OthersOnTxRing DEF transmitVars
  <2>2. Tx!TQ!RingShape(tx_queue')
    <3>1. Tx!TQ!RingShape(tx_queue') <=> TQ!RingShape(tx_queue')
      BY DEF Tx!TQ!RingShape, TQ!RingShape, Tx!TQ!Shape, TQ!Shape,
             Tx!TQ!Between, TQ!Between, Tx!TQ!Slot, TQ!Slot
    <3>2. QED BY <1>1, <3>1
  <2>3. framer_active =>
          /\ tx_queue'.read_idx = tx_queue.read_idx
          /\ tx_queue'.valid[framer_slot_idx]
          /\ tx_queue'.meta[framer_slot_idx] = tx_queue.meta[framer_slot_idx]
    BY <1>1, <2>1 DEF FramerInv, Tx!FramerOwnsReadSlot, TQ!ByProducer
  <2>4. QED BY <2>1, <2>2, <2>3 DEF FramerInv, Tx!FramerOwnsReadSlot
<1>4. QED BY <1>2, <1>3

\* A frame under way is read from a slot that nobody alters, and that is freed
\* at the end of the gap.
HeldWhileSent ==
  framer_active =>
    /\ tx_queue'.bytes[framer_slot_idx] = tx_queue.bytes[framer_slot_idx]
    /\ tx_queue'.meta[framer_slot_idx] = tx_queue.meta[framer_slot_idx]
    /\ ~tx_queue'.valid[framer_slot_idx]
         => framer.state = "TX_IFG" /\ framer.ifg_count = IFG_NIBBLES - 1

\* No call disturbs a frame under way.
LEMMA HeldStep ==
  ASSUME Driven, SlotInv, FramerInv, [Call]_vars
  PROVE  HeldWhileSent
<1> SUFFICES ASSUME framer_active
             PROVE  /\ tx_queue'.bytes[framer_slot_idx] = tx_queue.bytes[framer_slot_idx]
                    /\ tx_queue'.meta[framer_slot_idx] = tx_queue.meta[framer_slot_idx]
                    /\ ~tx_queue'.valid[framer_slot_idx]
                         => framer.state = "TX_IFG" /\ framer.ifg_count = IFG_NIBBLES - 1
  BY DEF HeldWhileSent
<1>1. /\ framer_slot_idx \in TQ!Slot /\ tx_queue.valid[framer_slot_idx]
      /\ framer_slot_idx = tx_queue.read_idx
  BY DEF SlotInv, TQ!Ring, FramerInv, Tx!FramerOwnsReadSlot
<1>2. CASE TransmitCycle
  <2>1. \/ tx_queue' = tx_queue
        \/ /\ framer.state = "TX_IFG" /\ framer.ifg_count = IFG_NIBBLES - 1
           /\ tx_queue' = TQ!packet_queue_consume_read_slot(tx_queue)
    BY <1>2, TransmitProgress DEF TransmitCycle
  <2>2. CASE tx_queue' = tx_queue
    BY <1>1, <2>2
  <2>3. CASE tx_queue' = TQ!packet_queue_consume_read_slot(tx_queue)
    <3>1. tx_queue'.bytes = tx_queue.bytes /\ tx_queue'.meta = tx_queue.meta
      BY <2>3 DEF TQ!packet_queue_consume_read_slot, SlotInv, TQ!Ring
    <3>2. tx_queue' = tx_queue => tx_queue'.valid[framer_slot_idx]
      BY <1>1
    <3>3. QED BY <2>1, <3>1, <3>2
  <2>4. QED BY <2>1, <2>2, <2>3
<1>3. CASE ~TransmitCycle
  BY <1>1, <1>3, OthersOnTxRing DEF TQ!ByProducer
<1>4. QED BY <1>2, <1>3

----------------------------------------------------------------------------
(* All three together. *)

\* At first the handler is at rest between two empty rings, and nothing is
\* being sent.
LEMMA RestAtFirst ==
  ASSUME EndpointInit
  PROVE  AtRest /\ FramerInv
<1>1. Init /\ Rx!Init /\ Tx!Init
  BY DEF EndpointInit
<1>2. \E meta, bytes : rx_queue = RQ!EmptyQueue(meta, bytes)
  <2>1. rx_queue = Rx!RQ!EmptyQueue(Rx!ZeroMeta, Rx!ZeroPayload)
    BY <1>1 DEF Rx!Init
  <2>2. rx_queue = RQ!EmptyQueue(Rx!ZeroMeta, Rx!ZeroPayload)
    BY <2>1 DEF RQ!EmptyQueue, Rx!RQ!EmptyQueue, RQ!Slot, Rx!RQ!Slot
  <2>3. QED BY <2>2
<1>3. tx_queue = TQ!EmptyQueue(0, [i \in BodyIndex |-> 0])
  BY <1>1 DEF Tx!Init, Tx!ZeroBody, Tx!BodyIndex, BodyIndex,
              TQ!EmptyQueue, Tx!TQ!EmptyQueue, TQ!Slot, Tx!TQ!Slot
<1>4. AtRest
  BY <1>1, <1>2, <1>3 DEF AtRest
<1>5. Tx!TQ!RingShape(tx_queue)
  <2>1. TQ!RingShape(tx_queue)
    BY <1>4, SlotsAtFirst DEF SlotInv, TQ!Ring
  <2>2. QED BY <2>1, SameTxRing
<1>6. FramerInv
  BY <1>1, <1>5 DEF FramerInv, FramerFields, Tx!Init, Tx!FramerOwnsReadSlot
<1>7. QED BY <1>4, <1>6

\* The invariant of the whole, and what each step of the whole does.
Joint == Driven /\ ParseInv /\ BodyInv /\ FramerInv

LEMMA JointAtFirst == EndpointInit => Joint
  BY DrivenAtFirst, RestAtFirst, ParseAtFirst, BodyAtFirst DEF Joint

\* No call breaks the invariant, and what each publishes or decides is right.
LEMMA JointNext ==
  ASSUME Joint, [Call]_vars
  PROVE  Joint' /\ VerdictIsTheParse /\ BodyIsTheRequest /\ HeldWhileSent
<1>1. SlotInv
  BY DEF Joint, ParseInv
<1>2. protocol_queue_step \/ Rely
  BY <1>1, CallIsRely DEF Joint
<1>3. Driven'
  BY DrivenStep DEF Joint
<1>4. FramerInv' /\ HeldWhileSent
  BY <1>1, FramerNext, HeldStep DEF Joint
<1>5. ParseInv' /\ BodyInv' /\ VerdictIsTheParse /\ BodyIsTheRequest
  BY <1>2, ParseNext, BodyNext, VerdictStep, BodyStep DEF Joint
<1>6. QED BY <1>3, <1>4, <1>5 DEF Joint

LEMMA JointHolds == EndpointSafety => []Joint
  BY JointAtFirst, JointNext, PTL DEF EndpointSafety

\* What was proved of the handler and of the framer between neighbours that
\* do anything within their roles holds of the composition, in which each of
\* the three steps is a neighbour of the others (endpoint.cpp:43-52).
\*
\* The packet being parsed and the slot being filled stay the handler's, and
\* its counts add up (ethernet_protocol_handler.h:67, 141-143, 260-269).
THEOREM HandlerIsSafeInEndpoint == EndpointSafety => [](HandlerOwnsItsSlots /\ CountsAddUp)
<1>1. Joint => HandlerOwnsItsSlots /\ CountsAddUp
  BY DEF Joint, BodyInv, CountInv, SlotInv, OwnsReadSlot, OwnsWriteSlot,
         HandlerOwnsItsSlots, RQ!Ring, TQ!Ring
<1>2. QED BY <1>1, JointHolds, PTL

\* A packet the receive step has published is parsed as what it is, and the
\* frame published to the transmit step is the one its request calls for
\* (ethernet_protocol_handler.h:141-273).
THEOREM HandlerIsExactInEndpoint ==
  EndpointSafety => StreamedParseIsParse /\ PublishedBodyIsTheRequest
<1>1. Joint /\ [Call]_vars => VerdictIsTheParse /\ BodyIsTheRequest
  BY JointNext
<1>2. QED
  BY <1>1, JointHolds, PTL
  DEF EndpointSafety, StreamedParseIsParse, PublishedBodyIsTheRequest

\* The framer sends from the published slot at the read index, which nobody
\* alters before the gap after the frame has ended
\* (ethernet_tx_queue.h:23-46).
THEOREM FramerIsSafeInEndpoint ==
  EndpointSafety => []Tx!FramerOwnsReadSlot /\ Tx!SlotHeldUntilGapEnds
<1>1. Joint => Tx!FramerOwnsReadSlot
  BY DEF Joint, FramerInv
<1>2. Joint /\ [Call]_vars =>
        [framer_active =>
           /\ tx_queue'.bytes[framer_slot_idx] = tx_queue.bytes[framer_slot_idx]
           /\ tx_queue'.meta[framer_slot_idx] = tx_queue.meta[framer_slot_idx]
           /\ ~tx_queue'.valid[framer_slot_idx]
                => framer.state = "TX_IFG" /\ framer.ifg_count = IFG_NIBBLES - 1]_(Tx!txVars)
  BY JointNext DEF HeldWhileSent
<1>3. QED
  BY <1>1, <1>2, JointHolds, PTL DEF EndpointSafety, Tx!SlotHeldUntilGapEnds

----------------------------------------------------------------------------
(* Inbox and outbox of the refinement mapping.  The published packets of a *)
(* ring, as a sequence, are the contents of the ring under a view of its   *)
(* slots.                                                                  *)

RxView(q) == [s \in RQ!Slot |-> [meta |-> q.meta[s], bytes |-> q.bytes[s]]]

TxView(q) == [s \in TQ!Slot |-> SlotBody(q, s)]

\* The frame a preparation is for.
UnderWay(p) == IF p.active THEN << RequestedBody(p.request) >> ELSE << >>

OutboxOf(p, q) == TQ!Contents(q, TxView(q)) \o UnderWay(p)

\* The inbox is the contents of the RX ring, ...
LEMMA InboxIsContents ==
  ASSUME NEW q, RQ!Ring(q)
  PROVE  RQ!Contents(q, RxView(q)) =
           LET slots == RQ!PublishedSlots(q)
           IN  [k \in DOMAIN slots |-> [meta |-> q.meta[slots[k]], bytes |-> q.bytes[slots[k]]]]
<1>1. \A k \in 1 .. RQ!Depth(q) : RQ!WrapSlot(q.read_idx + k - 1) \in RQ!Slot
  BY RQ!PublishedAreValid, RingSizes
<1>2. QED BY <1>1 DEF RQ!Contents, RQ!PublishedSlots, RxView

\* ... and the published frames are those of the TX ring.
LEMMA OutboxIsContents ==
  ASSUME NEW q, TQ!Ring(q)
  PROVE  TQ!Contents(q, TxView(q)) =
           LET slots == TQ!PublishedSlots(q)
           IN  [k \in DOMAIN slots |-> SlotBody(q, slots[k])]
<1>1. \A k \in 1 .. TQ!Depth(q) : TQ!WrapSlot(q.read_idx + k - 1) \in TQ!Slot
  BY TQ!PublishedAreValid, RingSizes
<1>2. QED BY <1>1 DEF TQ!Contents, TQ!PublishedSlots, TxView

\* The two boxes, before and after a step.
LEMMA Boxes ==
  ASSUME SlotInv, SlotInv'
  PROVE  /\ Inbox = RQ!Contents(rx_queue, RxView(rx_queue))
         /\ Inbox' = RQ!Contents(rx_queue', RxView(rx_queue'))
         /\ Outbox = OutboxOf(prepare, tx_queue)
         /\ Outbox' = OutboxOf(prepare', tx_queue')
<1>1. /\ RQ!Ring(rx_queue) /\ RQ!Ring(rx_queue')
      /\ TQ!Ring(tx_queue) /\ TQ!Ring(tx_queue')
  BY DEF SlotInv
<1>2. Inbox = RQ!Contents(rx_queue, RxView(rx_queue))
  BY <1>1, InboxIsContents DEF Inbox, ReceivedPacket
<1>3. Inbox' = RQ!Contents(rx_queue', RxView(rx_queue'))
  BY <1>1, InboxIsContents DEF Inbox, ReceivedPacket
<1>4. Outbox = OutboxOf(prepare, tx_queue)
  BY <1>1, OutboxIsContents DEF Outbox, OutboxOf, UnderWay
<1>5. Outbox' = OutboxOf(prepare', tx_queue')
  BY <1>1, OutboxIsContents DEF Outbox, OutboxOf, UnderWay
<1>6. QED BY <1>2, <1>3, <1>4, <1>5

\* A sequence with one more element.
LEMMA OneMore ==
  ASSUME NEW S, NEW T, NEW a \in Seq(S), NEW b \in Seq(T), NEW e,
         Len(b) = Len(a) + 1, SubSeq(b, 1, Len(a)) = a, b[Len(b)] = e
  PROVE  b = a \o << e >>
<1> DEFINE c == a \o << e >>
           U == S \cup T \cup {e}
<1>1. a \in Seq(U) /\ << e >> \in Seq(U) /\ b \in Seq(U)
  <2>1. S \subseteq U /\ T \subseteq U /\ e \in U
    OBVIOUS
  <2> HIDE DEF U
  <2>2. QED BY <2>1
<1> HIDE DEF U
<1>2. /\ c \in Seq(U) /\ Len(c) = Len(a) + 1 /\ c[Len(a) + 1] = e
      /\ \A k \in 1 .. Len(a) : c[k] = a[k]
  BY <1>1
<1>3. \A k \in 1 .. Len(a) : b[k] = a[k]
  <2>1. \A k \in 1 .. Len(a) : SubSeq(b, 1, Len(a))[k] = b[k]
    BY <1>1
  <2>2. QED BY <2>1
<1>4. b[Len(a) + 1] = e
  OBVIOUS
<1> HIDE DEF c
<1>5. \A k \in 1 .. Len(b) : b[k] = c[k]
  BY <1>1, <1>2, <1>3, <1>4
<1>6. b = c
  BY <1>1, <1>2, <1>5
<1>7. QED BY <1>6 DEF c

\* What leaves the flags, the indices and the published packets alone leaves
\* the box alone: of the inbox, ...
LEMMA InboxStays ==
  ASSUME NEW q, NEW d, RQ!Ring(q), RQ!ByProducer(q, d), d.valid = q.valid,
         d.write_idx = q.write_idx
  PROVE  RQ!Contents(d, RxView(d)) = RQ!Contents(q, RxView(q))
<1>1. \A s \in RQ!Slot : q.valid[s] => RxView(d)[s] = RxView(q)[s]
  BY DEF RQ!ByProducer, RxView
<1>2. d.read_idx = q.read_idx
  BY DEF RQ!ByProducer
<1>3. QED BY <1>1, <1>2, RingSizes, RQ!OthersMayChange

\* ... and of the outbox.
LEMMA OutboxStays ==
  ASSUME NEW q, NEW d, TQ!Ring(q), TQ!ByProducer(q, d), d.valid = q.valid,
         d.write_idx = q.write_idx
  PROVE  TQ!Contents(d, TxView(d)) = TQ!Contents(q, TxView(q))
<1>1. \A s \in TQ!Slot : q.valid[s] => TxView(d)[s] = TxView(q)[s]
  BY DEF TQ!ByProducer, TxView, SlotBody
<1>2. d.read_idx = q.read_idx
  BY DEF TQ!ByProducer
<1>3. QED BY <1>1, <1>2, RingSizes, TQ!OthersMayChange

\* A byte stored in a slot that is not published is not seen.
LEMMA StoredAside ==
  ASSUME NEW q, TQ!Ring(q), NEW d, NEW slot \in TQ!Slot, ~q.valid[slot],
         \E i, byte : d = TQ!StoreByte(q, slot, i, byte)
  PROVE  TQ!Contents(d, TxView(d)) = TQ!Contents(q, TxView(q))
<1>1. TQ!ByProducer(q, d)
  BY RingSizes, TQ!ProducerSteps
<1>2. d.valid = q.valid /\ d.write_idx = q.write_idx
  BY DEF TQ!StoreByte, TQ!Ring
<1>3. QED BY <1>1, <1>2, OutboxStays

\* A frame published is one more in the outbox, behind the others.
LEMMA PublishedBody ==
  ASSUME NEW q, NEW d, TQ!Ring(q), TQ!ByProducer(q, d),
         TQ!packet_queue_write_slot_available(q),
         d.valid = [q.valid EXCEPT ![q.write_idx] = TRUE],
         d.write_idx = TQ!NextSlot(q.write_idx)
  PROVE  LET a == TQ!Contents(q, TxView(q))
             b == TQ!Contents(d, TxView(d))
         IN  TQ!Enqueued(a, b) /\ b[Len(b)] = SlotBody(d, q.write_idx)
<1>1. TQ!Ring(d) /\ d.read_idx = q.read_idx /\ q.write_idx \in TQ!Slot
  BY DEF TQ!ByProducer, TQ!Ring
<1>2. \A s \in TQ!Slot : q.valid[s] => TxView(d)[s] = TxView(q)[s]
  BY DEF TQ!ByProducer, TxView, SlotBody
<1> DEFINE old == TxView(q)
           new == TxView(d)
<1>3. \A s \in TQ!Slot : q.valid[s] => new[s] = old[s]
  BY <1>2
<1>4. new[q.write_idx] = SlotBody(d, q.write_idx)
  BY <1>1 DEF TxView
<1> HIDE DEF old, new
<1>5. /\ TQ!Ring(q) /\ TQ!packet_queue_write_slot_available(q)
      /\ d.valid = [q.valid EXCEPT ![q.write_idx] = TRUE]
      /\ d.write_idx = TQ!NextSlot(q.write_idx)
  OBVIOUS
<1>6. TQ!Enqueued(TQ!Contents(q, old), TQ!Contents(d, new))
  BY ONLY <1>1, <1>3, <1>5, RingSizes, TQ!PublishAppends
<1>7. TQ!Contents(d, new)[Len(TQ!Contents(d, new))] = new[q.write_idx]
  BY ONLY <1>1, <1>5, RingSizes, TQ!PublishedIsLast
<1>8. QED BY <1>4, <1>6, <1>7 DEF old, new

\* The frame under way is the one its request calls for.
LEMMA CompletedIsRequested ==
  ASSUME NEW r, Made(r)
  PROVE  HeaderOf(r) \o PayloadOf(r) = RequestedBody(r)
<1>1. r.kind \in {"ARP_REPLY", "GRATUITOUS_ARP", "BEACON"}
  <2>1. CASE Announces(r)
    BY <2>1, RequestKinds DEF Announces
  <2>2. CASE Answers(r)
    BY <2>2, RequestKinds DEF Answers
  <2>3. CASE Reports(r)
    BY <2>3 DEF Reports, protocol_tx_beacon_request, Request
  <2>4. QED BY <2>1, <2>2, <2>3 DEF Made
<1>2. QED BY <1>1, FrameIsTheBody DEF RequestedBody

\* One cycle of a preparation leaves the outbox alone, also the one that
\* publishes the frame that was under way.
LEMMA PreparingOnOutbox ==
  ASSUME BodyInv, BodyInv', NothingStarted
  PROVE  OutboxOf(prepare', tx_queue') = OutboxOf(prepare, tx_queue)
<1> DEFINE request == prepare.request
           stored == TQ!StoreByte(tx_queue, prepare.tx_idx, prepare.index,
                                  FrameBodyByte(request, prepare.index))
           a == TQ!Contents(tx_queue, TxView(tx_queue))
           b == TQ!Contents(tx_queue', TxView(tx_queue'))
           e == RequestedBody(request)
<1>1. CASE ~prepare.active
  <2>1. prepare' = prepare /\ tx_queue' = tx_queue
    BY <1>1, NothingUnderWay
  <2>2. QED BY <2>1 DEF OutboxOf, TxView, SlotBody
<1>2. CASE prepare.active
  <2>1. /\ prepare.tx_idx = tx_queue.write_idx /\ prepare.tx_idx \in TQ!Slot
        /\ TQ!packet_queue_write_slot_available(tx_queue)
        /\ ~tx_queue.valid[prepare.tx_idx]
        /\ TQ!Ring(tx_queue) /\ TQ!Ring(tx_queue')
        /\ DOMAIN prepare = {"active", "request", "index", "tx_idx"}
    BY <1>2 DEF BodyInv, SlotInv, OwnsWriteSlot, TQ!Ring,
                TQ!packet_queue_write_slot_available
  <2>2. /\ Made(request) /\ request.len \in Nat /\ request.len >= 2
    BY <1>2, MadeIsLong DEF BodyInv, SlotInv, Fills, OwnsWriteSlot, Sized
  <2>3. TQ!Contents(stored, TxView(stored)) = a
    <3>1. \E i, byte : stored = TQ!StoreByte(tx_queue, prepare.tx_idx, i, byte)
      OBVIOUS
    <3> HIDE DEF stored
    <3>2. QED BY <2>1, <3>1, StoredAside
  <2>4. /\ TQ!Ring(stored) /\ stored.valid = tx_queue.valid
        /\ stored.write_idx = tx_queue.write_idx /\ stored.read_idx = tx_queue.read_idx
    <3>1. TQ!Ring(stored)
      BY <2>1, StoreKeepsFlags, Zenon
    <3>2. QED BY <2>1, <3>1 DEF TQ!StoreByte, TQ!Ring
  <2>5. TQ!ByProducer(stored, tx_queue')
    <3>1. OwnsWriteSlot(prepare, tx_queue)
      BY DEF BodyInv, SlotInv
    <3>2. tx_queue' \in {stored, TQ!packet_queue_publish_write_slot(stored, request.len)}
      BY <1>2 DEF NothingStarted, PrepareStep
    <3>3. TQ!packet_queue_write_slot_available(stored)
      BY <2>1, <2>4 DEF TQ!packet_queue_write_slot_available
    <3> HIDE DEF stored
    <3>4. QED BY <2>4, <3>2, <3>3, RingSizes, TQ!ProducerSteps
  <2>6. CASE prepare.index # request.len - 1
    <3>1. tx_queue' = stored /\ prepare' = [prepare EXCEPT !.index = @ + 1]
      BY <1>2, <2>2, <2>6 DEF NothingStarted, PrepareStep
    <3>2. prepare'.active = prepare.active /\ prepare'.request = request
      BY <2>1, <3>1
    <3> HIDE DEF stored
    <3>3. b = a
      BY <2>3, <3>1
    <3>4. QED BY <3>2, <3>3 DEF OutboxOf, UnderWay
  <2>7. CASE prepare.index = request.len - 1
    <3>1. /\ tx_queue' = TQ!packet_queue_publish_write_slot(stored, request.len)
          /\ prepare' = [prepare EXCEPT !.active = FALSE, !.request.valid = FALSE,
                                        !.request.kind = "NONE"]
      BY <1>2, <2>7 DEF NothingStarted, PrepareStep
    <3>2. ~prepare'.active
      BY <2>1, <3>1
    <3>3. SlotBody(tx_queue', tx_queue.write_idx) = e
      BY <1>2, <2>2, <2>7, CompletedFrame, CompletedIsRequested
    <3>4. /\ TQ!packet_queue_write_slot_available(stored)
          /\ tx_queue'.valid = [stored.valid EXCEPT ![stored.write_idx] = TRUE]
          /\ tx_queue'.read_idx = stored.read_idx
          /\ tx_queue'.write_idx = TQ!NextSlot(stored.write_idx)
      <4>1. TQ!packet_queue_write_slot_available(stored)
        BY <2>1, <2>4 DEF TQ!packet_queue_write_slot_available
      <4> HIDE DEF stored
      <4>2. QED BY <2>4, <3>1, <4>1, RingSizes, TQ!PublishKeepsRing
    <3> HIDE DEF stored
    <3>6. TQ!Enqueued(a, b) /\ b[Len(b)] = e
      <4>1. LET c == TQ!Contents(stored, TxView(stored))
            IN  TQ!Enqueued(c, b) /\ b[Len(b)] = SlotBody(tx_queue', stored.write_idx)
        BY <2>4, <2>5, <3>4, PublishedBody
      <4>2. TQ!Enqueued(a, b) /\ b[Len(b)] = SlotBody(tx_queue', tx_queue.write_idx)
        BY <2>3, <2>4, <4>1
      <4>3. QED BY <3>3, <4>2
    <3>7. \E S, T : a \in Seq(S) /\ b \in Seq(T)
      BY <2>1, RingSizes, TQ!ContentsLength
    <3> HIDE DEF a, b, e
    <3>8. b = a \o << e >> /\ b \o << >> = b
      <4>1. PICK S, T : a \in Seq(S) /\ b \in Seq(T)
        BY <3>7
      <4>2. Len(b) = Len(a) + 1 /\ SubSeq(b, 1, Len(a)) = a
        BY <3>6 DEF TQ!Enqueued
      <4>3. b = a \o << e >>
        BY <3>6, <4>1, <4>2, OneMore
      <4>4. b \o << >> = b
        BY <4>1
      <4>5. QED BY <4>3, <4>4
    <3>9. OutboxOf(prepare', tx_queue') = b \o << >>
      BY <3>2 DEF OutboxOf, UnderWay, b
    <3>10. OutboxOf(prepare, tx_queue) = a \o << e >>
      BY <1>2 DEF OutboxOf, UnderWay, a, e
    <3>11. QED BY <3>8, <3>9, <3>10
  <2>8. QED BY <2>6, <2>7
<1>3. QED BY <1>1, <1>2

\* A request that finds room is one frame more in the outbox, which has room
\* for it; one that finds none changes nothing, and the outbox is full.
LEMMA StartOnOutbox ==
  ASSUME BodyInv, BodyInv', NEW request, Long(request), ~prepare.active, Start(request)
  PROVE  LET before == OutboxOf(prepare, tx_queue)
             after  == OutboxOf(prepare', tx_queue')
         IN  /\ TxRoom => /\ after = Append(before, RequestedBody(request))
                          /\ Len(before) < TxSlots
             /\ ~TxRoom => after = before /\ Len(before) = TxSlots
<1> DEFINE a == TQ!Contents(tx_queue, TxView(tx_queue))
           b == TQ!Contents(tx_queue', TxView(tx_queue'))
           e == RequestedBody(request)
<1>1. TQ!Ring(tx_queue) /\ TQ!Ring(tx_queue') /\ tx_queue.write_idx \in TQ!Slot
  BY DEF BodyInv, SlotInv, TQ!Ring
<1>2. (\E S : a \in Seq(S)) /\ Len(a) = TQ!Depth(tx_queue)
  BY <1>1, RingSizes, TQ!ContentsLength
<1>3. OutboxOf(prepare, tx_queue) = a
  BY <1>2 DEF OutboxOf, UnderWay
<1>4. /\ TxRoom => TQ!Depth(tx_queue) < TxSlots
      /\ ~TxRoom => TQ!Depth(tx_queue) = TxSlots
  BY <1>1, RingSizes, TQ!WriteSlotIsLast DEF TxRoom
<1>5. /\ TxRoom => prepare'.active /\ prepare'.request = request
      /\ ~TxRoom => prepare' = prepare
  BY StartedRequest DEF BodyInv
<1>6. b = a
  <2>1. CASE TxRoom
    <3>1. \E i, byte : tx_queue' = TQ!StoreByte(tx_queue, tx_queue.write_idx, i, byte)
      <4>1. request.len # 0 /\ 0 # request.len - 1
        BY DEF Long, Sized
      <4>2. QED BY <2>1, <4>1 DEF Start, start_protocol_tx_request, PrepareStep, TxRoom
    <3>2. ~tx_queue.valid[tx_queue.write_idx]
      BY <2>1 DEF TxRoom, TQ!packet_queue_write_slot_available
    <3>3. QED BY <1>1, <3>1, <3>2, StoredAside
  <2>2. CASE ~TxRoom
    <3>1. tx_queue' = TQ!packet_queue_drop_write(tx_queue)
      BY <2>2 DEF Start, start_protocol_tx_request, PrepareStep, TxRoom
    <3>2. /\ TQ!ByProducer(tx_queue, tx_queue') /\ tx_queue'.valid = tx_queue.valid
          /\ tx_queue'.write_idx = tx_queue.write_idx
      BY <1>1, <3>1, RingSizes, TQ!ProducerSteps, TQ!DropKeepsRing
    <3>3. QED BY <1>1, <3>2, OutboxStays
  <2>3. QED BY <2>1, <2>2
<1> HIDE DEF a, b, e
<1>7. CASE TxRoom
  <2>1. OutboxOf(prepare', tx_queue') = b \o << e >>
    BY <1>5, <1>7 DEF OutboxOf, UnderWay, b, e
  <2>2. a \o << e >> = Append(a, e)
    <3>1. PICK S : a \in Seq(S)
      BY <1>2
    <3>2. a \in Seq(S \cup {e}) /\ e \in S \cup {e}
      BY <3>1
    <3>3. QED BY <3>2, AppendIsConcat
  <2>3. QED BY <1>2, <1>3, <1>4, <1>6, <1>7, <2>1, <2>2 DEF e
<1>8. CASE ~TxRoom
  <2>1. OutboxOf(prepare', tx_queue') = a
    BY <1>2, <1>5, <1>6, <1>8 DEF OutboxOf, UnderWay, b
  <2>2. QED BY <1>2, <1>3, <1>4, <1>8, <2>1
<1>9. QED BY <1>7, <1>8

\* The packet the handler looks at is the first of the inbox, and freeing its
\* slot takes it out.
LEMMA InboxHead ==
  ASSUME SlotInv, SlotInv', RQ!packet_queue_read_slot_valid(rx_queue)
  PROVE  /\ Inbox # << >>
         /\ Head(Inbox) = ReceivedPacket(rx_queue.read_idx)
         /\ rx_queue' = RQ!packet_queue_consume_read_slot(rx_queue) => Inbox' = Tail(Inbox)
<1> DEFINE q == rx_queue
           d == rx_queue'
           view == RxView(rx_queue)
           after == RxView(rx_queue')
<1>1. RQ!Ring(q) /\ RQ!Ring(d) /\ q.read_idx \in RQ!Slot
  BY DEF SlotInv, RQ!Ring
<1>2. Inbox = RQ!Contents(q, view) /\ Inbox' = RQ!Contents(d, after)
  BY Boxes
<1>3. view[q.read_idx] = ReceivedPacket(q.read_idx)
  BY <1>1 DEF RxView, ReceivedPacket
<1>4. ASSUME d = RQ!packet_queue_consume_read_slot(q) PROVE after = view
  <2>1. d.meta = q.meta /\ d.bytes = q.bytes
    BY <1>1, <1>4 DEF RQ!packet_queue_consume_read_slot, RQ!Ring
  <2>2. QED BY <2>1 DEF RxView
<1> HIDE DEF view, after
<1>5. /\ RQ!Depth(q) > 0 /\ RQ!Contents(q, view)[1] = view[q.read_idx]
      /\ \E S : RQ!Contents(q, view) \in Seq(S)
      /\ Len(RQ!Contents(q, view)) = RQ!Depth(q)
  BY <1>1, RingSizes, RQ!ReadSlotIsFirst, RQ!ContentsLength
<1>6. Inbox # << >> /\ Head(Inbox) = Inbox[1]
  BY <1>2, <1>5
<1>7. ASSUME d = RQ!packet_queue_consume_read_slot(q) PROVE Inbox' = Tail(Inbox)
  <2>1. /\ d.valid = [q.valid EXCEPT ![q.read_idx] = FALSE]
        /\ d.read_idx = RQ!NextSlot(q.read_idx) /\ d.write_idx = q.write_idx
    BY <1>1, <1>7, RingSizes, RQ!ConsumeKeepsRing
  <2>2. \A s \in RQ!Slot : d.valid[s] => after[s] = view[s]
    BY <1>4, <1>7
  <2>3. RQ!packet_queue_read_slot_valid(q)
    OBVIOUS
  <2>4. RQ!Dequeued(RQ!Contents(q, view), RQ!Contents(d, after))
    BY ONLY <1>1, <2>1, <2>2, <2>3, RingSizes, RQ!ConsumeTakesFirst
  <2>5. QED BY <1>2, <2>4 DEF RQ!Dequeued
<1>8. QED BY <1>2, <1>3, <1>5, <1>6, <1>7

\* The verdict of the parse that ends is what the first packet asks for.
LEMMA FinishedAsks ==
  ASSUME ParseInv, FinishArp
  PROVE  LET packet == ReceivedPacket(rx_queue.read_idx)
             request == ArpReplyRequest(Field(ArpBytes, SenderMacAt, MacBytes),
                                        Field(ArpBytes, SenderIpAt, IpBytes))
         IN  /\ RQ!packet_queue_read_slot_valid(rx_queue)
             /\ Asks(packet) <=> ArpValid(ArpBytes)
             /\ RequestedBody(request) = Answer(packet)
             /\ Long(request) /\ Made(request)
<1> DEFINE bytes == rx_queue.bytes[rx_queue.read_idx]
           mac == Field(ArpBytes, SenderMacAt, MacBytes)
           ip == Field(ArpBytes, SenderIpAt, IpBytes)
<1>1. /\ protocol_state = "PROTO_PARSE_ARP" /\ LastArpByte
      /\ parse.rx_idx = rx_queue.read_idx
      /\ RQ!packet_queue_read_slot_valid(rx_queue) /\ LooksLikeArp(Waiting)
  BY DEF FinishArp, ParseInv, SlotInv, OwnsReadSlot
<1>2. \A i \in Kept : ArpBytes[i] = bytes[i]
  <2>1. \A i \in Kept : i <= parse.index
    BY <1>1, ArpLayout DEF Kept, LastArpByte
  <2>2. QED BY <1>1, <2>1, ArpBytesGrow
<1>3. /\ Field(ArpBytes, 0, Len(ArpRequestFields)) = Field(bytes, 0, Len(ArpRequestFields))
      /\ mac = Field(bytes, SenderMacAt, MacBytes)
      /\ ip = Field(bytes, SenderIpAt, IpBytes)
      /\ Field(ArpBytes, TargetIpAt, IpBytes) = Field(bytes, TargetIpAt, IpBytes)
  BY <1>2, FieldsAgree
<1>4. /\ ReceivedPacket(rx_queue.read_idx).meta = Waiting
      /\ ReceivedPacket(rx_queue.read_idx).bytes = bytes
  BY DEF ReceivedPacket, Waiting
<1>5. ArpValid(ArpBytes) <=> ArpRequestInfo(bytes).valid
  BY <1>3 DEF ArpValid, ArpRequestInfo
<1>6. Asks(ReceivedPacket(rx_queue.read_idx)) <=> ArpValid(ArpBytes)
  BY <1>1, <1>4, <1>5 DEF Asks
<1>7. ArpRequestInfo(bytes).sender_mac = mac /\ ArpRequestInfo(bytes).sender_ip = ip
  BY <1>3 DEF ArpRequestInfo
<1> HIDE DEF bytes
<1>8. RequestedBody(ArpReplyRequest(mac, ip)) = Answer(ReceivedPacket(rx_queue.read_idx))
  <2>1. /\ ArpReplyRequest(mac, ip).kind = "ARP_REPLY"
        /\ ArpReplyRequest(mac, ip).arp_requester_mac = mac
        /\ ArpReplyRequest(mac, ip).arp_requester_ip = ip
    BY DEF ArpReplyRequest, Request
  <2> HIDE DEF mac, ip
  <2>2. RequestedBody(ArpReplyRequest(mac, ip))
          = ArpReplyBody([sender_mac |-> mac, sender_ip |-> ip])
    BY <2>1 DEF RequestedBody
  <2>3. ArpReplyBody([sender_mac |-> mac, sender_ip |-> ip]) = ArpReplyBody(ArpRequestInfo(bytes))
    BY <1>7 DEF ArpReplyBody
  <2>4. QED BY <1>4, <2>2, <2>3 DEF Answer
<1>9. QED BY <1>1, <1>6, <1>8, RequestsAreLong, RequestsAreMade

\* The two frames the board sends on its own account are recognised as such,
\* whatever a beacon counts.
LEMMA OwnFramesArePeriodic ==
  ASSUME BodyInv
  PROVE  /\ Periodic(RequestedBody(protocol_tx_gratuitous_arp_request))
         /\ Periodic(RequestedBody(BeaconRequest))
<1>1. Periodic(RequestedBody(protocol_tx_gratuitous_arp_request))
  <2>1. RequestedBody(protocol_tx_gratuitous_arp_request) = GratuitousArpBody
    BY RequestKinds DEF RequestedBody
  <2>2. QED BY <2>1 DEF Periodic
<1>2. Periodic(RequestedBody(BeaconRequest))
  <2> DEFINE counts == BeaconRequest.counts
             header == BROADCAST_MAC \o FPGA_MAC \o DIAGNOSTIC_BEACON_ETHERTYPE
  <2>1. RequestedBody(BeaconRequest) = BeaconBody(counts)
    BY RequestKinds DEF RequestedBody
  <2>2. counts \in [1 .. 7 -> Count]
    <3>1. Made(BeaconRequest)
      BY RequestsAreMade
    <3>2. BeaconRequest.kind = "BEACON"
      BY RequestKinds
    <3>3. ~Announces(BeaconRequest) /\ ~Answers(BeaconRequest)
      BY <3>2, RequestKinds DEF Announces, Answers
    <3>4. QED BY <3>1, <3>3 DEF Made, Reports
  <2> HIDE DEF counts
  <2>3. /\ BeaconText(counts) \in Seq(Nat) /\ BeaconText(NoCounts) \in Seq(Nat)
        /\ Len(BeaconText(counts)) = Len(BeaconText(NoCounts))
    BY <2>2, BodiesAssumption, FramesAssumption DEF Count
  <2>4. header \in Seq(Nat) /\ Len(header) = ETH_HEADER_BYTES
    <3>1. /\ FPGA_MAC \in Seq(Nat) /\ Len(FPGA_MAC) = MacBytes
          /\ BROADCAST_MAC \in Seq(Nat) /\ Len(BROADCAST_MAC) = MacBytes
          /\ DIAGNOSTIC_BEACON_ETHERTYPE \in Seq(Nat)
          /\ Len(DIAGNOSTIC_BEACON_ETHERTYPE) = Len(ARP_ETHERTYPE)
      BY FramesAssumption, WidthsAssumption DEF MacBytes
    <3>2. MacBytes \in Nat /\ Len(ARP_ETHERTYPE) \in Nat
      BY <3>1
    <3>3. /\ BROADCAST_MAC \o FPGA_MAC \in Seq(Nat)
          /\ Len(BROADCAST_MAC \o FPGA_MAC) = MacBytes + MacBytes
      <4>1. BROADCAST_MAC \in Seq(Nat) /\ FPGA_MAC \in Seq(Nat)
        BY <3>1
      <4>2. Len(BROADCAST_MAC \o FPGA_MAC) = Len(BROADCAST_MAC) + Len(FPGA_MAC)
        BY <4>1
      <4>3. BROADCAST_MAC \o FPGA_MAC \in Seq(Nat)
        BY <4>1
      <4>4. QED BY <3>1, <4>2, <4>3
    <3>4. /\ header \in Seq(Nat)
          /\ Len(header) = MacBytes + MacBytes + Len(ARP_ETHERTYPE)
      BY <3>1, <3>3, ConcatProperties
    <3> HIDE DEF header
    <3>5. QED BY <3>2, <3>4 DEF ETH_HEADER_BYTES
  <2>5. ASSUME NEW c, BeaconText(c) \in Seq(Nat)
        PROVE  /\ Len(BeaconBody(c)) = ETH_HEADER_BYTES + Len(BeaconText(c))
               /\ EthernetHeader(BeaconBody(c)) = header
    <3>1. BeaconBody(c) = header \o BeaconText(c)
      BY DEF BeaconBody
    <3> HIDE DEF header
    <3>2. /\ Len(header \o BeaconText(c)) = ETH_HEADER_BYTES + Len(BeaconText(c))
          /\ SubSeq(header \o BeaconText(c), 1, Len(header)) = header
      BY <2>4, <2>5
    <3>3. QED BY <2>4, <3>1, <3>2 DEF EthernetHeader
  <2> HIDE DEF header
  <2>6. QED BY <2>1, <2>3, <2>5 DEF Periodic, IsBeacon
<1>3. QED BY <1>1, <1>2

\* Both parts of the outbox are sequences over one set.
LEMMA OutboxParts ==
  ASSUME TQ!Ring(tx_queue)
  PROVE  \E S : /\ TQ!Contents(tx_queue, TxView(tx_queue)) \in Seq(S)
                /\ UnderWay(prepare) \in Seq(S)
<1>1. PICK S : TQ!Contents(tx_queue, TxView(tx_queue)) \in Seq(S)
  BY RingSizes, TQ!ContentsLength
<1> DEFINE c == TQ!Contents(tx_queue, TxView(tx_queue))
           e == RequestedBody(prepare.request)
           T == S \cup {e}
<1>2. c \in Seq(T) /\ e \in T
  BY <1>1
<1>3. UnderWay(prepare) = << >> \/ UnderWay(prepare) = << e >>
  BY DEF UnderWay
<1> HIDE DEF c, e, T
<1>4. << >> \in Seq(T) /\ << e >> \in Seq(T)
  BY <1>2
<1>5. UnderWay(prepare) \in Seq(T)
  BY <1>3, <1>4
<1>6. QED BY <1>2, <1>5 DEF c

\* A cycle of the handler takes the first packet and answers it, or takes it
\* and does not, or sends on its own account, or is not noticed outside.
LEMMA HandlesAsPost ==
  ASSUME Joint, Joint', HandleCycle
  PROVE  Service!PostNext \/ UNCHANGED Service!postVars
<1>1. /\ ParseInv /\ BodyInv /\ BodyInv' /\ SlotInv /\ SlotInv'
      /\ protocol_queue_step /\ collector' = collector
  BY DEF Joint, BodyInv, HandleCycle
<1>2. /\ Outbox = OutboxOf(prepare, tx_queue)
      /\ Outbox' = OutboxOf(prepare', tx_queue')
  BY <1>1, Boxes
<1>3. ASSUME NothingStarted PROVE Outbox' = Outbox
  BY <1>1, <1>2, <1>3, PreparingOnOutbox
<1>4. ASSUME rx_queue' = rx_queue PROVE Inbox' = Inbox
  BY <1>4 DEF Inbox, ReceivedPacket
<1>5. ASSUME NEW request, Long(request), ~prepare.active, Start(request)
      PROVE  /\ TxRoom => /\ Outbox' = Append(Outbox, RequestedBody(request))
                          /\ Len(Outbox) < TxSlots
             /\ ~TxRoom => Outbox' = Outbox /\ Len(Outbox) = TxSlots
  BY <1>1, <1>2, <1>5, StartOnOutbox
<1>6. collector.delivered' = collector.delivered
  BY <1>1
<1>7. \E S : Outbox \in Seq(S)
  <2>1. PICK S : /\ TQ!Contents(tx_queue, TxView(tx_queue)) \in Seq(S)
                 /\ UnderWay(prepare) \in Seq(S)
    BY <1>1, OutboxParts DEF SlotInv
  <2> DEFINE c == TQ!Contents(tx_queue, TxView(tx_queue))
             u == UnderWay(prepare)
  <2>2. c \in Seq(S) /\ u \in Seq(S) /\ Outbox = c \o u
    BY <1>2, <2>1 DEF OutboxOf
  <2> HIDE DEF c, u
  <2>3. QED BY <2>2
<1>8. CASE NothingStarted /\ rx_queue' = rx_queue
  BY <1>3, <1>4, <1>6, <1>8 DEF Service!postVars
<1>9. ASSUME NEW request, Long(request), ~prepare.active, Start(request), rx_queue' = rx_queue,
             Periodic(RequestedBody(request))
      PROVE  Service!PostNext \/ UNCHANGED Service!postVars
  <2>1. CASE TxRoom
    <3>1. /\ Outbox' = Append(Outbox, RequestedBody(request)) /\ Len(Outbox) < TxSlots
          /\ Inbox' = Inbox
      BY <1>4, <1>5, <1>9, <2>1
    <3> DEFINE e == RequestedBody(request)
    <3>2. Periodic(e) /\ Outbox' = Append(Outbox, e)
      BY <1>9, <3>1
    <3> HIDE DEF e
    <3>3. /\ Len(Outbox') = Len(Outbox) + 1 /\ SubSeq(Outbox', 1, Len(Outbox)) = Outbox
          /\ Outbox'[Len(Outbox')] = e
      <4>1. PICK S : Outbox \in Seq(S)
        BY <1>7
      <4> DEFINE o == Outbox
                 p == Outbox'
                 T == S \cup {e}
      <4>2. o \in Seq(T) /\ p = Append(o, e) /\ e \in T
        BY <3>2, <4>1
      <4> HIDE DEF o, p, T
      <4>3. Len(p) = Len(o) + 1 /\ p[Len(p)] = e /\ SubSeq(p, 1, Len(o)) = o
        BY <4>2
      <4>4. QED BY <4>3 DEF o, p
    <3>4. Service!Announce
      BY <1>6, <3>1, <3>2, <3>3 DEF Service!Announce
    <3>5. QED BY <3>4 DEF Service!PostNext
  <2>2. CASE ~TxRoom
    BY <1>4, <1>5, <1>6, <1>9, <2>2 DEF Service!postVars
  <2>3. QED BY <2>1, <2>2
<1>10. CASE SendGratuitousArp
  BY <1>1, <1>9, <1>10, RequestsAreLong, OwnFramesArePeriodic DEF SendGratuitousArp, Free
<1>11. CASE SendBeacon
  BY <1>1, <1>9, <1>11, RequestsAreLong, OwnFramesArePeriodic DEF SendBeacon, Free
<1>12. CASE DropWaiting
  <2>1. /\ RQ!packet_queue_read_slot_valid(rx_queue) /\ ~LooksLikeArp(Waiting)
        /\ rx_queue' = RQ!packet_queue_consume_read_slot(rx_queue) /\ NothingStarted
    BY <1>12 DEF DropWaiting, PacketWaiting
  <2>2. Inbox # << >> /\ Head(Inbox) = ReceivedPacket(rx_queue.read_idx) /\ Inbox' = Tail(Inbox)
    BY <1>1, <2>1, InboxHead
  <2>3. ~Asks(ReceivedPacket(rx_queue.read_idx))
    BY <2>1 DEF Asks, ReceivedPacket, Waiting
  <2>4. Service!Decline
    BY <1>3, <1>6, <2>1, <2>2, <2>3 DEF Service!Decline
  <2>5. QED BY <2>4 DEF Service!PostNext
<1>13. CASE FinishArp
  <2> DEFINE packet == ReceivedPacket(rx_queue.read_idx)
             request == ArpReplyRequest(Field(ArpBytes, SenderMacAt, MacBytes),
                                        Field(ArpBytes, SenderIpAt, IpBytes))
  <2>1. /\ RQ!packet_queue_read_slot_valid(rx_queue) /\ (Asks(packet) <=> ArpValid(ArpBytes))
        /\ RequestedBody(request) = Answer(packet) /\ Long(request)
    BY <1>1, <1>13, FinishedAsks
  <2>2. /\ rx_queue' = RQ!packet_queue_consume_read_slot(rx_queue) /\ ~prepare.active
        /\ ArpValid(ArpBytes) => Start(request)
        /\ ~ArpValid(ArpBytes) => NothingStarted
    BY <1>13 DEF FinishArp
  <2> HIDE DEF packet, request
  <2>3. Inbox # << >> /\ Head(Inbox) = packet /\ Inbox' = Tail(Inbox)
    BY <1>1, <2>1, <2>2, InboxHead DEF packet
  <2>4. CASE Asks(packet) /\ TxRoom
    <3>1. Outbox' = Append(Outbox, Answer(Head(Inbox))) /\ Len(Outbox) < TxSlots
      BY <1>5, <2>1, <2>2, <2>3, <2>4
    <3>2. Service!Answer
      BY <1>6, <2>3, <2>4, <3>1 DEF Service!Answer
    <3>3. QED BY <3>2 DEF Service!PostNext
  <2>5. CASE Asks(packet) /\ ~TxRoom
    <3>1. Outbox' = Outbox /\ Len(Outbox) = TxSlots
      BY <1>5, <2>1, <2>2, <2>5
    <3>2. Service!Decline
      BY <1>6, <2>3, <3>1 DEF Service!Decline
    <3>3. QED BY <3>2 DEF Service!PostNext
  <2>6. CASE ~Asks(packet)
    <3>1. Outbox' = Outbox
      BY <1>3, <2>1, <2>2, <2>6
    <3>2. Service!Decline
      BY <1>6, <2>3, <2>6, <3>1 DEF Service!Decline
    <3>3. QED BY <3>2 DEF Service!PostNext
  <2>7. QED BY <2>4, <2>5, <2>6
<1>14. QED
  BY <1>1, <1>8, <1>10, <1>11, <1>12, <1>13
  DEF protocol_queue_step, Preparing, BeginParse, NothingToDo, ParseArpByte

\* The receive step puts one packet behind the others, or is not noticed
\* outside.
LEMMA ReceivesAsPost ==
  ASSUME Joint, Joint', Receives
  PROVE  Service!Receive \/ UNCHANGED Service!postVars
<1>1. SlotInv /\ SlotInv' /\ BodyInv /\ BodyInv' /\ RQ!Ring(rx_queue) /\ RQ!Ring(rx_queue')
  BY DEF Joint, BodyInv, SlotInv
<1>2. /\ tx_queue' = tx_queue /\ prepare' = prepare /\ collector' = collector
  BY DEF Receives, BeginFrame, SendNibble, EndFrame, LeaveLineIdle, ReceiveCycle, handlerVars
<1>3. Outbox' = Outbox
  BY <1>1, <1>2, Boxes
<1>4. /\ Inbox = RQ!Contents(rx_queue, RxView(rx_queue))
      /\ Inbox' = RQ!Contents(rx_queue', RxView(rx_queue'))
  BY <1>1, Boxes
<1>5. ASSUME RQ!ByProducer(rx_queue, rx_queue'), rx_queue'.valid = rx_queue.valid,
             rx_queue'.write_idx = rx_queue.write_idx
      PROVE  UNCHANGED Service!postVars
  <2>1. Inbox' = Inbox
    BY <1>1, <1>4, <1>5, InboxStays
  <2>2. QED BY <1>2, <1>3, <2>1 DEF Service!postVars
<1>6. CASE rx_queue' = rx_queue
  BY <1>1, <1>5, <1>6, RingSizes, RQ!ProducerSteps
<1>7. CASE rx_queue' = RQ!packet_queue_drop_write(rx_queue)
  BY <1>1, <1>5, <1>7, RingSizes, RQ!ProducerSteps, RQ!DropKeepsRing
<1>8. ASSUME NEW i, NEW byte, RQ!packet_queue_write_slot_available(rx_queue),
             rx_queue' = RQ!StoreByte(rx_queue, rx_queue.write_idx, i, byte)
      PROVE  UNCHANGED Service!postVars
  <2>1. rx_queue.write_idx \in RQ!Slot /\ ~rx_queue.valid[rx_queue.write_idx]
    BY <1>1, <1>8 DEF RQ!Ring, RQ!packet_queue_write_slot_available
  <2>2. RQ!ByProducer(rx_queue, RQ!StoreByte(rx_queue, rx_queue.write_idx, i, byte))
    BY <1>1, <2>1, RingSizes, RQ!ProducerSteps, Zenon
  <2>3. rx_queue'.valid = rx_queue.valid /\ rx_queue'.write_idx = rx_queue.write_idx
    BY <1>1, <1>8 DEF RQ!Ring, RQ!StoreByte
  <2>4. QED BY <1>5, <1>8, <2>2, <2>3
<1>9. ASSUME NEW meta, RQ!packet_queue_write_slot_available(rx_queue),
             rx_queue' = RQ!packet_queue_publish_write_slot(rx_queue, meta)
      PROVE  Service!Receive
  <2> DEFINE q == rx_queue
             d == rx_queue'
             old == RxView(rx_queue)
             new == RxView(rx_queue')
  <2>1. RQ!ByProducer(q, d)
    BY <1>1, <1>9, RingSizes, RQ!ProducerSteps
  <2>2. \A s \in RQ!Slot : q.valid[s] => new[s] = old[s]
    BY <2>1 DEF RQ!ByProducer, RxView
  <2>3. /\ RQ!Ring(q) /\ RQ!packet_queue_write_slot_available(q) /\ RQ!Ring(d)
        /\ d.valid = [q.valid EXCEPT ![q.write_idx] = TRUE]
        /\ d.read_idx = q.read_idx /\ d.write_idx = RQ!NextSlot(q.write_idx)
    BY <1>1, <1>9, RingSizes, RQ!PublishKeepsRing
  <2> HIDE DEF old, new
  <2>4. RQ!Enqueued(RQ!Contents(q, old), RQ!Contents(d, new))
    BY ONLY <2>2, <2>3, RingSizes, RQ!PublishAppends
  <2>5. RQ!Enqueued(Inbox, Inbox')
    BY <1>4, <2>4 DEF old, new
  <2>6. QED BY <1>2, <1>3, <2>5 DEF RQ!Enqueued, Service!Receive
<1>10. QED
  BY <1>6, <1>7, <1>8, <1>9, ReceiveOnRxRing DEF Joint

----------------------------------------------------------------------------
(* The station collects.                                                   *)

Freed == tx_queue'.read_idx # tx_queue.read_idx

CollectorOK ==
  /\ DOMAIN collector = {"bytes", "low", "last", "delivered"}
  /\ \E S : collector.bytes \in Seq(S)
  /\ collector.delivered \in BOOLEAN

\* An appended byte is there.
LEMMA AppendedIsThere ==
  ASSUME NEW S, NEW s \in Seq(S), NEW e
  PROVE  Append(s, e) # << >> /\ \E T : Append(s, e) \in Seq(T)
<1> DEFINE T == S \cup {e}
<1>1. s \in Seq(T) /\ e \in T
  OBVIOUS
<1> HIDE DEF T
<1>2. Append(s, e) \in Seq(T) /\ Len(Append(s, e)) = Len(s) + 1 /\ Len(s) \in Nat
  BY <1>1
<1>3. Append(s, e) # << >>
  BY <1>2
<1>4. QED BY <1>2, <1>3

\* What the station makes of a cycle of the framer: a pause ends a frame, a
\* nibble is held or completes a byte.
LEMMA Sampled ==
  ASSUME CollectorOK, TransmitCycle
  PROVE  /\ DOMAIN collector' = {"bytes", "low", "last", "delivered"}
         /\ pins'.en = 0 =>
              /\ collector'.bytes = << >> /\ collector'.low = << >>
              /\ collector'.last = IF collector.bytes = << >> THEN collector.last
                                                              ELSE collector.bytes
              /\ collector'.delivered
                   = ((collector.delivered \/ collector.bytes # << >>) /\ ~Freed)
         /\ pins'.en # 0 =>
              /\ collector'.last = collector.last
              /\ collector'.delivered = (collector.delivered /\ ~Freed)
              /\ collector.low = << >> => /\ collector'.low = << pins'.d >>
                                          /\ collector'.bytes = collector.bytes
              /\ collector.low # << >> =>
                   /\ collector'.low = << >>
                   /\ collector'.bytes
                        = Append(collector.bytes, collector.low[1] + 16 * pins'.d)
<1> DEFINE c == collector
           seen == Collected(collector, pins'.en, pins'.d)
           gone == c.delivered \/ c.bytes # << >>
           flag == seen.delivered /\ ~Freed
           last == IF c.bytes = << >> THEN c.last ELSE c.bytes
           longer == Append(c.bytes, c.low[1] + 16 * pins'.d)
           held == << pins'.d >>
           F == {"bytes", "low", "last", "delivered"}
<1>1. DOMAIN c = F
  BY DEF CollectorOK
<1>2. collector' = [seen EXCEPT !.delivered = flag]
  BY DEF TransmitCycle, Freed
<1>3. ASSUME pins'.en = 0
      PROVE  /\ DOMAIN seen = F /\ seen.bytes = << >> /\ seen.low = << >>
             /\ seen.last = last /\ seen.delivered = gone
  <2>1. seen = [c EXCEPT !.bytes = << >>, !.low = << >>, !.last = last, !.delivered = gone]
    BY <1>3 DEF Collected
  <2> HIDE DEF seen, gone, last, c
  <2>2. QED BY <1>1, <2>1
<1>4. ASSUME pins'.en # 0, c.low = << >>
      PROVE  /\ DOMAIN seen = F /\ seen.bytes = c.bytes /\ seen.low = held
             /\ seen.last = c.last /\ seen.delivered = c.delivered
  <2>1. seen = [c EXCEPT !.low = held]
    BY <1>4 DEF Collected
  <2> HIDE DEF seen, c, held
  <2>2. QED BY <1>1, <2>1
<1>5. ASSUME pins'.en # 0, c.low # << >>
      PROVE  /\ DOMAIN seen = F /\ seen.bytes = longer /\ seen.low = << >>
             /\ seen.last = c.last /\ seen.delivered = c.delivered
  <2>1. seen = [c EXCEPT !.low = << >>, !.bytes = longer]
    BY <1>5 DEF Collected
  <2> HIDE DEF seen, c, longer
  <2>2. QED BY <1>1, <2>1
<1>6. DOMAIN seen = F
  BY <1>3, <1>4, <1>5
<1>7. /\ DOMAIN collector' = F /\ collector'.bytes = seen.bytes
      /\ collector'.low = seen.low /\ collector'.last = seen.last
      /\ collector'.delivered = flag
  <2> HIDE DEF seen, flag
  <2>1. QED BY <1>2, <1>6
<1>8. ASSUME pins'.en = 0
      PROVE  /\ collector'.bytes = << >> /\ collector'.low = << >>
             /\ collector'.last = last /\ collector'.delivered = (gone /\ ~Freed)
  <2>1. /\ seen.delivered = gone /\ seen.bytes = << >> /\ seen.low = << >>
        /\ seen.last = last
    BY <1>3, <1>8
  <2> HIDE DEF seen, gone, last
  <2>2. QED BY <1>7, <2>1
<1>9. ASSUME pins'.en # 0
      PROVE  /\ collector'.last = c.last /\ collector'.delivered = (c.delivered /\ ~Freed)
             /\ c.low = << >> => collector'.low = held /\ collector'.bytes = c.bytes
             /\ c.low # << >> => collector'.low = << >> /\ collector'.bytes = longer
  <2>1. seen.delivered = c.delivered /\ seen.last = c.last
    BY <1>4, <1>5, <1>9
  <2> HIDE DEF seen, c, longer, held
  <2>2. QED BY <1>4, <1>5, <1>7, <1>9, <2>1
<1>10. QED BY <1>7, <1>8, <1>9

\* Of which the flags and the lengths are a part.
LEMMA Samples ==
  ASSUME CollectorOK, TransmitCycle
  PROVE  /\ CollectorOK'
         /\ pins'.en = 0 =>
              /\ collector'.bytes = << >> /\ collector'.low = << >>
              /\ collector'.delivered <=>
                   (collector.delivered \/ collector.bytes # << >>) /\ ~Freed
         /\ pins'.en = 1 =>
              /\ collector'.delivered <=> collector.delivered /\ ~Freed
              /\ collector.low = << >> => /\ collector'.low # << >>
                                          /\ collector'.bytes = collector.bytes
              /\ collector.low # << >> => /\ collector'.low = << >>
                                          /\ collector'.bytes # << >>
<1> DEFINE c == collector
           longer == Append(c.bytes, c.low[1] + 16 * pins'.d)
<1>1. PICK S : c.bytes \in Seq(S)
  BY DEF CollectorOK
<1>2. longer # << >> /\ \E T : longer \in Seq(T)
  BY <1>1, AppendedIsThere
<1>3. c.delivered \in BOOLEAN /\ << >> \in Seq(S) /\ << pins'.d >> # << >>
  BY DEF CollectorOK
<1> HIDE DEF c, longer
<1>4. /\ DOMAIN collector' = {"bytes", "low", "last", "delivered"}
      /\ collector'.bytes \in {<< >>, c.bytes, longer}
      /\ collector'.delivered \in BOOLEAN
  BY Sampled DEF c, longer
<1>5. CollectorOK'
  BY <1>1, <1>2, <1>3, <1>4 DEF CollectorOK
<1>6. ASSUME pins'.en = 0
      PROVE  /\ collector'.bytes = << >> /\ collector'.low = << >>
             /\ collector'.delivered <=>
                  (collector.delivered \/ collector.bytes # << >>) /\ ~Freed
  BY <1>6, Sampled
<1>7. ASSUME pins'.en = 1
      PROVE  /\ collector'.delivered <=> collector.delivered /\ ~Freed
             /\ collector.low = << >> => /\ collector'.low # << >>
                                         /\ collector'.bytes = collector.bytes
             /\ collector.low # << >> => /\ collector'.low = << >>
                                         /\ collector'.bytes # << >>
  <2>1. pins'.en # 0 BY <1>7
  <2>2. /\ collector'.delivered = (collector.delivered /\ ~Freed)
        /\ collector.low = << >> => /\ collector'.low = << pins'.d >>
                                    /\ collector'.bytes = collector.bytes
        /\ collector.low # << >> => collector'.low = << >> /\ collector'.bytes = longer
    BY <2>1, Sampled DEF c, longer
  <2>3. QED BY <1>2, <1>3, <2>2
<1>8. QED BY <1>5, <1>6, <1>7

SendingStates == {"TX_PREAMBLE", "TX_DATA", "TX_FCS"}

\* What a cycle of the framer shows the station, and when it goes on.
LEMMA FramerCycles ==
  ASSUME FramerInv, framer.nibble_phase \in BOOLEAN, framer.ifg_count \in Nat,
         Tx!ethernet_tx_queue_step
  PROVE  /\ framer'.nibble_phase \in BOOLEAN /\ framer'.ifg_count \in Nat
         /\ \/ /\ framer.state = "TX_IDLE" /\ framer'.state \in {"TX_IDLE", "TX_PREAMBLE"}
               /\ pins'.en = 0 /\ ~framer'.nibble_phase /\ tx_queue' = tx_queue
            \/ /\ framer.state \in SendingStates /\ framer'.state \in SendingStates
               /\ framer'.state = framer.state \/ framer.nibble_phase
               /\ framer'.state \in {"TX_DATA", "TX_FCS"} =>
                    framer.state \in {"TX_DATA", "TX_FCS"} \/ framer.nibble_phase
               /\ pins'.en = 1 /\ tx_queue' = tx_queue
               /\ framer'.nibble_phase <=> ~framer.nibble_phase
            \/ /\ framer.state = "TX_FCS" /\ framer'.state = "TX_IFG"
               /\ framer.nibble_phase /\ framer'.ifg_count = 0
               /\ pins'.en = 1 /\ tx_queue' = tx_queue
            \/ /\ framer.state = "TX_IFG" /\ framer'.state = "TX_IFG"
               /\ framer.ifg_count # IFG_NIBBLES - 1
               /\ framer'.ifg_count = framer.ifg_count + 1
               /\ pins'.en = 0 /\ tx_queue' = tx_queue
            \/ /\ framer.state = "TX_IFG" /\ framer'.state = "TX_IDLE"
               /\ framer.ifg_count = IFG_NIBBLES - 1
               /\ pins'.en = 0
               /\ tx_queue' = TQ!packet_queue_consume_read_slot(tx_queue)
<1> DEFINE flip == ~framer.nibble_phase
           turned == [framer EXCEPT !.nibble_phase = flip]
<1>1. /\ DOMAIN framer = FramerFields
      /\ framer_active <=> framer.state # "TX_IDLE"
      /\ flip \in BOOLEAN
  BY DEF FramerInv, Tx!FramerOwnsReadSlot
<1>2. /\ DOMAIN turned = FramerFields /\ turned.nibble_phase = flip
      /\ turned.state = framer.state /\ turned.ifg_count = framer.ifg_count
  <2> HIDE DEF flip
  <2>1. QED BY <1>1 DEF FramerFields
<1>3. CASE Tx!IdleCycle
  BY <1>1, <1>3 DEF Tx!IdleCycle, Tx!StartRequest, Tx!Handshake, Tx!Quiet, FramerFields
<1>4. CASE Tx!PreambleCycle
  <2>1. /\ framer.state = "TX_PREAMBLE" /\ pins'.en = 1 /\ tx_queue' = tx_queue
        /\ framer' = IF ~framer.nibble_phase THEN turned
                     ELSE IF framer.byte_index = SfdIndex
                            THEN [turned EXCEPT !.state = "TX_DATA", !.byte_index = 0]
                            ELSE [turned EXCEPT !.byte_index = @ + 1]
    BY <1>4 DEF Tx!PreambleCycle, Tx!Handshake, Tx!Emit
  <2> HIDE DEF turned
  <2>2. QED BY <1>2, <2>1 DEF FramerFields, SendingStates
<1>5. CASE Tx!DataCycle
  <2> DEFINE byte == Tx!tx_frame_body_byte(tx_queue.bytes[Tx!CurrentSlot],
                                            framer.byte_index, framer.len)
             next == Tx!crc32_next_byte(framer.crc, byte)
  <2>1. /\ framer.state = "TX_DATA" /\ pins'.en = 1 /\ tx_queue' = tx_queue
        /\ framer' = IF ~framer.nibble_phase THEN turned
                     ELSE IF framer.byte_index = framer.frame_body_len - 1
                            THEN [[turned EXCEPT !.crc = next]
                                    EXCEPT !.state = "TX_FCS", !.fcs_index = 0,
                                           !.fcs = Tx!Complement(next)]
                            ELSE [[turned EXCEPT !.crc = next] EXCEPT !.byte_index = @ + 1]
    BY <1>5 DEF Tx!DataCycle, Tx!Handshake, Tx!Emit
  <2> HIDE DEF turned, next
  <2>2. QED BY <1>2, <2>1 DEF FramerFields, SendingStates
<1>6. CASE Tx!FcsCycle
  <2>1. /\ framer.state = "TX_FCS" /\ tx_queue' = tx_queue
        /\ framer' = IF ~framer.nibble_phase THEN turned
                     ELSE IF framer.fcs_index = 3 THEN Tx!FrameSent(turned)
                            ELSE [turned EXCEPT !.fcs_index = @ + 1]
    BY <1>6 DEF Tx!FcsCycle, Tx!Handshake
  <2>2. pins'.en = 1
    BY <1>6 DEF Tx!FcsCycle, Tx!Emit
  <2> HIDE DEF turned
  <2>3. /\ Tx!FrameSent(turned).state = "TX_IFG" /\ Tx!FrameSent(turned).ifg_count = 0
        /\ Tx!FrameSent(turned).nibble_phase = turned.nibble_phase
    BY <1>2 DEF FramerFields, Tx!FrameSent
  <2>4. CASE framer.nibble_phase /\ framer.fcs_index = 3
    <3> DEFINE sent == Tx!FrameSent(turned)
    <3>1. framer' = sent /\ sent.nibble_phase \in BOOLEAN
      BY <1>1, <1>2, <2>1, <2>3, <2>4
    <3>2. framer'.state = "TX_IFG" /\ framer'.ifg_count = 0
      BY <2>3, <3>1
    <3> HIDE DEF sent
    <3>3. QED BY <2>1, <2>2, <2>4, <3>1, <3>2
  <2>5. CASE ~(framer.nibble_phase /\ framer.fcs_index = 3)
    BY <1>2, <2>1, <2>2, <2>5 DEF FramerFields, SendingStates
  <2>6. QED BY <2>4, <2>5
<1>7. CASE Tx!GapCycle
  <2> DEFINE ended == framer.ifg_count = IFG_NIBBLES - 1
  <2>1. /\ framer.state = "TX_IFG" /\ framer_active /\ Tx!Handshake(ended) /\ pins'.en = 0
        /\ framer' = IF ended THEN [framer EXCEPT !.state = "TX_IDLE"]
                              ELSE [framer EXCEPT !.ifg_count = @ + 1]
    BY <1>1, <1>7 DEF Tx!GapCycle, Tx!Quiet
  <2>2. /\ framer'.state = IF ended THEN "TX_IDLE" ELSE "TX_IFG"
        /\ framer'.nibble_phase = framer.nibble_phase
        /\ framer'.ifg_count = IF ended THEN framer.ifg_count ELSE framer.ifg_count + 1
    BY <1>1, <2>1 DEF FramerFields
  <2>3. tx_queue' = IF ended THEN TQ!packet_queue_consume_read_slot(tx_queue) ELSE tx_queue
    BY <2>1, SameTxRing DEF Tx!Handshake
  <2>4. QED BY <2>1, <2>2, <2>3
<1>8. QED
  BY <1>3, <1>4, <1>5, <1>6, <1>7 DEF Tx!ethernet_tx_queue_step

\* What the station holds goes with what the framer does: it pairs nibbles in
\* step with it, has something of every frame, and counts the frame as
\* delivered from the first cycle of the gap until the slot is freed.
CollectorInv ==
  /\ CollectorOK
  /\ framer.nibble_phase \in BOOLEAN /\ framer.ifg_count \in Nat
  /\ framer.state \in {"TX_IDLE", "TX_IFG"} \union SendingStates
  /\ framer.state = "TX_IDLE" =>
       collector.bytes = << >> /\ collector.low = << >> /\ ~collector.delivered
  /\ framer.state \in SendingStates =>
       ~collector.delivered /\ (collector.low = << >> <=> ~framer.nibble_phase)
  /\ framer.state \in {"TX_DATA", "TX_FCS"} => collector.bytes # << >>
  /\ framer.state = "TX_IFG" =>
       /\ collector.low = << >>
       /\ IF framer.ifg_count = 0 THEN collector.bytes # << >> /\ ~collector.delivered
                                  ELSE collector.bytes = << >> /\ collector.delivered

\* Consuming moves the read index, so the station notices it.
LEMMA ConsumeIsNoticed ==
  ASSUME TQ!Ring(tx_queue)
  PROVE  /\ tx_queue' = TQ!packet_queue_consume_read_slot(tx_queue) => Freed
         /\ tx_queue' = tx_queue => ~Freed
<1>1. ASSUME tx_queue' = TQ!packet_queue_consume_read_slot(tx_queue) PROVE Freed
  <2>1. tx_queue'.read_idx = TQ!NextSlot(tx_queue.read_idx) /\ tx_queue.read_idx \in TQ!Slot
    BY <1>1 DEF TQ!packet_queue_consume_read_slot, TQ!Ring
  <2>2. TQ!NextSlot(tx_queue.read_idx) # tx_queue.read_idx
    BY <2>1, RingSizes, CollectorAssumption, TQ!NextSlotType
  <2>3. QED BY <2>1, <2>2 DEF Freed
<1>2. QED BY <1>1 DEF Freed

\* A cycle of the transmit step, as the station sees it.
LEMMA CollectorTransmits ==
  ASSUME SlotInv, FramerInv, CollectorInv, TransmitCycle
  PROVE  /\ CollectorInv'
         /\ \/ collector'.delivered = collector.delivered /\ tx_queue' = tx_queue
            \/ /\ framer_active /\ ~collector.delivered /\ collector'.delivered
               /\ tx_queue' = tx_queue
            \/ /\ framer_active /\ collector.delivered /\ ~collector'.delivered
               /\ tx_queue' = TQ!packet_queue_consume_read_slot(tx_queue)
<1>1. Tx!ethernet_tx_queue_step /\ CollectorOK /\ TQ!Ring(tx_queue)
  BY DEF TransmitCycle, CollectorInv, SlotInv
<1>2. framer.nibble_phase \in BOOLEAN /\ framer.ifg_count \in Nat
  BY DEF CollectorInv
<1>3. framer_active <=> framer.state # "TX_IDLE"
  BY DEF FramerInv, Tx!FramerOwnsReadSlot
<1>4. /\ CollectorOK' /\ framer'.nibble_phase \in BOOLEAN /\ framer'.ifg_count \in Nat
      /\ collector.delivered \in BOOLEAN /\ collector'.delivered \in BOOLEAN
  BY <1>1, <1>2, Samples, FramerCycles DEF CollectorOK
<1>5. /\ pins'.en = 0 =>
              /\ collector'.bytes = << >> /\ collector'.low = << >>
              /\ collector'.delivered <=>
                   (collector.delivered \/ collector.bytes # << >>) /\ ~Freed
      /\ pins'.en = 1 =>
              /\ collector'.delivered <=> collector.delivered /\ ~Freed
              /\ collector.low = << >> => /\ collector'.low # << >>
                                          /\ collector'.bytes = collector.bytes
              /\ collector.low # << >> => /\ collector'.low = << >>
                                          /\ collector'.bytes # << >>
  BY <1>1, Samples
<1>6. /\ tx_queue' = TQ!packet_queue_consume_read_slot(tx_queue) => Freed
      /\ tx_queue' = tx_queue => ~Freed
  BY <1>1, ConsumeIsNoticed
<1>7. CASE /\ framer.state = "TX_IDLE" /\ framer'.state \in {"TX_IDLE", "TX_PREAMBLE"}
           /\ pins'.en = 0 /\ ~framer'.nibble_phase /\ tx_queue' = tx_queue
  BY <1>4, <1>5, <1>6, <1>7 DEF CollectorInv, SendingStates
<1>8. CASE /\ framer.state \in SendingStates /\ framer'.state \in SendingStates
           /\ framer'.state = framer.state \/ framer.nibble_phase
           /\ framer'.state \in {"TX_DATA", "TX_FCS"} =>
                framer.state \in {"TX_DATA", "TX_FCS"} \/ framer.nibble_phase
           /\ pins'.en = 1 /\ tx_queue' = tx_queue
           /\ framer'.nibble_phase <=> ~framer.nibble_phase
  BY <1>4, <1>5, <1>6, <1>8 DEF CollectorInv, SendingStates
<1>9. CASE /\ framer.state = "TX_FCS" /\ framer'.state = "TX_IFG"
           /\ framer.nibble_phase /\ framer'.ifg_count = 0
           /\ pins'.en = 1 /\ tx_queue' = tx_queue
  BY <1>4, <1>5, <1>6, <1>9 DEF CollectorInv, SendingStates
<1>10. CASE /\ framer.state = "TX_IFG" /\ framer'.state = "TX_IFG"
            /\ framer.ifg_count # IFG_NIBBLES - 1
            /\ framer'.ifg_count = framer.ifg_count + 1
            /\ pins'.en = 0 /\ tx_queue' = tx_queue
  BY <1>2, <1>3, <1>4, <1>5, <1>6, <1>10 DEF CollectorInv, SendingStates
<1>11. CASE /\ framer.state = "TX_IFG" /\ framer'.state = "TX_IDLE"
            /\ framer.ifg_count = IFG_NIBBLES - 1
            /\ pins'.en = 0
            /\ tx_queue' = TQ!packet_queue_consume_read_slot(tx_queue)
  <2>1. framer.ifg_count # 0
    BY <1>2, <1>11, CollectorAssumption
  <2>2. QED
    BY <1>3, <1>4, <1>5, <1>6, <1>11, <2>1 DEF CollectorInv, SendingStates
<1>12. QED
  BY <1>1, <1>2, <1>7, <1>8, <1>9, <1>10, <1>11, FramerCycles

\* The station at first.
LEMMA CollectorAtFirst == EndpointInit => CollectorInv
<1> SUFFICES ASSUME EndpointInit PROVE CollectorInv
  OBVIOUS
<1>1. << >> \in Seq({})
  OBVIOUS
<1>2. collector = [bytes |-> << >>, low |-> << >>, last |-> << >>, delivered |-> FALSE]
  BY DEF EndpointInit
<1>3. CollectorOK /\ collector.bytes = << >> /\ collector.low = << >> /\ ~collector.delivered
  BY <1>1, <1>2 DEF CollectorOK
<1>4. framer.state = "TX_IDLE" /\ framer.nibble_phase \in BOOLEAN /\ framer.ifg_count \in Nat
  BY DEF EndpointInit, Tx!Init
<1>5. QED BY <1>3, <1>4 DEF CollectorInv, SendingStates

\* No call but the transmit step concerns the station's collector.
LEMMA CollectorNext ==
  ASSUME Joint, CollectorInv, [Call]_vars
  PROVE  CollectorInv'
<1>1. CASE TransmitCycle
  BY <1>1, CollectorTransmits DEF Joint, BodyInv
<1>2. CASE ~TransmitCycle
  <2>1. collector' = collector /\ framer' = framer
    BY <1>2 DEF Call, vars, transmitVars, HandleCycle, BeginFrame, SendNibble, EndFrame,
                LeaveLineIdle, ReceiveCycle
  <2>2. QED BY <2>1 DEF CollectorInv, CollectorOK
<1>3. QED BY <1>1, <1>2

----------------------------------------------------------------------------
(* Every call is a step of ArpResponder, or is not noticed outside.        *)

\* The first frame of the outbox is in the slot at the read index; it goes
\* when that slot is freed.
LEMMA OutboxHead ==
  ASSUME SlotInv, SlotInv', TQ!packet_queue_read_slot_valid(tx_queue), prepare' = prepare
  PROVE  /\ Outbox # << >>
         /\ tx_queue' = TQ!packet_queue_consume_read_slot(tx_queue) => Outbox' = Tail(Outbox)
<1> DEFINE q == tx_queue
           d == tx_queue'
           view == TxView(tx_queue)
           after == TxView(tx_queue')
           a == TQ!Contents(q, view)
           b == TQ!Contents(d, after)
           u == UnderWay(prepare)
<1>1. TQ!Ring(q) /\ TQ!Ring(d)
  BY DEF SlotInv
<1>2. Outbox = a \o u /\ Outbox' = b \o u
  BY Boxes DEF OutboxOf
<1>3. ASSUME d = TQ!packet_queue_consume_read_slot(q)
      PROVE  TQ!Dequeued(a, b)
  <2>1. /\ d.valid = [q.valid EXCEPT ![q.read_idx] = FALSE]
        /\ d.read_idx = TQ!NextSlot(q.read_idx) /\ d.write_idx = q.write_idx
        /\ d.meta = q.meta /\ d.bytes = q.bytes
    BY <1>1, <1>3, RingSizes, TQ!ConsumeKeepsRing
  <2>2. after = view
    BY <2>1 DEF TxView, SlotBody
  <2>3. TQ!packet_queue_read_slot_valid(q)
    OBVIOUS
  <2> HIDE DEF view, after
  <2>4. \A s \in TQ!Slot : d.valid[s] => after[s] = view[s]
    BY <2>2
  <2>5. TQ!Dequeued(TQ!Contents(q, view), TQ!Contents(d, after))
    BY ONLY <1>1, <2>1, <2>3, <2>4, RingSizes, TQ!ConsumeTakesFirst
  <2>6. QED BY <2>5
<1>4. PICK S : a \in Seq(S) /\ u \in Seq(S)
  BY <1>1, OutboxParts
<1>5. Len(a) > 0
  <2> HIDE DEF view
  <2>1. TQ!Depth(q) > 0 /\ Len(a) = TQ!Depth(q)
    BY <1>1, RingSizes, TQ!ReadSlotIsFirst, TQ!ContentsLength
  <2>2. QED BY <2>1
<1> HIDE DEF a, b, u
<1>6. Len(a \o u) = Len(a) + Len(u) /\ a \o u \in Seq(S) /\ Len(u) \in Nat /\ Len(a) \in Nat
  BY <1>4
<1>7. Outbox # << >>
  BY <1>2, <1>5, <1>6
<1>8. Tail(a \o u) = Tail(a) \o u
  <2> DEFINE c == Tail(a \o u)
             e == Tail(a) \o u
  <2>1. Tail(a) \in Seq(S) /\ Len(Tail(a)) = Len(a) - 1
        /\ \A k \in 1 .. Len(a) - 1 : Tail(a)[k] = a[k + 1]
    BY <1>4, <1>5
  <2>2. c \in Seq(S) /\ Len(c) = Len(a) + Len(u) - 1
        /\ \A k \in 1 .. Len(a) + Len(u) - 1 : c[k] = (a \o u)[k + 1]
    BY <1>5, <1>6
  <2>3. e \in Seq(S) /\ Len(e) = Len(a) - 1 + Len(u)
        /\ \A k \in 1 .. Len(a) - 1 + Len(u) :
             e[k] = IF k <= Len(a) - 1 THEN Tail(a)[k] ELSE u[k - (Len(a) - 1)]
    BY <1>4, <1>5, <1>6, <2>1
  <2>4. \A k \in 1 .. Len(a) + Len(u) :
          (a \o u)[k] = IF k <= Len(a) THEN a[k] ELSE u[k - Len(a)]
    BY <1>4
  <2> HIDE DEF c, e
  <2>5. \A k \in 1 .. Len(c) : c[k] = e[k]
    <3> TAKE k \in 1 .. Len(c)
    <3>1. k + 1 \in 1 .. Len(a) + Len(u) /\ k \in 1 .. Len(a) - 1 + Len(u) /\ k \in Nat
      BY <1>6, <2>2
    <3>2. c[k] = IF k + 1 <= Len(a) THEN a[k + 1] ELSE u[(k + 1) - Len(a)]
      BY <1>6, <2>2, <2>4, <3>1
    <3>3. e[k] = IF k <= Len(a) - 1 THEN Tail(a)[k] ELSE u[k - (Len(a) - 1)]
      BY <2>3, <3>1
    <3>4. (k + 1) - Len(a) = k - (Len(a) - 1) /\ (k + 1 <= Len(a) <=> k <= Len(a) - 1)
      BY <1>6, <3>1
    <3>5. k <= Len(a) - 1 => Tail(a)[k] = a[k + 1]
      BY <1>6, <2>1, <3>1
    <3>6. QED BY <3>2, <3>3, <3>4, <3>5
  <2>6. Len(c) = Len(e)
    BY <1>6, <2>2, <2>3
  <2>7. c = e
    BY <2>2, <2>3, <2>5, <2>6
  <2>8. QED BY <2>7 DEF c, e
<1>9. QED BY <1>2, <1>3, <1>7, <1>8 DEF TQ!Dequeued

\* A cycle of the transmit step delivers the first frame, or gives up its
\* place, or is not noticed outside.
LEMMA TransmitsAsPost ==
  ASSUME Joint, Joint', CollectorInv, TransmitCycle
  PROVE  Service!Deliver \/ Service!Release \/ UNCHANGED Service!postVars
<1>1. SlotInv /\ SlotInv' /\ FramerInv
  BY DEF Joint, BodyInv
<1>2. rx_queue' = rx_queue /\ prepare' = prepare
  BY DEF TransmitCycle, handlerVars
<1>3. Inbox' = Inbox
  BY <1>2 DEF Inbox, ReceivedPacket
<1>4. tx_queue' = tx_queue => Outbox' = Outbox
  BY <1>1, <1>2, Boxes
<1>5. framer_active => TQ!packet_queue_read_slot_valid(tx_queue)
  BY <1>1 DEF FramerInv, Tx!FramerOwnsReadSlot, TQ!packet_queue_read_slot_valid
<1>6. framer_active =>
        /\ Outbox # << >>
        /\ tx_queue' = TQ!packet_queue_consume_read_slot(tx_queue) => Outbox' = Tail(Outbox)
  BY <1>1, <1>2, <1>5, OutboxHead
<1>7. collector.delivered \in BOOLEAN /\ CollectorInv'
  BY <1>1, CollectorTransmits DEF CollectorInv, CollectorOK
<1>8. CASE collector'.delivered = collector.delivered /\ tx_queue' = tx_queue
  BY <1>3, <1>4, <1>8 DEF Service!postVars
<1>9. CASE /\ framer_active /\ ~collector.delivered /\ collector'.delivered
           /\ tx_queue' = tx_queue
  <2>1. collector'.delivered = TRUE
    BY <1>7, <1>9 DEF CollectorInv, CollectorOK
  <2>2. QED BY <1>3, <1>4, <1>6, <1>9, <2>1 DEF Service!Deliver
<1>10. CASE /\ framer_active /\ collector.delivered /\ ~collector'.delivered
            /\ tx_queue' = TQ!packet_queue_consume_read_slot(tx_queue)
  <2>1. collector'.delivered = FALSE
    BY <1>7, <1>10 DEF CollectorInv, CollectorOK
  <2>2. QED BY <1>3, <1>6, <1>10, <2>1 DEF Service!Release
<1>11. QED
  BY <1>1, <1>8, <1>9, <1>10, CollectorTransmits

\* Both boxes are empty at first.
LEMMA PostAtFirst == EndpointInit => Service!PostInit
<1> SUFFICES ASSUME EndpointInit PROVE Service!PostInit
  OBVIOUS
<1>1. Joint /\ collector.delivered = FALSE
  BY JointAtFirst DEF EndpointInit
<1>2. RQ!Ring(rx_queue) /\ TQ!Ring(tx_queue)
  BY <1>1 DEF Joint, BodyInv, SlotInv
<1>3. RQ!Depth(rx_queue) = 0 /\ TQ!Depth(tx_queue) = 0 /\ ~prepare.active
  <2>1. AtRest
    BY RestAtFirst
  <2>2. QED BY <2>1, HandlerAssumption
    DEF AtRest, Init, RQ!EmptyQueue, TQ!EmptyQueue, RQ!Depth, TQ!Depth, RQ!Slot, TQ!Slot
<1>4. Inbox = << >>
  <2>1. DOMAIN RQ!PublishedSlots(rx_queue) = {}
    BY <1>3 DEF RQ!PublishedSlots
  <2>2. QED BY <2>1 DEF Inbox
<1>5. Outbox = << >>
  <2>1. DOMAIN TQ!PublishedSlots(tx_queue) = {}
    BY <1>3 DEF TQ!PublishedSlots
  <2>2. QED BY <1>3, <2>1 DEF Outbox
<1>6. QED BY <1>1, <1>4, <1>5 DEF Service!PostInit

\* The three steps of endpoint.cpp:43-52 together keep the promises of
\* ArpResponder about which frames are sent, and when: a packet taken from the
\* RX ring that asks for the board's address is answered by its reply, once
\* and in its turn, unless the TX ring is full; every other packet is thrown
\* away; nothing else is sent but announcements and beacons; and the station
\* has received a frame before its place is given up.
THEOREM EndpointKeepsPost == EndpointSafety => Service!PostSpec
<1>1. EndpointInit => Joint /\ CollectorInv /\ Service!PostInit
  BY JointAtFirst, CollectorAtFirst, PostAtFirst
<1>2. Joint /\ CollectorInv /\ [Call]_vars => Joint' /\ CollectorInv'
  BY JointNext, CollectorNext
<1>3. Joint /\ Joint' /\ CollectorInv /\ [Call]_vars => [Service!PostNext]_(Service!postVars)
  <2> SUFFICES ASSUME Joint, Joint', CollectorInv, [Call]_vars
               PROVE  Service!PostNext \/ UNCHANGED Service!postVars
    OBVIOUS
  <2>1. CASE UNCHANGED vars
    <3>1. UNCHANGED << rx_queue, tx_queue, prepare, collector >>
      BY <2>1 DEF vars, protoVars, handlerVars
    <3>2. QED
      BY <3>1 DEF Service!postVars, Inbox, Outbox, ReceivedPacket, SlotBody
  <2>2. CASE Receives
    BY <2>2, ReceivesAsPost DEF Service!PostNext
  <2>3. CASE HandleCycle
    BY <2>3, HandlesAsPost
  <2>4. CASE TransmitCycle
    BY <2>4, TransmitsAsPost DEF Service!PostNext
  <2>5. QED BY <2>1, <2>2, <2>3, <2>4 DEF Call, Receives
<1>4. QED
  BY <1>1, <1>2, <1>3, PTL DEF EndpointSafety, Service!PostSpec

\* The lemmas about the transmit path, read with the station in the place of
\* the host, and with no producer but the handler.  The last four stand for
\* the message of Crc32Check, which has no part in them.
Line == INSTANCE EthernetTxProofs
          WITH host <- collector, Bodies <- {},
               MessageBytes <- {}, MaxMessage <- 0, message <- << >>, message_crc <- {}

\* All sizes of the transmit path are as EthernetTx has them.
LEMMA LineSizes ==
  /\ TxSlots \in Nat \ {0}
  /\ CounterMod \in Nat \ {0}
  /\ TX_FRAME_BODY_BYTES \in Nat \ {0}
  /\ MaxBodyLen \in Nat
  /\ MIN_ETH_FRAME_BODY_BYTES \in 1 .. MaxBodyLen
  /\ SfdIndex \in 0 .. MaxBodyLen
  /\ IFG_NIBBLES \in Nat \ {0}
  BY HandlerAssumption, LineAssumption, CollectorAssumption

LEMMA LineBodies ==
  \A body \in {} :
    /\ body \in Seq(Line!Byte)
    /\ Len(body) \in Line!BodyLen /\ Len(body) <= TX_FRAME_BODY_BYTES
  OBVIOUS

LEMMA LineGap == IFG_NIBBLES > 1
  BY CollectorAssumption

\* Tx, Line and Format compute with the same CRC register, ...
LEMMA SameRegister ==
  /\ Tx!CrcInit = Line!CrcInit
  /\ \A crc, byte : Tx!crc32_next_byte(crc, byte) = Line!crc32_next_byte(crc, byte)
  /\ \A word : Tx!Complement(word) = Line!Complement(word)
  /\ \A word, k : Tx!WordByte(word, k) = Line!WordByte(word, k)
<1>1. Tx!CrcInit = Line!CrcInit
  BY DEF Tx!CrcInit, Line!CrcInit
<1>2. ASSUME NEW crc, NEW byte
      PROVE  Tx!crc32_next_byte(crc, byte) = Line!crc32_next_byte(crc, byte)
  <2>1. Tx!BitsOf(byte) = Line!BitsOf(byte)
    BY DEF Tx!BitsOf, Line!BitsOf
  <2>2. ASSUME NEW c, NEW bits, NEW i
        PROVE  Tx!CrcBit(c, bits, i) = Line!CrcBit(c, bits, i)
    <3>1. Tx!CrcPolynomial = Line!CrcPolynomial
      BY DEF Tx!CrcPolynomial, Line!CrcPolynomial
    <3>2. Tx!ShiftRight(c) = Line!ShiftRight(c)
      BY DEF Tx!ShiftRight, Line!ShiftRight
    <3>3. \A a, b : Tx!Xor(a, b) = Line!Xor(a, b)
      BY DEF Tx!Xor, Line!Xor
    <3>4. QED BY <3>1, <3>2, <3>3 DEF Tx!CrcBit, Line!CrcBit
  <2>3. QED BY <2>1, <2>2 DEF Tx!crc32_next_byte, Line!crc32_next_byte
<1>3. ASSUME NEW word PROVE Tx!Complement(word) = Line!Complement(word)
  BY DEF Tx!Complement, Line!Complement
<1>4. ASSUME NEW word, NEW k PROVE Tx!WordByte(word, k) = Line!WordByte(word, k)
  BY DEF Tx!WordByte, Line!WordByte
<1>5. QED BY <1>1, <1>2, <1>3, <1>4

LEMMA SameFormat ==
  /\ Format!CrcInit = Line!Format!CrcInit
  /\ \A crc, byte : Format!NextCrc(crc, byte) = Line!Format!NextCrc(crc, byte)
  /\ \A word : Format!Complement(word) = Line!Format!Complement(word)
  /\ \A word, k : Format!WordByte(word, k) = Line!Format!WordByte(word, k)
<1>1. Format!CrcInit = Line!Format!CrcInit
  BY DEF Format!CrcInit, Line!Format!CrcInit
<1>2. ASSUME NEW crc, NEW byte
      PROVE  Format!NextCrc(crc, byte) = Line!Format!NextCrc(crc, byte)
  <2>1. Format!BitsOf(byte) = Line!Format!BitsOf(byte)
    BY DEF Format!BitsOf, Line!Format!BitsOf
  <2>2. ASSUME NEW c, NEW bits, NEW i
        PROVE  Format!CrcBit(c, bits, i) = Line!Format!CrcBit(c, bits, i)
    <3>1. Format!CrcPolynomial = Line!Format!CrcPolynomial
      BY DEF Format!CrcPolynomial, Line!Format!CrcPolynomial
    <3>2. Format!ShiftRight(c) = Line!Format!ShiftRight(c)
      BY DEF Format!ShiftRight, Line!Format!ShiftRight
    <3>3. \A a, b : Format!Xor(a, b) = Line!Format!Xor(a, b)
      BY DEF Format!Xor, Line!Format!Xor
    <3>4. QED BY <3>1, <3>2, <3>3 DEF Format!CrcBit, Line!Format!CrcBit
  <2>3. Format!crc32_next_byte(crc, byte) = Line!Format!crc32_next_byte(crc, byte)
    BY <2>1, <2>2 DEF Format!crc32_next_byte, Line!Format!crc32_next_byte
  <2>4. QED BY <2>3 DEF Format!NextCrc, Line!Format!NextCrc
<1>3. ASSUME NEW word PROVE Format!Complement(word) = Line!Format!Complement(word)
  BY DEF Format!Complement, Line!Format!Complement
<1>4. ASSUME NEW word, NEW k
      PROVE  Format!WordByte(word, k) = Line!Format!WordByte(word, k)
  BY DEF Format!WordByte, Line!Format!WordByte
<1>5. QED BY <1>1, <1>2, <1>3, <1>4

\* ... and so are their frames ...
LEMMA SameFrame ==
  ASSUME NEW body
  PROVE  Format!WireFrame(body) = Line!Format!WireFrame(body)
<1>1. \A b : Format!Pad(b) = Line!Format!Pad(b)
  BY DEF Format!Pad, Line!Format!Pad
<1>2. ASSUME NEW bytes PROVE Format!CrcAfter(bytes) = Line!Format!CrcAfter(bytes)
  BY SameFormat DEF Format!CrcAfter, Line!Format!CrcAfter
<1>3. \A bytes : Format!FcsOf(bytes) = Line!Format!FcsOf(bytes)
  BY <1>2, SameFormat DEF Format!FcsOf, Line!Format!FcsOf
<1>4. QED BY <1>1, <1>3 DEF Format!WireFrame, Line!Format!WireFrame

\* ... and their steps ...
LEMMA SameTransmit == Tx!ethernet_tx_queue_step <=> Line!ethernet_tx_queue_step
<1>1. Tx!StartRequest <=> Line!StartRequest
  BY DEF Tx!StartRequest, Line!StartRequest,
         Tx!TQ!packet_queue_read_slot_valid, Line!TQ!packet_queue_read_slot_valid
<1>2. Tx!CurrentSlot = Line!CurrentSlot
  BY <1>1 DEF Tx!CurrentSlot, Line!CurrentSlot
<1>3. ASSUME NEW idle \in BOOLEAN PROVE Tx!Handshake(idle) <=> Line!Handshake(idle)
  BY <1>1, <1>2
  DEF Tx!Handshake, Line!Handshake,
      Tx!TQ!packet_queue_consume_read_slot, Line!TQ!packet_queue_consume_read_slot,
      Tx!TQ!NextSlot, Line!TQ!NextSlot
<1>4. /\ \A f : Tx!Quiet(f) = Line!Quiet(f)
      /\ \A byte, f : Tx!Emit(byte, f) = Line!Emit(byte, f)
      /\ \A i : Tx!PreambleByte(i) = Line!PreambleByte(i)
      /\ \A n : Tx!PaddedLen(n) = Line!PaddedLen(n)
      /\ \A b, i, n : Tx!tx_frame_body_byte(b, i, n) = Line!tx_frame_body_byte(b, i, n)
      /\ \A f : Tx!FrameSent(f) = Line!FrameSent(f)
  BY DEF Tx!Quiet, Line!Quiet, Tx!Emit, Line!Emit, Tx!PreambleByte, Line!PreambleByte,
         Tx!PaddedLen, Line!PaddedLen, Tx!tx_frame_body_byte, Line!tx_frame_body_byte,
         Tx!FrameSent, Line!FrameSent
<1>5. Tx!IdleCycle <=> Line!IdleCycle
  BY <1>1, <1>3, <1>4, SameRegister DEF Tx!IdleCycle, Line!IdleCycle
<1>6. Tx!PreambleCycle <=> Line!PreambleCycle
  BY <1>3, <1>4 DEF Tx!PreambleCycle, Line!PreambleCycle
<1>7. Tx!DataCycle <=> Line!DataCycle
  BY <1>2, <1>3, <1>4, SameRegister DEF Tx!DataCycle, Line!DataCycle
<1>8. Tx!FcsCycle <=> Line!FcsCycle
  BY <1>3, <1>4, SameRegister DEF Tx!FcsCycle, Line!FcsCycle
<1>9. Tx!GapCycle <=> Line!GapCycle
  BY <1>3, <1>4 DEF Tx!GapCycle, Line!GapCycle
<1>10. QED
  BY <1>5, <1>6, <1>7, <1>8, <1>9
  DEF Tx!ethernet_tx_queue_step, Line!ethernet_tx_queue_step

\* ... and their ownership.
LEMMA SameOwnership == Tx!FramerOwnsReadSlot <=> Line!FramerOwnsReadSlot
  BY DEF Tx!FramerOwnsReadSlot, Line!FramerOwnsReadSlot, Tx!PaddedLen, Line!PaddedLen,
         Tx!TQ!RingShape, Line!TQ!RingShape, Tx!TQ!Shape, Line!TQ!Shape,
         Tx!TQ!Between, Line!TQ!Between, Tx!TQ!Slot, Line!TQ!Slot

----------------------------------------------------------------------------
(* The handler stores bytes.                                               *)

OnWire == Line!Byte

\* Every byte of a request's frame is one.
InBytes(r) == \A i \in 0 .. r.len - 1 : FrameBodyByte(r, i) \in OnWire

LEMMA FramesOfBytes ==
  ASSUME NEW r, Made(r), HeaderOf(r) \in Seq(OnWire), PayloadOf(r) \in Seq(OnWire)
  PROVE  InBytes(r)
<1> DEFINE h == HeaderOf(r)
           p == PayloadOf(r)
           f == [i \in 1 .. r.len |-> FrameBodyByte(r, i - 1)]
<1>1. f = h \o p
  BY MadeIsConsistent, BytesMakeTheFrame
<1>2. Len(h) + Len(p) = r.len
  BY MadeIsConsistent DEF Consistent
<1>3. \A i \in 1 .. r.len : f[i] = FrameBodyByte(r, i - 1)
  OBVIOUS
<1> HIDE DEF h, p, f
<1>4. h \in Seq(OnWire) /\ p \in Seq(OnWire)
  BY DEF h, p
<1> HIDE DEF OnWire
<1>5. f \in Seq(OnWire) /\ Len(f) = r.len /\ r.len \in Nat
  BY <1>1, <1>2, <1>4
<1>6. ASSUME NEW i \in 0 .. r.len - 1 PROVE FrameBodyByte(r, i) \in OnWire
  <2>1. i + 1 \in 1 .. r.len /\ (i + 1) - 1 = i
    BY <1>5
  <2>2. QED BY <1>3, <1>5, <2>1
<1>7. QED BY <1>6 DEF InBytes

\* What the code gives the frames is bytes.
LEMMA FixedBytes ==
  /\ FPGA_MAC \in Seq(OnWire) /\ BROADCAST_MAC \in Seq(OnWire) /\ FPGA_IP \in Seq(OnWire)
  /\ ARP_ETHERTYPE \in Seq(OnWire) /\ DIAGNOSTIC_BEACON_ETHERTYPE \in Seq(OnWire)
  /\ ArpReplyFields \in Seq(OnWire)
  /\ \A counts \in [1 .. 7 -> Count] : BeaconText(counts) \in Seq(OnWire)
<1>1. OnWire = Tx!Byte
  BY DEF OnWire, Line!Byte, Tx!Byte
<1>2. QED BY <1>1, LineAssumption DEF Count

LEMMA AnswersOfBytes ==
  ASSUME NEW r, Made(r), NEW mac \in Seq(OnWire), NEW ip \in Seq(OnWire),
         r.header.dst_mac \in Seq(OnWire), r.header.src_mac = FPGA_MAC,
         r.header.ethertype = ARP_ETHERTYPE, PayloadOf(r) = ArpReplyPayload(mac, ip)
  PROVE  InBytes(r)
<1> HIDE DEF OnWire
<1>1. HeaderOf(r) \in Seq(OnWire)
  <2>1. HeaderOf(r) = r.header.dst_mac \o FPGA_MAC \o ARP_ETHERTYPE
    BY DEF HeaderOf
  <2>2. QED BY <2>1, FixedBytes
<1>2. PayloadOf(r) \in Seq(OnWire)
  <2>1. PayloadOf(r) = ArpReplyFields \o FPGA_MAC \o FPGA_IP \o mac \o ip
    BY DEF ArpReplyPayload
  <2>2. QED BY <2>1, FixedBytes
<1>3. QED BY <1>1, <1>2, FramesOfBytes

LEMMA RequestsOfBytes ==
  /\ InBytes(protocol_tx_gratuitous_arp_request)
  /\ BodyInv => InBytes(BeaconRequest)
  /\ \A a \in [0 .. ARP_PAYLOAD_BYTES - 1 -> OnWire] :
       InBytes(ArpReplyRequest(Field(a, SenderMacAt, MacBytes),
                               Field(a, SenderIpAt, IpBytes)))
<1> HIDE DEF OnWire
<1>1. InBytes(protocol_tx_gratuitous_arp_request)
  <2> DEFINE r == protocol_tx_gratuitous_arp_request
  <2>1. /\ r.header.dst_mac = BROADCAST_MAC /\ r.header.src_mac = FPGA_MAC
        /\ r.header.ethertype = ARP_ETHERTYPE /\ r.kind = "GRATUITOUS_ARP"
        /\ r.arp_requester_mac = BROADCAST_MAC /\ r.arp_requester_ip = FPGA_IP
    BY DEF protocol_tx_gratuitous_arp_request, Request
  <2>2. Made(r)
    BY RequestsAreMade
  <2> HIDE DEF r
  <2>3. PayloadOf(r) = ArpReplyPayload(BROADCAST_MAC, FPGA_IP)
    BY <2>1 DEF PayloadOf
  <2>4. InBytes(r)
    BY <2>1, <2>2, <2>3, FixedBytes, AnswersOfBytes
  <2>5. QED BY <2>4 DEF r
<1>2. ASSUME BodyInv PROVE InBytes(BeaconRequest)
  <2> DEFINE r == BeaconRequest
  <2>1. /\ r.header.dst_mac = BROADCAST_MAC /\ r.header.src_mac = FPGA_MAC
        /\ r.header.ethertype = DIAGNOSTIC_BEACON_ETHERTYPE /\ r.kind = "BEACON"
    BY DEF BeaconRequest, protocol_tx_beacon_request, Request
  <2>2. Made(r)
    BY <1>2, RequestsAreMade
  <2>3. r.counts \in [1 .. 7 -> Count]
    <3> DEFINE snapshot == << counters.rx_packet, rx_queue.drop_count,
                              counters.rx_protocol_drop, tx_queue.drop_count,
                              counters.arp_reply, 0, counters.uptime_beacon >>
    <3>1. 0 \in Count
      BY HandlerAssumption DEF Count
    <3>2. snapshot \in [1 .. 7 -> Count]
      BY <1>2, <3>1 DEF BodyInv, CountInv, Counters
    <3>3. BeaconRequest = [protocol_tx_beacon_request EXCEPT !.counts = snapshot]
      BY DEF BeaconRequest
    <3> HIDE DEF snapshot
    <3>4. BeaconRequest.counts = snapshot
      BY <3>3 DEF protocol_tx_beacon_request, Request
    <3>5. QED BY <3>2, <3>4
  <2> HIDE DEF r
  <2>4. HeaderOf(r) \in Seq(OnWire)
    <3>1. HeaderOf(r) = BROADCAST_MAC \o FPGA_MAC \o DIAGNOSTIC_BEACON_ETHERTYPE
      BY <2>1 DEF HeaderOf
    <3>2. QED BY <3>1, FixedBytes
  <2>5. PayloadOf(r) \in Seq(OnWire)
    <3>1. PayloadOf(r) = BeaconText(r.counts)
      BY <2>1 DEF PayloadOf
    <3>2. QED BY <2>3, <3>1, FixedBytes
  <2>6. InBytes(r)
    BY <2>2, <2>4, <2>5, FramesOfBytes
  <2>7. QED BY <2>6 DEF r
<1>3. ASSUME NEW a \in [0 .. ARP_PAYLOAD_BYTES - 1 -> OnWire]
      PROVE  InBytes(ArpReplyRequest(Field(a, SenderMacAt, MacBytes),
                                     Field(a, SenderIpAt, IpBytes)))
  <2> DEFINE mac == Field(a, SenderMacAt, MacBytes)
             ip == Field(a, SenderIpAt, IpBytes)
             r == ArpReplyRequest(mac, ip)
  <2>1. /\ r.header.dst_mac = mac /\ r.header.src_mac = FPGA_MAC
        /\ r.header.ethertype = ARP_ETHERTYPE /\ r.kind = "ARP_REPLY"
        /\ r.arp_requester_mac = mac /\ r.arp_requester_ip = ip
    BY DEF ArpReplyRequest, Request
  <2>2. Made(r)
    BY RequestsAreMade
  <2>3. mac \in Seq(OnWire) /\ ip \in Seq(OnWire)
    <3>1. /\ \A k \in 1 .. MacBytes : a[SenderMacAt + k - 1] \in OnWire
          /\ \A k \in 1 .. IpBytes : a[SenderIpAt + k - 1] \in OnWire
      BY ArpLayout
    <3>2. QED BY <3>1, ArpLayout DEF Field
  <2> HIDE DEF r, mac, ip
  <2>4. PayloadOf(r) = ArpReplyPayload(mac, ip)
    BY <2>1 DEF PayloadOf
  <2>5. InBytes(r)
    BY <2>1, <2>2, <2>3, <2>4, AnswersOfBytes
  <2>6. QED BY <2>5 DEF r, mac, ip
<1>4. QED BY <1>1, <1>2, <1>3

\* A ring of bytes, in which every packet fits.
Typed(q) ==
  /\ q \in Line!TxQueueType
  /\ \A s \in TQ!Slot : q.valid[s] => q.meta[s] <= TX_FRAME_BODY_BYTES

\* One cycle of a preparation stores one of them.
LEMMA PreparationOfBytes ==
  ASSUME NEW p, NEW q, TQ!Ring(q), OwnsWriteSlot(p, q), Fills(p, q), PrepareStep(p, q),
         p.active => p.index < p.request.len /\ InBytes(p.request),
         Typed(q)
  PROVE  Typed(tx_queue') /\ (prepare'.active => InBytes(prepare'.request))
<1> DEFINE byte == FrameBodyByte(p.request, p.index)
           stored == TQ!StoreByte(q, p.tx_idx, p.index, byte)
<1>1. CASE ~p.active
  BY <1>1 DEF PrepareStep
<1>2. CASE p.active
  <2>1. /\ p.tx_idx = q.write_idx /\ p.tx_idx \in TQ!Slot /\ p.index \in Nat
        /\ p.request.len \in Nat /\ p.index < p.request.len
        /\ TQ!packet_queue_write_slot_available(q)
        /\ p.request.len <= TX_FRAME_BODY_BYTES
    BY <1>2, MadeIsConsistent DEF OwnsWriteSlot, TQ!Ring, Sized, Fills
  <2>2. TX_FRAME_BODY_BYTES \in Nat /\ MaxBodyLen \in Nat /\ TX_FRAME_BODY_BYTES <= MaxBodyLen
    BY LineAssumption
  <2>3. p.index \in Line!BodyIndex /\ p.request.len \in Line!BodyLen /\ p.tx_idx \in Line!TQ!Slot
    BY <2>1, <2>2 DEF Line!BodyIndex, Line!BodyLen, Line!TQ!Slot, TQ!Slot
  <2>4. byte \in Line!Byte
    <3>1. p.index \in 0 .. p.request.len - 1
      BY <2>1
    <3>2. QED BY <1>2, <3>1 DEF InBytes, OnWire
  <2>5. q \in Line!TxQueueType
    BY DEF Typed
  <2>6. stored \in Line!TxQueueType
    <3>1. stored = Line!TQ!StoreByte(q, p.tx_idx, p.index, byte)
      BY DEF TQ!StoreByte, Line!TQ!StoreByte
    <3> HIDE DEF stored, byte
    <3>2. QED BY <2>3, <2>4, <2>5, <3>1, LineSizes, LineBodies, LineGap, Line!StoreType
  <2>7. /\ stored.valid = q.valid /\ stored.meta = q.meta /\ stored.write_idx = q.write_idx
        /\ DOMAIN stored = DOMAIN q
    BY DEF TQ!StoreByte, TQ!Ring
  <2>8. Typed(stored)
    BY <2>6, <2>7 DEF Typed
  <2>9. CASE p.request.len = 0 \/ p.index = p.request.len - 1
    <3>1. /\ tx_queue' = TQ!packet_queue_publish_write_slot(stored, p.request.len)
          /\ prepare' = [p EXCEPT !.active = FALSE, !.request.valid = FALSE,
                                  !.request.kind = "NONE"]
      BY <1>2, <2>9 DEF PrepareStep
    <3> HIDE DEF stored
    <3>2. tx_queue' = Line!TQ!packet_queue_publish_write_slot(stored, p.request.len)
      BY <3>1 DEF TQ!packet_queue_publish_write_slot, Line!TQ!packet_queue_publish_write_slot,
                  TQ!packet_queue_drop_write, Line!TQ!packet_queue_drop_write,
                  TQ!packet_queue_write_slot_available,
                  Line!TQ!packet_queue_write_slot_available,
                  TQ!NextSlot, Line!TQ!NextSlot, TQ!Bump, Line!TQ!Bump
    <3>3. tx_queue' \in Line!TxQueueType
      BY <2>3, <2>6, <3>2, LineSizes, LineBodies, LineGap, Line!RingOperations
    <3>4. /\ tx_queue'.meta = [q.meta EXCEPT ![q.write_idx] = p.request.len]
          /\ tx_queue'.valid = [q.valid EXCEPT ![q.write_idx] = TRUE]
      BY <2>1, <2>7, <3>1 DEF TQ!packet_queue_publish_write_slot, TQ!Ring,
                              TQ!packet_queue_write_slot_available
    <3>5. DOMAIN q.meta = TQ!Slot /\ DOMAIN q.valid = TQ!Slot
      BY <2>5 DEF Line!TxQueueType, Line!TQ!QueueType, Line!TQ!Slot, TQ!Slot
    <3>6. ~prepare'.active
      BY <3>1 DEF OwnsWriteSlot
    <3>7. QED BY <2>1, <3>3, <3>4, <3>5, <3>6 DEF Typed
  <2>10. CASE ~(p.request.len = 0 \/ p.index = p.request.len - 1)
    <3>1. tx_queue' = stored /\ prepare' = [p EXCEPT !.index = @ + 1]
      BY <1>2, <2>10 DEF PrepareStep
    <3> HIDE DEF stored
    <3>2. prepare'.request = p.request
      BY <3>1 DEF OwnsWriteSlot
    <3>3. QED BY <1>2, <2>8, <3>1, <3>2
  <2>11. QED BY <2>9, <2>10
<1>3. QED BY <1>1, <1>2 DEF OwnsWriteSlot

\* A request started, or dropped.
LEMMA StartOfBytes ==
  ASSUME BodyInv, NEW request, Long(request), Made(request), InBytes(request),
         ~prepare.active, Start(request), Typed(tx_queue)
  PROVE  Typed(tx_queue') /\ (prepare'.active => InBytes(prepare'.request))
<1> DEFINE started == start_protocol_tx_request(request)
<1>1. \A i \in BodyIndex : ~(i < 0)
  BY BodiesAssumption DEF BodyIndex
<1>2. CASE TxRoom
  <2> DEFINE p == [active |-> TRUE, request |-> request, index |-> 0,
                   tx_idx |-> tx_queue.write_idx]
  <2>1. PrepareStep(p, tx_queue)
    BY <1>2 DEF Start, start_protocol_tx_request, TxRoom
  <2>2. /\ p.active = TRUE /\ p.request = request
        /\ p.index = 0 /\ p.tx_idx = tx_queue.write_idx
        /\ DOMAIN p = {"active", "request", "index", "tx_idx"}
    OBVIOUS
  <2>3. OwnsWriteSlot(p, tx_queue)
    BY <1>2, <2>2 DEF OwnsWriteSlot, TxRoom, Long
  <2> HIDE DEF p
  <2>4. Fills(p, tx_queue)
    BY <1>1, <2>2 DEF Fills, Stores, BodyInv
  <2>5. p.index < p.request.len /\ InBytes(p.request)
    BY <2>2 DEF Long, Sized
  <2>6. TQ!Ring(tx_queue)
    BY DEF BodyInv, SlotInv
  <2>7. QED BY <2>1, <2>3, <2>4, <2>5, <2>6, PreparationOfBytes
<1>3. CASE ~TxRoom
  <2>1. tx_queue' = TQ!packet_queue_drop_write(tx_queue) /\ prepare' = prepare
    BY <1>3 DEF Start, start_protocol_tx_request, TxRoom, PrepareStep
  <2>2. tx_queue' = Line!TQ!packet_queue_drop_write(tx_queue)
    BY <2>1 DEF TQ!packet_queue_drop_write, Line!TQ!packet_queue_drop_write,
                TQ!Bump, Line!TQ!Bump
  <2>3. tx_queue' \in Line!TxQueueType
    <3>1. tx_queue \in Line!TxQueueType /\ 0 \in Line!BodyLen
      BY LineSizes DEF Typed, Line!BodyLen
    <3>2. QED BY <2>2, <3>1, LineSizes, LineBodies, LineGap, Line!RingOperations
  <2>4. tx_queue'.valid = tx_queue.valid /\ tx_queue'.meta = tx_queue.meta
    BY <2>1 DEF TQ!packet_queue_drop_write, BodyInv, SlotInv, TQ!Ring
  <2>5. QED BY <2>1, <2>3, <2>4 DEF Typed
<1>4. QED BY <1>2, <1>3

\* The bytes of a packet parsed are those of a frame.
Kepts == [0 .. ARP_PAYLOAD_BYTES - 1 -> OnWire]

LEMMA ArpOfBytes ==
  ASSUME Driven, ParseInv, protocol_state = "PROTO_PARSE_ARP", parse.arp \in Kepts
  PROVE  ArpBytes \in Kepts
<1>1. /\ parse.rx_idx = rx_queue.read_idx /\ LooksLikeArp(Waiting)
      /\ parse.index \in 0 .. ARP_PAYLOAD_BYTES - 1
  BY DEF ParseInv, SlotInv, OwnsReadSlot
<1>2. rx_queue \in Phy!QType
  BY DEF Driven, Phy!TypeOK, Phy!QType
<1>3. /\ rx_queue.bytes[rx_queue.read_idx] \in [Phy!PayloadIndex -> Phy!Byte]
      /\ Waiting \in Phy!RxPacketMeta
  BY <1>2 DEF Phy!QType, Phy!RQ!QueueType, Waiting
<1>4. Waiting.payload_len >= ARP_PAYLOAD_BYTES
  BY <1>1 DEF LooksLikeArp
<1>5. Waiting.payload_len \in 0 .. MAX_ETH_PAYLOAD_BYTES
  BY <1>3 DEF Phy!RxPacketMeta
<1>6. parse.index \in Phy!PayloadIndex
  BY <1>1, <1>4, <1>5, ArpLayout, PathAssumption DEF Phy!PayloadIndex
<1>7. rx_queue.bytes[parse.rx_idx][parse.index] \in OnWire
  BY <1>1, <1>3, <1>6 DEF OnWire, Line!Byte, Phy!Byte
<1>8. QED BY <1>1, <1>7 DEF ArpBytes, Kepts

\* What the handler makes and stores are bytes, and so is what it keeps of a
\* packet for its answer.
BytesInv ==
  /\ Typed(tx_queue)
  /\ parse.arp \in Kepts
  /\ prepare.active => InBytes(prepare.request)

LEMMA HandlerBytes ==
  ASSUME Driven, ParseInv, BodyInv, BytesInv, protocol_queue_step
  PROVE  BytesInv'
<1> DEFINE Goal == Typed(tx_queue') /\ (prepare'.active => InBytes(prepare'.request))
<1>1. ASSUME NothingStarted PROVE Goal
  <2>1. prepare.active => prepare.index < prepare.request.len /\ InBytes(prepare.request)
    BY DEF BodyInv, SlotInv, BytesInv
  <2>2. /\ TQ!Ring(tx_queue) /\ OwnsWriteSlot(prepare, tx_queue) /\ Fills(prepare, tx_queue)
        /\ PrepareStep(prepare, tx_queue) /\ Typed(tx_queue)
    BY <1>1 DEF NothingStarted, BodyInv, SlotInv, BytesInv
  <2>3. QED BY <2>1, <2>2, PreparationOfBytes
<1>2. ASSUME NEW request, Long(request), Made(request), InBytes(request),
             ~prepare.active, Start(request)
      PROVE  Goal
  BY <1>2, StartOfBytes DEF BytesInv
<1> HIDE DEF Goal
<1>3. protocol_state = "PROTO_PARSE_ARP" => ArpBytes \in Kepts
  BY ArpOfBytes DEF BytesInv
<1>4. Goal
  <2>1. CASE SendGratuitousArp
    BY <1>2, <2>1, RequestsAreLong, RequestsAreMade, RequestsOfBytes
    DEF SendGratuitousArp, Free
  <2>2. CASE SendBeacon
    BY <1>2, <2>2, RequestsAreLong, RequestsAreMade, RequestsOfBytes DEF SendBeacon, Free
  <2>3. CASE FinishArp
    <3> DEFINE mac == Field(ArpBytes, SenderMacAt, MacBytes)
               ip == Field(ArpBytes, SenderIpAt, IpBytes)
    <3>1. InBytes(ArpReplyRequest(mac, ip))
      BY <1>3, <2>3, RequestsOfBytes DEF FinishArp, Kepts
    <3>2. NothingStarted \/ (~prepare.active /\ Start(ArpReplyRequest(mac, ip)))
      BY <2>3 DEF FinishArp
    <3>3. Long(ArpReplyRequest(mac, ip)) /\ Made(ArpReplyRequest(mac, ip))
      BY RequestsAreLong, RequestsAreMade
    <3> HIDE DEF mac, ip
    <3>4. QED BY <1>1, <1>2, <3>1, <3>2, <3>3
  <2>4. QED
    BY <1>1, <2>1, <2>2, <2>3
    DEF protocol_queue_step, Preparing, DropWaiting, BeginParse, NothingToDo, ParseArpByte
<1>5. parse'.arp \in Kepts
  <2>1. CASE parse' = parse
    BY <2>1 DEF BytesInv
  <2>2. CASE BeginParse
    <3>1. 0 \in OnWire
      BY DEF OnWire, Line!Byte
    <3>2. QED BY <2>2, <3>1 DEF BeginParse, Kepts
  <2>3. CASE ParseArpByte \/ FinishArp
    <3>1. parse'.arp = ArpBytes /\ protocol_state = "PROTO_PARSE_ARP"
      BY <2>3 DEF ParseArpByte, FinishArp, ParseInv
    <3>2. QED BY <1>3, <3>1
  <2>4. QED
    BY <2>1, <2>2, <2>3
    DEF protocol_queue_step, Preparing, DropWaiting, SendGratuitousArp, SendBeacon, NothingToDo
<1>6. QED BY <1>4, <1>5 DEF Goal, BytesInv

LEMMA TransmitBytes ==
  ASSUME SlotInv, FramerInv, BytesInv, Line!TxTypeOK, TransmitCycle
  PROVE  BytesInv' /\ Line!TxTypeOK'
<1>1. UNCHANGED handlerVars /\ Tx!ethernet_tx_queue_step
  BY DEF TransmitCycle
<1>2. Line!TxTypeOK'
  <2>1. Line!ethernet_tx_queue_step
    BY <1>1, SameTransmit
  <2>2. [Line!Next]_(Line!txVars)
    BY <2>1 DEF Line!Next
  <2>3. QED BY <2>2, LineSizes, LineBodies, LineGap, Line!TxTypeStep
<1>3. tx_queue' \in Line!TxQueueType
  BY <1>2 DEF Line!TxTypeOK
<1>4. /\ tx_queue'.meta = tx_queue.meta
      /\ \A s \in TQ!Slot : tx_queue'.valid[s] => tx_queue.valid[s]
  <2>1. \/ tx_queue' = tx_queue
        \/ /\ framer_active
           /\ tx_queue' = TQ!packet_queue_consume_read_slot(tx_queue)
    BY <1>1, TransmitProgress
  <2>2. framer_active => TQ!packet_queue_read_slot_valid(tx_queue)
    BY DEF FramerInv, Tx!FramerOwnsReadSlot, TQ!packet_queue_read_slot_valid
  <2>3. CASE tx_queue' = tx_queue
    BY <2>3
  <2>4. CASE framer_active /\ tx_queue' = TQ!packet_queue_consume_read_slot(tx_queue)
    BY <2>4 DEF TQ!packet_queue_consume_read_slot, SlotInv, TQ!Ring
  <2>5. QED BY <2>1, <2>3, <2>4
<1>5. Typed(tx_queue')
  BY <1>3, <1>4 DEF Typed, BytesInv
<1>6. QED BY <1>1, <1>2, <1>5 DEF BytesInv, handlerVars

\* A framer at work has a frame, and the ring has bytes, whatever is called.
LEMMA BytesNext ==
  ASSUME Joint, BytesInv, Line!TxTypeOK, [Call]_vars
  PROVE  BytesInv' /\ Line!TxTypeOK'
<1>1. SlotInv /\ FramerInv /\ Driven /\ ParseInv /\ BodyInv
  BY DEF Joint, BodyInv
<1>2. CASE TransmitCycle
  BY <1>1, <1>2, TransmitBytes
<1>3. CASE ~TransmitCycle
  <2>1. BytesInv'
    <3>1. CASE HandleCycle
      BY <1>1, <3>1, HandlerBytes DEF HandleCycle
    <3>2. CASE Receives
      <4>1. UNCHANGED << tx_queue, handlerVars >>
        BY <3>2 DEF Receives, BeginFrame, SendNibble, EndFrame, LeaveLineIdle, ReceiveCycle
      <4>2. QED BY <4>1 DEF BytesInv, handlerVars, Typed, InBytes
    <3>3. CASE UNCHANGED vars
      BY <3>3 DEF vars, protoVars, handlerVars, BytesInv, Typed, InBytes
    <3>4. QED BY <1>3, <3>1, <3>2, <3>3 DEF Call, Receives
  <2>2. UNCHANGED transmitVars
    BY <1>1, <1>3, OthersOnTxRing
  <2>3. tx_queue' \in Line!TxQueueType
    BY <2>1 DEF BytesInv, Typed
  <2>4. Line!TxTypeOK'
    BY <2>2, <2>3 DEF Line!TxTypeOK, transmitVars
  <2>5. QED BY <2>1, <2>4
<1>4. QED BY <1>2, <1>3

LEMMA BytesAtFirst == EndpointInit => BytesInv /\ Line!TxTypeOK
<1> SUFFICES ASSUME EndpointInit PROVE BytesInv /\ Line!TxTypeOK
  OBVIOUS
<1>1. Init /\ Tx!Init
  BY DEF EndpointInit
<1>2. Line!Init
  BY <1>1, SameRegister
  DEF Tx!Init, Line!Init, Tx!TQ!EmptyQueue, Line!TQ!EmptyQueue, Tx!TQ!Slot, Line!TQ!Slot,
      Tx!ZeroBody, Line!ZeroBody, Tx!BodyIndex, Line!BodyIndex, Tx!Quiet, Line!Quiet
<1>3. Line!TxTypeOK
  BY <1>2, LineSizes, LineBodies, LineGap, Line!TxTypeAtFirst
<1>4. Typed(tx_queue)
  <2>1. tx_queue \in Line!TxQueueType
    BY <1>3 DEF Line!TxTypeOK
  <2>2. \A s \in TQ!Slot : ~tx_queue.valid[s]
    BY <1>1 DEF Tx!Init, Tx!TQ!EmptyQueue, Tx!TQ!Slot, TQ!Slot
  <2>3. QED BY <2>1, <2>2 DEF Typed
<1>5. parse.arp \in Kepts /\ ~prepare.active
  <2>1. 0 \in OnWire
    BY DEF OnWire, Line!Byte
  <2>2. QED BY <1>1, <2>1 DEF Init, Kepts
<1>6. QED BY <1>3, <1>4, <1>5 DEF BytesInv

----------------------------------------------------------------------------
(* What the station has of the frame under way, byte for byte.             *)

\* A frame is a sequence of numbers.
LEMMA FrameIsNumbers ==
  ASSUME NEW body, Line!Format!Pad(body) \in Seq(OnWire)
  PROVE  Line!Format!WireFrame(body) \in Seq(Int)
<1> DEFINE P == Line!Format!Pad(body)
           fcs == Line!Format!FcsOf(P)
           pre == [i \in 1 .. SfdIndex |-> 85]
           W == Line!Format!WireFrame(body)
<1>1. P \in Seq(Int)
  <2> DEFINE p == P
  <2>1. p \in Seq(OnWire) /\ OnWire \subseteq Int
    BY DEF OnWire, Line!Byte
  <2> HIDE DEF p, OnWire
  <2>2. Len(p) \in Nat /\ \A i \in 1 .. Len(p) : p[i] \in Int
    <3>1. Len(p) \in Nat /\ \A i \in 1 .. Len(p) : p[i] \in OnWire
      BY <2>1
    <3>2. QED BY <2>1, <3>1
  <2>3. p = [i \in 1 .. Len(p) |-> p[i]]
    BY <2>1
  <2>4. [i \in 1 .. Len(p) |-> p[i]] \in Seq(Int)
    BY <2>2
  <2>5. QED BY <2>3, <2>4 DEF p
<1>2. fcs \in Seq(Int)
  <2>1. \A word, k : Line!Format!WordByte(word, k) \in Int
    BY DEF Line!Format!WordByte
  <2> DEFINE word == Line!Format!Complement(Line!Format!CrcAfter(P)[Len(P)])
  <2>2. fcs = [k \in 1 .. 4 |-> Line!Format!WordByte(word, k - 1)]
    BY DEF Line!Format!FcsOf
  <2> HIDE DEF word, fcs
  <2>3. QED BY <2>1, <2>2
<1>3. pre \in Seq(Int) /\ << 213 >> \in Seq(Int)
  BY LineSizes
<1>4. W = pre \o << 213 >> \o P \o fcs
  BY DEF Line!Format!WireFrame
<1> HIDE DEF P, fcs, pre
<1>5. pre \o << 213 >> \o P \o fcs \in Seq(Int)
  <2> DEFINE a == pre \o << 213 >>
             b == a \o P
  <2>1. a \in Seq(Int)
    BY <1>3
  <2> HIDE DEF a
  <2>2. b \in Seq(Int)
    BY <1>1, <2>1
  <2> HIDE DEF b
  <2>3. b \o fcs \in Seq(Int)
    BY <1>2, <2>2
  <2>4. QED BY <2>3 DEF a, b
<1>6. QED BY <1>4, <1>5 DEF P

LEMMA TwoNibbles ==
  ASSUME NEW x \in Int
  PROVE  (x % 16) + 16 * (x \div 16) = x
  OBVIOUS

\* The station has the bytes sent so far, with the low nibble of the next, and
\* at the end of the frame all of them.
StationHasSent ==
  /\ framer.state \in SendingStates =>
       /\ collector.bytes = Line!Prefix(Line!HeadFrame, Line!BytesSent)
       /\ framer.nibble_phase =>
            collector.low = << Line!HeadFrame[Line!BytesSent + 1] % 16 >>
  /\ framer.state = "TX_IFG" /\ framer.ifg_count = 0 => collector.bytes = Line!HeadFrame

ContentInv == Line!CrcCoversSent /\ StationHasSent

LEMMA SendingIsSame == SendingStates = Line!SendingStates
  BY DEF SendingStates, Line!SendingStates

\* The lemmas about the framer, for the station on its line.
LEMMA LineAtWork ==
  ASSUME FramerInv, BytesInv, Line!TxTypeOK
  PROVE  Line!FramerOwnsReadSlot /\ Line!PacketsFit
<1>1. Line!FramerOwnsReadSlot
  BY SameOwnership DEF FramerInv
<1>2. Line!PacketsFit
  BY DEF Line!PacketsFit, BytesInv, Typed, Line!TQ!Slot, TQ!Slot
<1>3. QED BY <1>1, <1>2

LEMMA FrameUnderWay ==
  ASSUME FramerInv, BytesInv, Line!TxTypeOK, framer_active
  PROVE  /\ Line!HeadFrame \in Seq(Int)
         /\ Len(Line!HeadFrame) \in Nat
<1>1. Line!FramerOwnsReadSlot /\ Line!PacketsFit
  BY LineAtWork
<1>2. Line!Format!Pad(Line!HeadBody) \in Seq(Line!Byte)
  BY <1>1, LineSizes, LineBodies, LineGap, Line!HeadParts
<1>3. Line!HeadFrame \in Seq(Int)
  BY <1>2, FrameIsNumbers DEF Line!HeadFrame, OnWire
<1>4. QED BY <1>3

\* While the framer sends, the station gets one nibble per cycle.
LEMMA StationWhileSending ==
  ASSUME FramerInv, CollectorInv, BytesInv, Line!TxTypeOK, ContentInv, TransmitCycle,
         framer.state \in SendingStates
  PROVE  ContentInv' /\ collector'.last = collector.last
<1> DEFINE W == Line!HeadFrame
           at == Line!BytesSent
           phase == framer.nibble_phase
<1>1. /\ Line!FramerOwnsReadSlot /\ Line!PacketsFit /\ Line!CrcCoversSent
      /\ Line!ethernet_tx_queue_step /\ framer.state \in Line!SendingStates
  BY LineAtWork, SameTransmit, SendingIsSame DEF ContentInv, TransmitCycle
<1>2. /\ Line!HeadBody' = Line!HeadBody /\ Line!CrcCoversSent'
      /\ framer'.nibble_phase = ~phase
      /\ ~phase => framer'.state \in SendingStates /\ Line!BytesSent' = at
      /\ phase => \/ framer'.state \in SendingStates /\ Line!BytesSent' = at + 1
                  \/ /\ framer'.state = "TX_IFG" /\ framer'.ifg_count = 0
                     /\ at + 1 = Len(W)
  BY <1>1, SendingIsSame, LineSizes, LineBodies, LineGap, Line!SentGrows
<1>3. /\ at \in Nat /\ at < Len(W) /\ pins'.en = 1
      /\ pins'.d = IF phase THEN W[at + 1] \div 16 ELSE W[at + 1] % 16
  BY <1>1, LineSizes, LineBodies, LineGap, Line!EmitsFrameByte
<1>4. W' = W
  BY <1>2, LineSizes, LineBodies, LineGap, Line!HeadFrameKept
<1>5. framer_active
  BY <1>1 DEF Line!FramerOwnsReadSlot, SendingStates
<1>6. W \in Seq(Int) /\ Len(W) \in Nat
  BY <1>5, FrameUnderWay
<1>7. phase \in BOOLEAN /\ (collector.low = << >> <=> ~phase) /\ CollectorOK
  BY DEF CollectorInv
<1>8. /\ collector.bytes = Line!Prefix(W, at)
      /\ phase => collector.low = << W[at + 1] % 16 >>
  BY DEF ContentInv, StationHasSent
<1>9. /\ collector'.last = collector.last
      /\ collector.low = << >> => /\ collector'.low = << pins'.d >>
                                  /\ collector'.bytes = collector.bytes
      /\ collector.low # << >> =>
           /\ collector'.low = << >>
           /\ collector'.bytes = Append(collector.bytes, collector.low[1] + 16 * pins'.d)
  BY <1>3, <1>7, Sampled
<1> HIDE DEF W, at, phase
<1>10. CASE ~phase
  <2>1. /\ collector'.low = << W[at + 1] % 16 >> /\ collector'.bytes = Line!Prefix(W, at)
        /\ framer'.state \in SendingStates /\ Line!BytesSent' = at
    BY <1>2, <1>3, <1>7, <1>8, <1>9, <1>10
  <2>2. StationHasSent'
    BY <1>4, <2>1 DEF StationHasSent, SendingStates, W
  <2>3. QED BY <1>2, <1>9, <2>2 DEF ContentInv
<1>11. CASE phase
  <2>1. W[at + 1] \in Int
    <3>1. at + 1 \in 1 .. Len(W)
      BY <1>3, <1>6
    <3>2. QED BY <1>6, <3>1
  <2>2. collector.low[1] + 16 * pins'.d = W[at + 1]
    <3>1. collector.low[1] = W[at + 1] % 16 /\ pins'.d = W[at + 1] \div 16
      BY <1>3, <1>8, <1>11
    <3>2. QED BY <2>1, <3>1, TwoNibbles
  <2>3. collector'.bytes = Append(Line!Prefix(W, at), W[at + 1])
    BY <1>7, <1>8, <1>9, <1>11, <2>2
  <2>4. Append(Line!Prefix(W, at), W[at + 1]) = Line!Prefix(W, at + 1)
    BY <1>3, LineSizes, LineBodies, LineGap, Line!PrefixGrows
  <2>5. CASE framer'.state \in SendingStates /\ Line!BytesSent' = at + 1
    <3>1. StationHasSent'
      BY <1>2, <1>4, <1>7, <1>11, <2>3, <2>4, <2>5 DEF StationHasSent, SendingStates, W
    <3>2. QED BY <1>2, <1>9, <3>1 DEF ContentInv
  <2>6. CASE /\ framer'.state = "TX_IFG" /\ framer'.ifg_count = 0 /\ at + 1 = Len(W)
    <3>1. Line!Prefix(W, Len(W)) = W
      BY <1>6 DEF Line!Prefix
    <3>2. collector'.bytes = W
      BY <2>3, <2>4, <2>6, <3>1
    <3>3. StationHasSent'
      BY <1>4, <2>6, <3>2 DEF StationHasSent, SendingStates, W
    <3>4. QED BY <1>2, <1>9, <3>3 DEF ContentInv
  <2>7. QED BY <1>2, <1>11, <2>5, <2>6
<1>12. QED BY <1>7, <1>10, <1>11

\* At rest it gets nothing, and in the gap it takes the frame.
LEMMA StationAtRest ==
  ASSUME FramerInv, CollectorInv, BytesInv, Line!TxTypeOK, ContentInv, TransmitCycle,
         framer.state = "TX_IDLE"
  PROVE  ContentInv' /\ collector'.last = collector.last
<1>1. Line!ethernet_tx_queue_step /\ framer \in Line!FramerType
  BY SameTransmit DEF TransmitCycle, Line!TxTypeOK
<1>2. Line!IdleCycle
  BY <1>1 DEF Line!ethernet_tx_queue_step, Line!PreambleCycle, Line!DataCycle,
              Line!FcsCycle, Line!GapCycle
<1>3. /\ framer'.state \in {"TX_IDLE", "TX_PREAMBLE"}
      /\ framer'.crc = Line!CrcInit /\ framer'.byte_index = 0
      /\ framer'.nibble_phase = FALSE
      /\ pins'.en = 0
  BY <1>1, <1>2 DEF Line!IdleCycle, Line!Quiet, Line!FramerType
<1>4. Line!CrcCoversSent'
  BY <1>3 DEF Line!CrcCoversSent
<1>5. collector.bytes = << >> /\ CollectorOK
  BY DEF CollectorInv
<1>6. collector'.bytes = << >> /\ collector'.last = collector.last
  BY <1>3, <1>5, Sampled
<1>7. framer'.state = "TX_PREAMBLE" => Line!BytesSent' = 0
  BY <1>3 DEF Line!BytesSent
<1>8. \A f : Line!Prefix(f, 0) = << >>
  BY DEF Line!Prefix
<1>9. StationHasSent'
  <2> DEFINE W == Line!HeadFrame'
             sent == Line!BytesSent'
  <2>1. framer'.state = "TX_PREAMBLE" => Line!Prefix(W, sent) = << >>
    <3> HIDE DEF W, sent
    <3>1. framer'.state = "TX_PREAMBLE" => sent = 0
      BY <1>7 DEF sent
    <3>2. QED BY <1>8, <3>1
  <2> HIDE DEF W, sent
  <2>2. QED BY <1>3, <1>6, <2>1 DEF StationHasSent, SendingStates, W, sent
<1>10. QED BY <1>4, <1>6, <1>9 DEF ContentInv

LEMMA StationInGap ==
  ASSUME FramerInv, CollectorInv, BytesInv, Line!TxTypeOK, ContentInv, TransmitCycle,
         framer.state = "TX_IFG"
  PROVE  /\ ContentInv'
         /\ collector'.last = IF framer.ifg_count = 0 THEN Line!HeadFrame
                                                      ELSE collector.last
<1>1. Line!ethernet_tx_queue_step /\ framer \in Line!FramerType
  BY SameTransmit DEF TransmitCycle, Line!TxTypeOK
<1>2. Line!GapCycle
  BY <1>1 DEF Line!ethernet_tx_queue_step, Line!IdleCycle, Line!PreambleCycle,
              Line!DataCycle, Line!FcsCycle
<1>3. /\ \/ framer'.state = "TX_IFG" /\ framer'.ifg_count = framer.ifg_count + 1
         \/ framer'.state = "TX_IDLE"
      /\ pins'.en = 0
  BY <1>1, <1>2 DEF Line!GapCycle, Line!Quiet, Line!FramerType
<1>4. framer.ifg_count \in Nat
  BY <1>1, LineSizes DEF Line!FramerType
<1>5. Line!CrcCoversSent' /\ StationHasSent'
  BY <1>3, <1>4 DEF Line!CrcCoversSent, StationHasSent, SendingStates
<1>6. /\ framer.ifg_count = 0 => collector.bytes # << >> /\ collector.bytes = Line!HeadFrame
      /\ framer.ifg_count # 0 => collector.bytes = << >>
      /\ CollectorOK
  BY DEF CollectorInv, ContentInv, StationHasSent
<1>7. collector'.last = IF collector.bytes = << >> THEN collector.last ELSE collector.bytes
  BY <1>3, <1>6, Sampled
<1>8. QED BY <1>5, <1>6, <1>7 DEF ContentInv

\* No other call changes the frame under way or what the station has of it.
LEMMA OthersKeepContent ==
  ASSUME Joint, ContentInv, [Call]_vars, ~TransmitCycle
  PROVE  ContentInv' /\ collector' = collector
<1>1. SlotInv /\ FramerInv /\ Driven
  BY DEF Joint, BodyInv
<1>2. UNCHANGED << framer, framer_active, framer_slot_idx, collector >>
  <2>1. collector' = collector
    BY DEF Call, vars, HandleCycle, BeginFrame, SendNibble, EndFrame, LeaveLineIdle,
           ReceiveCycle
  <2>2. QED BY <1>1, <2>1, OthersOnTxRing DEF transmitVars
<1>3. CASE framer_active
  <2>1. Line!HeadBody' = Line!HeadBody
    <3>1. /\ tx_queue'.bytes[framer_slot_idx] = tx_queue.bytes[framer_slot_idx]
          /\ tx_queue'.meta[framer_slot_idx] = tx_queue.meta[framer_slot_idx]
      BY <1>1, <1>3, HeldStep DEF HeldWhileSent
    <3>2. QED BY <1>2, <3>1 DEF Line!HeadBody, Line!SlotBody
  <2>2. Line!HeadFrame' = Line!HeadFrame
    BY <2>1, LineSizes, LineBodies, LineGap, Line!HeadFrameKept
  <2>3. Line!BytesSent' = Line!BytesSent
    BY <1>2 DEF Line!BytesSent
  <2>4. Line!CrcCoversSent'
    <3> DEFINE register == Line!Format!CrcAfter(Line!Format!Pad(Line!HeadBody))
    <3>1. register' = register
      BY <2>1
    <3> HIDE DEF register
    <3>2. QED BY <1>2, <3>1 DEF Line!CrcCoversSent, ContentInv, register
  <2>5. StationHasSent'
    BY <1>2, <2>2, <2>3 DEF StationHasSent, ContentInv
  <2>6. QED BY <1>2, <2>4, <2>5 DEF ContentInv
<1>4. CASE ~framer_active
  <2>1. framer'.state = "TX_IDLE"
    BY <1>1, <1>2, <1>4 DEF FramerInv, Tx!FramerOwnsReadSlot
  <2>2. QED BY <1>2, <2>1 DEF ContentInv, Line!CrcCoversSent, StationHasSent, SendingStates
<1>5. QED BY <1>3, <1>4

LEMMA ContentNext ==
  ASSUME Joint, CollectorInv, BytesInv, Line!TxTypeOK, ContentInv, [Call]_vars
  PROVE  ContentInv'
<1>1. CASE TransmitCycle
  <2>1. FramerInv
    BY DEF Joint
  <2>2. framer.state \in {"TX_IDLE", "TX_IFG"} \union SendingStates
    BY DEF CollectorInv
  <2>3. QED BY <1>1, <2>1, <2>2, StationWhileSending, StationAtRest, StationInGap
<1>2. QED BY <1>1, OthersKeepContent

LEMMA ContentAtFirst == EndpointInit => ContentInv
<1> SUFFICES ASSUME EndpointInit PROVE ContentInv
  OBVIOUS
<1>1. framer.state = "TX_IDLE"
  BY DEF EndpointInit, Tx!Init
<1>2. QED BY <1>1 DEF ContentInv, Line!CrcCoversSent, StationHasSent, SendingStates

\* The invariant of the whole, with the bytes.
Exact == Joint /\ CollectorInv /\ BytesInv /\ Line!TxTypeOK /\ ContentInv

LEMMA ExactAtFirst == EndpointInit => Exact
  BY JointAtFirst, CollectorAtFirst, BytesAtFirst, ContentAtFirst DEF Exact

LEMMA ExactNext == Exact /\ [Call]_vars => Exact'
  BY JointNext, CollectorNext, BytesNext, ContentNext DEF Exact

\* What the station receives is the frame of the first packet of the outbox,
\* and it receives it with the delivery.
LEMMA FirstInOutbox ==
  ASSUME SlotInv, TQ!packet_queue_read_slot_valid(tx_queue)
  PROVE  Head(Outbox) = SlotBody(tx_queue, tx_queue.read_idx)
<1> DEFINE view == TxView(tx_queue)
           a == TQ!Contents(tx_queue, view)
           u == UnderWay(prepare)
<1>1. TQ!Ring(tx_queue) /\ tx_queue.read_idx \in TQ!Slot
  BY DEF SlotInv, TQ!Ring
<1>2. Outbox = a \o u
  BY <1>1, OutboxIsContents DEF Outbox, UnderWay
<1>3. PICK S : a \in Seq(S) /\ u \in Seq(S)
  BY <1>1, OutboxParts
<1>4. view[tx_queue.read_idx] = SlotBody(tx_queue, tx_queue.read_idx)
  BY <1>1 DEF TxView
<1>5. Len(a) > 0 /\ a[1] = view[tx_queue.read_idx]
  <2> HIDE DEF view
  <2>1. TQ!Depth(tx_queue) > 0 /\ a[1] = view[tx_queue.read_idx]
    BY <1>1, RingSizes, TQ!ReadSlotIsFirst
  <2>2. Len(a) = TQ!Depth(tx_queue)
    BY <1>1, RingSizes, TQ!ContentsLength
  <2>3. QED BY <2>1, <2>2
<1> HIDE DEF a, u, view
<1>6. Head(a \o u) = a[1]
  BY <1>3, <1>5
<1>7. QED BY <1>2, <1>4, <1>5, <1>6

LEMMA Receipt ==
  ASSUME Exact, TransmitCycle
  PROVE  collector'.last = IF ~collector.delivered /\ collector'.delivered
                             THEN Format!WireFrame(Head(Outbox)) ELSE collector.last
<1>1. SlotInv /\ FramerInv /\ CollectorInv /\ BytesInv /\ Line!TxTypeOK /\ ContentInv
  BY DEF Exact, Joint, BodyInv
<1>2. framer.state \in {"TX_IDLE", "TX_IFG"} \union SendingStates
  BY <1>1 DEF CollectorInv
<1>3. /\ DOMAIN framer = FramerFields /\ framer.nibble_phase \in BOOLEAN
      /\ framer.ifg_count \in Nat /\ Tx!ethernet_tx_queue_step /\ CollectorOK
  BY <1>1 DEF FramerInv, CollectorInv, TransmitCycle
<1>4. CASE framer.state = "TX_IDLE" \/ framer.state \in SendingStates
  <2>1. collector'.last = collector.last
    BY <1>1, <1>4, StationWhileSending, StationAtRest
  <2>2. ~(~collector.delivered /\ collector'.delivered)
    <3>1. pins'.en # 0 => collector'.delivered = (collector.delivered /\ ~Freed)
      BY <1>3, Sampled
    <3>2. pins'.en = 0 => collector'.delivered =
                            ((collector.delivered \/ collector.bytes # << >>) /\ ~Freed)
      BY <1>3, Sampled
    <3>3. pins'.en = 0 => collector.bytes = << >>
      <4>1. framer.state \in SendingStates => pins'.en = 1
        BY <1>1, <1>3, FramerCycles DEF SendingStates
      <4>2. QED BY <1>1, <1>4, <4>1 DEF CollectorInv
    <3>4. QED BY <3>1, <3>2, <3>3
  <2>3. QED BY <2>1, <2>2
<1>5. CASE framer.state = "TX_IFG"
  <2>1. collector'.last = IF framer.ifg_count = 0 THEN Line!HeadFrame ELSE collector.last
    BY <1>1, <1>5, StationInGap
  <2>2. framer.ifg_count = 0 <=> ~collector.delivered /\ collector'.delivered
    <3>1. pins'.en = 0 /\ (framer.ifg_count = 0 => tx_queue' = tx_queue)
      <4>1. /\ pins'.en = 0
            /\ tx_queue' = tx_queue \/ framer.ifg_count = IFG_NIBBLES - 1
        BY <1>1, <1>3, <1>5, FramerCycles DEF SendingStates
      <4>2. framer.ifg_count = 0 => framer.ifg_count # IFG_NIBBLES - 1
        BY LineSizes, LineGap
      <4>3. QED BY <4>1, <4>2
    <3>2. collector'.delivered =
            ((collector.delivered \/ collector.bytes # << >>) /\ ~Freed)
      BY <1>3, <3>1, Sampled
    <3>3. IF framer.ifg_count = 0 THEN collector.bytes # << >> /\ ~collector.delivered
                                  ELSE collector.bytes = << >> /\ collector.delivered
      BY <1>1, <1>5 DEF CollectorInv
    <3>4. QED BY <3>1, <3>2, <3>3 DEF Freed
  <2>3. Line!HeadFrame = Format!WireFrame(Head(Outbox))
    <3>1. /\ TQ!packet_queue_read_slot_valid(tx_queue)
          /\ framer_slot_idx = tx_queue.read_idx
      BY <1>1, <1>5 DEF FramerInv, Tx!FramerOwnsReadSlot, TQ!packet_queue_read_slot_valid
    <3>2. Line!HeadBody = SlotBody(tx_queue, tx_queue.read_idx)
      BY <3>1 DEF Line!HeadBody, Line!SlotBody, SlotBody
    <3>3. QED BY <1>1, <3>1, <3>2, FirstInOutbox, SameFrame DEF Line!HeadFrame
  <2>4. QED BY <2>1, <2>2, <2>3
<1>6. QED BY <1>2, <1>4, <1>5

\* The station receives what ArpResponder says, when it says so.
LEMMA CallKeepsPromise ==
  ASSUME Exact, Exact', [Call]_vars
  PROVE  Service!Next \/ UNCHANGED Service!vars
<1>1. Joint /\ Joint' /\ CollectorInv
  BY DEF Exact
<1>2. CASE TransmitCycle
  <2>1. Service!Deliver \/ Service!Release \/ UNCHANGED Service!postVars
    BY <1>1, <1>2, TransmitsAsPost
  <2>2. collector'.last = IF ~collector.delivered /\ collector'.delivered
                            THEN Format!WireFrame(Head(Outbox)) ELSE collector.last
    BY <1>2, Receipt
  <2>3. CASE Service!Deliver
    <3>1. ~collector.delivered /\ collector'.delivered
      BY <2>3 DEF Service!Deliver
    <3>2. collector'.last = Format!WireFrame(Head(Outbox))
      BY <2>2, <3>1
    <3>3. QED BY <2>3, <3>2 DEF Service!Next
  <2>4. CASE Service!Release
    <3>1. collector'.last = collector.last
      BY <2>2, <2>4 DEF Service!Release
    <3>2. QED BY <2>4, <3>1 DEF Service!Next
  <2>5. CASE UNCHANGED Service!postVars
    <3>1. collector'.last = collector.last
      BY <2>2, <2>5 DEF Service!postVars
    <3>2. QED BY <2>5, <3>1 DEF Service!vars, Service!postVars
  <2>6. QED BY <2>1, <2>3, <2>4, <2>5
<1>3. CASE ~TransmitCycle
  <2>1. collector' = collector
    BY <1>1, <1>3, OthersKeepContent DEF Exact
  <2>2. CASE Receives
    <3>1. Service!Receive \/ UNCHANGED Service!postVars
      BY <1>1, <2>2, ReceivesAsPost
    <3>2. QED BY <2>1, <3>1 DEF Service!Next, Service!vars, Service!postVars
  <2>3. CASE HandleCycle
    <3>1. Service!PostNext \/ UNCHANGED Service!postVars
      BY <1>1, <2>3, HandlesAsPost
    <3>2. ~Service!Deliver
      BY <2>1 DEF Service!Deliver
    <3>3. QED
      BY <2>1, <3>1, <3>2 DEF Service!PostNext, Service!Next, Service!vars, Service!postVars
  <2>4. CASE UNCHANGED vars
    <3>1. UNCHANGED << rx_queue, tx_queue, prepare, collector >>
      BY <2>4 DEF vars, protoVars, handlerVars
    <3>2. QED
      BY <3>1 DEF Service!vars, Inbox, Outbox, ReceivedPacket, SlotBody
  <2>5. QED BY <1>3, <2>2, <2>3, <2>4 DEF Call, Receives
<1>4. QED BY <1>2, <1>3

\* And what arrives is right as well: with each delivery the station receives
\* the wire frame, from the preamble to the FCS, of the packet that was first
\* in the TX ring when its transmission began, and at no other time does it
\* take anything for a frame.  With EndpointKeepsPost this is all of what
\* ArpResponder promises: from the nibbles of a request to the nibbles of its
\* reply (endpoint.cpp:43-52, ethernet_framer.h:97-188).
THEOREM EndpointAnswersRequests == EndpointSafety => AnswersRequests
<1>1. EndpointInit => Service!Init
  <2> SUFFICES ASSUME EndpointInit PROVE Service!Init
    OBVIOUS
  <2>1. collector.last = << >>
    BY DEF EndpointInit
  <2>2. QED BY <2>1, PostAtFirst DEF Service!Init, Service!Nothing
<1>2. Exact /\ Exact' /\ [Call]_vars => [Service!Next]_(Service!vars)
  BY CallKeepsPromise
<1>3. QED
  BY <1>1, <1>2, ExactAtFirst, ExactNext, PTL
  DEF EndpointSafety, AnswersRequests, Service!Spec

----------------------------------------------------------------------------
(* The numbers of the beacons.                                             *)

\* An observer of Endpoint that counts the beacons published.
BeaconsObserved == beacons = 0 /\ [][Observed]_<< vars, beacons >>

\* In the whole endpoint too, the count that a beacon carries is the number of
\* beacons published before it (ethernet_protocol_handler.h:129-138).
THEOREM EndpointNumbersBeacons ==
  EndpointSafety /\ BeaconsObserved => BeaconsAreNumbered
<1>1. EndpointInit /\ beacons = 0 => NumberInv
  BY RestAtFirst, NumbersAtFirst
<1>2. Joint /\ NumberInv /\ [Call]_vars /\ [Observed]_<< vars, beacons >>
        => /\ NumberInv'
           /\ [PublishesBeacon => prepare.request.counts[7] = beacons]_envVars
  <2> SUFFICES ASSUME Joint, NumberInv, [Call]_vars, [Observed]_<< vars, beacons >>
               PROVE  /\ NumberInv'
                      /\ PublishesBeacon => prepare.request.counts[7] = beacons
    OBVIOUS
  <2>1. protocol_queue_step \/ Rely
    BY CallIsRely DEF Joint, BodyInv
  <2>2. Observed
    BY DEF Observed, PublishesBeacon, Published, vars, protoVars
  <2>3. QED BY <2>1, <2>2, NumbersNext
<1>3. QED
  BY <1>1, <1>2, JointHolds, PTL
  DEF EndpointSafety, BeaconsObserved, BeaconsAreNumbered

----------------------------------------------------------------------------
(* Keeping up with the line.                                               *)
(*                                                                         *)
(* Time is counted as work: what the handler has before it until it is     *)
(* done with the oldest packet, reply included, and the least that those   *)
(* behind it lasted on the line.  The line adds one in every cycle and the *)
(* handler takes off one; when a frame ends, its cycles become those of a  *)
(* packet, which are not fewer than the handler needs for it.              *)

ReplyBytes == protocol_tx_frame_body_len("ARP_REPLY")
BeaconBytes == protocol_tx_frame_body_len("BEACON")
LongestBody == IF ReplyBytes >= BeaconBytes THEN ReplyBytes ELSE BeaconBytes

\* The cycles from taking a packet to the last byte of its reply.
Takes(meta) == IF LooksLikeArp(meta) THEN ARP_PAYLOAD_BYTES + ReplyBytes ELSE 1

\* Under KeepsUp, the cycles of the shortest frame.
Shortest ==
  CHOOSE n \in Nat \ {0} :
    (\A frame \in Frames : 2 * Len(frame) + 1 >= n) /\ HoldsWhatArrives(n)

\* How much longer than the shortest an ARP packet lasts, at the least.
Extra ==
  IF ARP_PAYLOAD_BYTES + ReplyBytes >= Shortest
    THEN ARP_PAYLOAD_BYTES + ReplyBytes - Shortest ELSE 0

\* The cycles a packet has been on the line, at the least.
Lasts(meta) == Shortest + (IF LooksLikeArp(meta) THEN Extra ELSE 0)

\* The slots with an ARP packet that is not the oldest.
LaterArps(q) ==
  { s \in RQ!Slot : q.valid[s] /\ s # q.read_idx /\ LooksLikeArp(q.meta[s]) }

\* What all packets but the oldest have lasted.
Behind(q) == Shortest * (RQ!Depth(q) - 1) + Extra * Cardinality(LaterArps(q))

\* The cycles until the handler is done with the oldest packet.
ToAnswer ==
  Left + (IF protocol_state = "PROTO_PARSE_ARP"
            THEN ARP_PAYLOAD_BYTES - parse.index + (ReplyBytes - 1)
            ELSE Takes(Waiting))

\* The most work there can be, by what the oldest packet is: it has found the
\* longest preparation begun, or a reply to one that has itself lasted.
Limit(meta) ==
  LongestBody + (IF LooksLikeArp(meta) THEN ARP_PAYLOAD_BYTES + ReplyBytes - 1 ELSE Extra)

\* No frame has been refused, and the work has not exceeded the limit.
KeepingUp ==
  /\ turn \in {"receive", "handle", "transmit"}
  /\ ~Sending => sender.nibbles = 0
  /\ rx_queue.drop_count = 0 /\ ~rx_drop_current
  /\ Left <= LongestBody - 1
  /\ rx_queue.valid[rx_queue.read_idx] =>
       ToAnswer + Behind(rx_queue) + sender.nibbles + (IF turn = "handle" THEN 0 ELSE 1)
         <= Limit(Waiting)

\* The lengths of what is sent.
LEMMA BodySizes ==
  /\ ETH_HEADER_BYTES \in Nat \ {0} /\ ARP_PAYLOAD_BYTES \in Nat \ {0}
  /\ ReplyBytes \in Nat \ {0} /\ ReplyBytes = ETH_HEADER_BYTES + ARP_PAYLOAD_BYTES
  /\ BeaconBytes \in Nat /\ LongestBody \in Nat
  /\ LongestBody >= ReplyBytes /\ LongestBody >= BeaconBytes
<1>1. /\ MacBytes \in Nat \ {0} /\ IpBytes \in Nat /\ Len(ARP_ETHERTYPE) \in Nat
      /\ Len(ArpRequestFields) \in Nat /\ Len(BeaconText(NoCounts)) \in Nat
  BY FramesAssumption DEF MacBytes, IpBytes
<1>2. ETH_HEADER_BYTES \in Nat \ {0} /\ ARP_PAYLOAD_BYTES \in Nat \ {0}
  BY <1>1 DEF ETH_HEADER_BYTES, ARP_PAYLOAD_BYTES
<1>3. /\ ReplyBytes = ETH_HEADER_BYTES + ARP_PAYLOAD_BYTES
      /\ BeaconBytes = ETH_HEADER_BYTES + Len(BeaconText(NoCounts))
  BY DEF ReplyBytes, BeaconBytes, protocol_tx_frame_body_len
<1>4. QED BY <1>1, <1>2, <1>3 DEF LongestBody

\* What KeepsUp says of the lengths.
LEMMA RatesFit ==
  ASSUME KeepsUp
  PROVE  /\ Shortest \in Nat \ {0} /\ Extra \in Nat
         /\ \A frame \in Frames : 2 * Len(frame) + 1 >= Shortest
         /\ LongestBody + ARP_PAYLOAD_BYTES <= Shortest * (RxSlots - 1) + 1
         /\ LongestBody + ARP_PAYLOAD_BYTES + ReplyBytes <= Shortest * (RxSlots - 1) + Shortest + 1
         /\ ARP_PAYLOAD_BYTES + ReplyBytes <= Shortest + Extra
         /\ Extra <= ARP_PAYLOAD_BYTES + ReplyBytes - 1
<1> DEFINE Fits(n) == (\A frame \in Frames : 2 * Len(frame) + 1 >= n) /\ HoldsWhatArrives(n)
<1>1. \E n \in Nat \ {0} : Fits(n)
  <2>1. PICK f \in Frames : Fits(2 * Len(f) + 1)
    BY DEF KeepsUp
  <2>2. 2 * Len(f) + 1 \in Nat \ {0}
    BY FramesAreBytes
  <2>3. QED BY <2>1, <2>2
<1>2. Shortest \in Nat \ {0} /\ Fits(Shortest)
  <2> HIDE DEF Fits
  <2>1. Shortest = CHOOSE n \in Nat \ {0} : Fits(n)
    BY DEF Shortest, Fits
  <2>2. QED BY <1>1, <2>1
<1>3. /\ ReplyBytes + ARP_PAYLOAD_BYTES <= (RxSlots - 1) * Shortest + 1
      /\ BeaconBytes + ARP_PAYLOAD_BYTES <= (RxSlots - 1) * Shortest + 1
      /\ ReplyBytes + ARP_PAYLOAD_BYTES + ReplyBytes <= RxSlots * Shortest + 1
      /\ BeaconBytes + ARP_PAYLOAD_BYTES + ReplyBytes <= RxSlots * Shortest + 1
  BY <1>2 DEF HoldsWhatArrives, ReplyBytes, BeaconBytes
<1>4. /\ (RxSlots - 1) * Shortest = Shortest * (RxSlots - 1)
      /\ RxSlots * Shortest = Shortest * (RxSlots - 1) + Shortest
  BY <1>2, RingSizes
<1>5. /\ LongestBody + ARP_PAYLOAD_BYTES <= Shortest * (RxSlots - 1) + 1
      /\ LongestBody + ARP_PAYLOAD_BYTES + ReplyBytes <= Shortest * (RxSlots - 1) + Shortest + 1
  BY <1>3, <1>4 DEF LongestBody
<1>6. /\ Extra \in Nat /\ ARP_PAYLOAD_BYTES + ReplyBytes <= Shortest + Extra
      /\ Extra <= ARP_PAYLOAD_BYTES + ReplyBytes - 1
  BY <1>2, BodySizes DEF Extra
<1>7. QED BY <1>2, <1>5, <1>6

\* They can be counted.
LEMMA LaterArpsCount ==
  ASSUME NEW q
  PROVE  IsFiniteSet(LaterArps(q)) /\ Cardinality(LaterArps(q)) \in Nat
<1>1. IsFiniteSet(RQ!Slot)
  BY RingSizes, FS_Interval DEF RQ!Slot
<1>2. LaterArps(q) \in SUBSET RQ!Slot
  BY DEF LaterArps
<1>3. IsFiniteSet(LaterArps(q))
  BY <1>1, <1>2, FS_Subset
<1>4. QED BY <1>3, FS_CardinalityType

\* Every packet behind the oldest has lasted as long as the shortest frame.
LEMMA BehindType ==
  ASSUME KeepsUp, NEW q, RQ!Ring(q)
  PROVE  /\ RQ!Depth(q) \in 0 .. RxSlots /\ Behind(q) \in Int
         /\ Shortest * (RQ!Depth(q) - 1) \in Int
         /\ Behind(q) >= Shortest * (RQ!Depth(q) - 1)
<1> DEFINE depth == RQ!Depth(q)
           n == Cardinality(LaterArps(q))
<1>1. depth \in 0 .. RxSlots
  BY RingSizes, RQ!PublishedAreValid
<1>2. n \in Nat
  BY LaterArpsCount
<1>3. Behind(q) = Shortest * (depth - 1) + Extra * n
  BY DEF Behind
<1> HIDE DEF depth, n
<1>4. depth - 1 \in Int /\ RxSlots \in Nat
  BY <1>1, RingSizes
<1>5. Shortest * (depth - 1) \in Int
  BY <1>4, RatesFit
<1>6. Extra * n \in Nat
  BY <1>2, RatesFit
<1>7. QED BY <1>1, <1>3, <1>5, <1>6 DEF depth

\* When nothing waits at the read index, the ring is empty.
LEMMA NothingWaitsNothingIsThere ==
  ASSUME KeepsUp, NEW q, RQ!Ring(q), ~q.valid[q.read_idx]
  PROVE  /\ RQ!Depth(q) = 0 /\ q.read_idx = q.write_idx
         /\ \A s \in RQ!Slot : ~q.valid[s]
  BY RingSizes DEF RQ!Ring, RQ!RingShape, RQ!Shape, RQ!Between, RQ!Slot, RQ!Depth

\* A packet published behind others adds what it has lasted.
LEMMA BehindGrows ==
  ASSUME KeepsUp, NEW q, NEW meta, RQ!Ring(q), RQ!packet_queue_write_slot_available(q),
         q.valid[q.read_idx]
  PROVE  LET d == RQ!packet_queue_publish_write_slot(q, meta)
         IN  /\ Behind(d) = Behind(q) + Lasts(meta)
             /\ d.read_idx = q.read_idx /\ d.valid[d.read_idx]
             /\ d.meta[d.read_idx] = q.meta[q.read_idx]
<1> DEFINE d == RQ!packet_queue_publish_write_slot(q, meta)
           w == q.write_idx
           A == LaterArps(q)
           depth == RQ!Depth(q)
           n == Cardinality(A)
<1>1. /\ d.valid = [q.valid EXCEPT ![w] = TRUE] /\ d.meta = [q.meta EXCEPT ![w] = meta]
      /\ d.read_idx = q.read_idx
  BY RingSizes, RQ!PublishKeepsRing
<1>2. /\ w \in RQ!Slot /\ q.read_idx \in RQ!Slot /\ ~q.valid[w] /\ w # q.read_idx
      /\ q.valid \in [RQ!Slot -> BOOLEAN] /\ DOMAIN q.meta = RQ!Slot
  BY DEF RQ!Ring, RQ!packet_queue_write_slot_available
<1>3. RQ!Depth(d) = depth + 1 /\ depth \in Nat
  BY RingSizes, RQ!PublishCounts, BehindType
<1>4. IsFiniteSet(A) /\ n \in Nat /\ w \notin A
  BY <1>2, LaterArpsCount DEF LaterArps
<1>5. /\ d.valid[w] /\ d.meta[w] = meta
      /\ \A s \in RQ!Slot : s # w => d.valid[s] = q.valid[s] /\ d.meta[s] = q.meta[s]
  BY <1>1, <1>2
<1>6. /\ Behind(d) = Shortest * (RQ!Depth(d) - 1)
                       + Extra * Cardinality(LaterArps(d))
      /\ Behind(q) = Shortest * (depth - 1) + Extra * n
  BY DEF Behind
<1> HIDE DEF d, depth
<1>7. Cardinality(LaterArps(d)) = n + (IF LooksLikeArp(meta) THEN 1 ELSE 0)
  <2>1. CASE LooksLikeArp(meta)
    <3>1. LaterArps(d) = A \cup {w}
      BY <1>1, <1>2, <1>5, <2>1 DEF LaterArps
    <3>2. Cardinality(A \cup {w}) = n + 1
      BY <1>4, FS_AddElement
    <3>3. QED BY <2>1, <3>1, <3>2
  <2>2. CASE ~LooksLikeArp(meta)
    <3>1. LaterArps(d) = A
      BY <1>1, <1>2, <1>5, <2>2 DEF LaterArps
    <3>2. QED BY <1>4, <2>2, <3>1
  <2>3. QED BY <2>1, <2>2
<1> HIDE DEF n
<1>8. Shortest * (depth + 1 - 1) = Shortest * (depth - 1) + Shortest
      /\ Shortest * (depth - 1) \in Int
  BY <1>3, RatesFit
<1>9. Extra * (n + 1) = Extra * n + Extra
      /\ Extra * n \in Int
  BY <1>4, RatesFit
<1>10. Behind(d) = Behind(q) + Lasts(meta)
  <2>1. CASE LooksLikeArp(meta)
    BY <1>3, <1>4, <1>6, <1>7, <1>8, <1>9, <2>1, RatesFit DEF Lasts
  <2>2. CASE ~LooksLikeArp(meta)
    <3>1. Cardinality(LaterArps(d)) = n
      BY <1>4, <1>7, <2>2
    <3>2. QED BY <1>3, <1>4, <1>6, <1>8, <1>9, <2>2, <3>1, RatesFit DEF Lasts
  <2>3. QED BY <2>1, <2>2
<1>11. d.valid[d.read_idx] /\ d.meta[d.read_idx] = q.meta[q.read_idx]
  BY <1>1, <1>2, <1>5
<1>12. QED BY <1>1, <1>10, <1>11 DEF d

\* One published into an empty ring is the oldest.
LEMMA BehindNothing ==
  ASSUME KeepsUp, NEW q, NEW meta, RQ!Ring(q), ~q.valid[q.read_idx]
  PROVE  LET d == RQ!packet_queue_publish_write_slot(q, meta)
         IN  Behind(d) = 0 /\ d.valid[d.read_idx] /\ d.meta[d.read_idx] = meta
<1> DEFINE d == RQ!packet_queue_publish_write_slot(q, meta)
           w == q.write_idx
<1>1. RQ!Depth(q) = 0 /\ q.read_idx = w /\ \A s \in RQ!Slot : ~q.valid[s]
  BY NothingWaitsNothingIsThere
<1>2. RQ!packet_queue_write_slot_available(q)
  BY <1>1 DEF RQ!packet_queue_write_slot_available
<1>3. /\ d.valid = [q.valid EXCEPT ![w] = TRUE] /\ d.meta = [q.meta EXCEPT ![w] = meta]
      /\ d.read_idx = w /\ RQ!Depth(d) = 1
  <2>1. /\ d.valid = [q.valid EXCEPT ![w] = TRUE] /\ d.meta = [q.meta EXCEPT ![w] = meta]
        /\ d.read_idx = q.read_idx
    BY <1>2, RingSizes, RQ!PublishKeepsRing
  <2>2. RQ!Depth(d) = RQ!Depth(q) + 1
    BY <1>2, RingSizes, RQ!PublishCounts
  <2>3. QED BY <1>1, <2>1, <2>2
<1>4. /\ w \in RQ!Slot /\ q.valid \in [RQ!Slot -> BOOLEAN] /\ DOMAIN q.meta = RQ!Slot
  BY DEF RQ!Ring
<1> HIDE DEF d
<1>5. d.valid[d.read_idx] /\ d.meta[d.read_idx] = meta
  BY <1>3, <1>4
<1>6. LaterArps(d) = {}
  BY <1>1, <1>3, <1>4 DEF LaterArps
<1>7. Behind(d) = 0
  <2>1. Behind(d) = Shortest * (1 - 1) + Extra * 0
    BY <1>3, <1>6, FS_EmptySet DEF Behind
  <2>2. QED BY <2>1, RatesFit
<1>8. QED BY <1>5, <1>7 DEF d

\* The packet behind the oldest becomes the oldest.
LEMMA BehindShrinks ==
  ASSUME KeepsUp, NEW q, RQ!Ring(q), q.valid[q.read_idx]
  PROVE  LET d == RQ!packet_queue_consume_read_slot(q)
         IN  d.valid[d.read_idx] =>
               Behind(d) + Lasts(d.meta[d.read_idx]) = Behind(q)
<1> DEFINE d == RQ!packet_queue_consume_read_slot(q)
           r == q.read_idx
           t == d.read_idx
           A == LaterArps(q)
           depth == RQ!Depth(q)
           n == Cardinality(A)
<1>1. RQ!packet_queue_read_slot_valid(q)
  BY DEF RQ!packet_queue_read_slot_valid
<1>2. /\ d.valid = [q.valid EXCEPT ![r] = FALSE] /\ d.meta = q.meta
      /\ RQ!Ring(d) /\ RQ!Depth(d) = depth - 1
  BY <1>1, RingSizes, RQ!ConsumeKeepsRing, RQ!ConsumeCounts
<1>3. /\ r \in RQ!Slot /\ t \in RQ!Slot /\ q.valid \in [RQ!Slot -> BOOLEAN]
  BY <1>2 DEF RQ!Ring
<1>4. depth \in Nat /\ IsFiniteSet(A) /\ n \in Nat
  BY RingSizes, BehindType, LaterArpsCount
<1>5. /\ Behind(d) = Shortest * (RQ!Depth(d) - 1)
                       + Extra * Cardinality(LaterArps(d))
      /\ Behind(q) = Shortest * (depth - 1) + Extra * n
  BY DEF Behind
<1> HIDE DEF d, depth
<1> SUFFICES ASSUME d.valid[t] PROVE Behind(d) + Lasts(d.meta[t]) = Behind(q)
  BY DEF d
<1>6. t # r /\ q.valid[t]
  BY <1>2, <1>3
<1>7. LaterArps(d) = A \ {t}
  BY <1>2, <1>3, <1>6 DEF LaterArps
<1>8. t \in A <=> LooksLikeArp(d.meta[t])
  BY <1>2, <1>3, <1>6 DEF LaterArps
<1>9. Cardinality(LaterArps(d)) = IF t \in A THEN n - 1 ELSE n
  BY <1>4, <1>7, FS_RemoveElement
<1> HIDE DEF n, A
<1>10. Shortest * (depth - 1) = Shortest * (depth - 1 - 1) + Shortest
       /\ Shortest * (depth - 1 - 1) \in Int
  BY <1>4, RatesFit
<1>11. Extra * n = Extra * (n - 1) + Extra
       /\ Extra * (n - 1) \in Int
  BY <1>4, RatesFit
<1>12. CASE LooksLikeArp(d.meta[t])
  BY <1>2, <1>5, <1>8, <1>9, <1>10, <1>11, <1>12, RatesFit DEF Lasts
<1>13. CASE ~LooksLikeArp(d.meta[t])
  BY <1>2, <1>5, <1>8, <1>9, <1>10, <1>11, <1>13, RatesFit DEF Lasts
<1>14. QED BY <1>12, <1>13

\* All times are numbers, and a request has its reply before it.
LEMMA WorkType ==
  ASSUME ParseInv
  PROVE  /\ Left \in Nat /\ ToAnswer \in Nat \ {0}
         /\ ~prepare.active => Left = 0
         /\ LooksLikeArp(Waiting) => ToAnswer >= ReplyBytes
<1>1. Left \in Nat /\ (~prepare.active => Left = 0)
  BY DEF Left, ParseInv, SlotInv, OwnsWriteSlot, Sized
<1>2. protocol_state = "PROTO_PARSE_ARP" => ARP_PAYLOAD_BYTES - parse.index \in Nat \ {0}
  BY BodySizes DEF ParseInv
<1>3. /\ Takes(Waiting) \in Nat \ {0}
      /\ LooksLikeArp(Waiting) => Takes(Waiting) >= ReplyBytes
  BY BodySizes DEF Takes
<1>4. CASE protocol_state = "PROTO_PARSE_ARP"
  BY <1>1, <1>2, <1>4, BodySizes DEF ToAnswer
<1>5. CASE protocol_state # "PROTO_PARSE_ARP"
  BY <1>1, <1>3, <1>5, BodySizes DEF ToAnswer
<1>6. QED BY <1>1, <1>4, <1>5

LEMMA LimitType ==
  ASSUME KeepsUp, NEW meta
  PROVE  /\ Limit(meta) \in Nat /\ Limit(meta) >= LongestBody
         /\ LooksLikeArp(meta) => Limit(meta) = LongestBody + (ARP_PAYLOAD_BYTES + ReplyBytes - 1)
         /\ ~LooksLikeArp(meta) => Limit(meta) = LongestBody + Extra
<1>1. Extra \in Nat
  BY RatesFit
<1>2. QED BY <1>1, BodySizes DEF Limit

\* A packet that is done leaves time for the one behind it, even if it has
\* called for a reply.
LEMMA FreeingWorks ==
  ASSUME KeepsUp, ParseInv, RQ!packet_queue_read_slot_valid(rx_queue),
         rx_queue' = RQ!packet_queue_consume_read_slot(rx_queue),
         rx_queue'.valid[rx_queue'.read_idx],
         protocol_state' # "PROTO_PARSE_ARP", Left' \in Nat,
         \/ ToAnswer = 1 /\ Left' = 0 /\ ~LooksLikeArp(Waiting)
         \/ ToAnswer = ReplyBytes /\ Left' <= ReplyBytes - 1 /\ LooksLikeArp(Waiting),
         NEW n \in Nat, ToAnswer + Behind(rx_queue) + n <= Limit(Waiting)
  PROVE  ToAnswer' + Behind(rx_queue') + n + 1 <= Limit(Waiting')
<1> DEFINE next == rx_queue'.meta[rx_queue'.read_idx]
<1>1. RQ!Ring(rx_queue) /\ rx_queue.valid[rx_queue.read_idx]
  BY DEF ParseInv, SlotInv, RQ!packet_queue_read_slot_valid
<1>2. RQ!Ring(rx_queue')
  BY <1>1, RingSizes, RQ!ConsumeKeepsRing
<1>3. Behind(rx_queue') + Lasts(next) = Behind(rx_queue)
  BY <1>1, BehindShrinks
<1>4. Behind(rx_queue') \in Int /\ Behind(rx_queue) \in Int
  BY <1>1, <1>2, BehindType
<1>5. ToAnswer' = Left' + Takes(next) /\ Waiting' = next
  BY DEF ToAnswer, Waiting
<1>6. /\ LooksLikeArp(next) => /\ Takes(next) = ARP_PAYLOAD_BYTES + ReplyBytes
                               /\ Lasts(next) = Shortest + Extra
                               /\ Limit(next) = LongestBody + (ARP_PAYLOAD_BYTES + ReplyBytes - 1)
      /\ ~LooksLikeArp(next) => /\ Takes(next) = 1
                                /\ Lasts(next) = Shortest
                                /\ Limit(next) = LongestBody + Extra
  <2>1. Shortest \in Nat
    BY RatesFit
  <2>2. QED BY <2>1, LimitType DEF Takes, Lasts
<1> HIDE DEF next
<1>7. /\ LooksLikeArp(Waiting) => Limit(Waiting) = LongestBody + (ARP_PAYLOAD_BYTES + ReplyBytes - 1)
      /\ ~LooksLikeArp(Waiting) => Limit(Waiting) = LongestBody + Extra
  BY LimitType
<1>8. /\ Shortest \in Nat \ {0} /\ Extra \in Nat
      /\ ARP_PAYLOAD_BYTES + ReplyBytes <= Shortest + Extra
      /\ ARP_PAYLOAD_BYTES \in Nat /\ ReplyBytes \in Nat /\ LongestBody \in Nat
  BY RatesFit, BodySizes
<1> DEFINE l == Left'
           b == Behind(rx_queue')
           k == Limit(Waiting)
<1>9. /\ l \in Nat /\ b \in Int /\ Behind(rx_queue) = b + Lasts(next)
      /\ \/ ToAnswer = 1 /\ l = 0 /\ k = LongestBody + Extra
         \/ /\ ToAnswer = ReplyBytes /\ l <= ReplyBytes - 1
            /\ k = LongestBody + (ARP_PAYLOAD_BYTES + ReplyBytes - 1)
      /\ ToAnswer + Behind(rx_queue) + n <= k
  BY <1>3, <1>4, <1>7
<1> HIDE DEF l, b, k
<1>10. l + Takes(next) + b + n + 1 <= Limit(next)
  <2>1. CASE LooksLikeArp(next)
    BY <1>6, <1>8, <1>9, <2>1
  <2>2. CASE ~LooksLikeArp(next)
    BY <1>6, <1>8, <1>9, <2>2
  <2>3. QED BY <2>1, <2>2
<1>11. QED BY <1>5, <1>10 DEF l, b

\* In every step the handler takes a cycle off the work before it.
LEMMA HandlerWorks ==
  ASSUME KeepsUp, ParseInv, protocol_queue_step, Left <= LongestBody - 1, NEW n \in Nat,
         rx_queue.valid[rx_queue.read_idx] =>
           ToAnswer + Behind(rx_queue) + n <= Limit(Waiting)
  PROVE  /\ Left' <= LongestBody - 1
         /\ rx_queue.valid[rx_queue.read_idx] /\ rx_queue'.valid[rx_queue'.read_idx] =>
              ToAnswer' + Behind(rx_queue') + n + 1 <= Limit(Waiting')
         /\ ~rx_queue.valid[rx_queue.read_idx] => rx_queue' = rx_queue
<1> DEFINE before == ToAnswer + Behind(rx_queue) + n <= Limit(Waiting)
           after == ToAnswer' + Behind(rx_queue') + n + 1 <= Limit(Waiting')
<1>1. /\ Left \in Nat /\ ToAnswer \in Nat \ {0} /\ (~prepare.active => Left = 0)
      /\ SlotInv /\ RQ!Ring(rx_queue)
  BY WorkType DEF ParseInv, SlotInv
<1>2. Behind(rx_queue) \in Int
  BY <1>1, BehindType
<1>3. ASSUME rx_queue' = rx_queue, ToAnswer' = ToAnswer - 1
      PROVE  rx_queue.valid[rx_queue.read_idx] => after
  <2>1. Behind(rx_queue') = Behind(rx_queue) /\ Waiting' = Waiting
    BY <1>3 DEF Waiting
  <2>2. (ToAnswer - 1) + Behind(rx_queue) + n + 1 = ToAnswer + Behind(rx_queue) + n
    BY <1>1, <1>2
  <2>3. QED BY <1>3, <2>1, <2>2
<1>4. ReplyBytes - 1 <= LongestBody - 1 /\ 0 <= LongestBody - 1 /\ 0 <= ReplyBytes - 1
  BY BodySizes
<1>5. CASE Preparing
  <2>1. Left' = Left - 1 /\ Left \in Nat \ {0}
    BY <1>1, <1>5, PreparationShortens DEF Preparing
  <2>2. /\ rx_queue' = rx_queue /\ protocol_state' = protocol_state /\ parse' = parse
        /\ Waiting' = Waiting
    BY <1>5 DEF Preparing, Waiting
  <2>3. protocol_state # "PROTO_PARSE_ARP"
    BY <1>1, <1>5 DEF SlotInv, OwnsReadSlot, Preparing
  <2>4. Takes(Waiting) \in Nat
    BY BodySizes DEF Takes
  <2>5. ToAnswer' = Left' + Takes(Waiting) /\ ToAnswer = Left + Takes(Waiting)
    BY <2>2, <2>3 DEF ToAnswer, Waiting
  <2>6. ToAnswer' = ToAnswer - 1
    BY <2>1, <2>4, <2>5
  <2>7. Left' <= LongestBody - 1
    BY <2>1, BodySizes
  <2>8. QED BY <1>3, <2>2, <2>6, <2>7
<1>6. CASE DropWaiting
  <2>1. Left' = 0 /\ Left = 0
    BY <1>6, NothingLeft DEF DropWaiting, Free
  <2>2. /\ protocol_state # "PROTO_PARSE_ARP" /\ protocol_state' # "PROTO_PARSE_ARP"
        /\ RQ!packet_queue_read_slot_valid(rx_queue)
        /\ rx_queue' = RQ!packet_queue_consume_read_slot(rx_queue)
        /\ Takes(Waiting) = 1 /\ ~LooksLikeArp(Waiting)
    BY <1>6 DEF DropWaiting, Free, PacketWaiting, Takes
  <2>3. ToAnswer = 1
    BY <2>1, <2>2 DEF ToAnswer
  <2>4. rx_queue.valid[rx_queue.read_idx] /\ before
    BY <2>2 DEF RQ!packet_queue_read_slot_valid
  <2>5. rx_queue'.valid[rx_queue'.read_idx] => after
    BY <2>1, <2>2, <2>3, <2>4, FreeingWorks
  <2>6. QED BY <1>4, <2>1, <2>4, <2>5
<1>7. CASE BeginParse
  <2>1. Left' = 0 /\ Left = 0
    BY <1>7, NothingLeft DEF BeginParse, Free
  <2>2. /\ protocol_state # "PROTO_PARSE_ARP" /\ protocol_state' = "PROTO_PARSE_ARP"
        /\ parse'.index = 0 /\ rx_queue' = rx_queue
        /\ Takes(Waiting) = ARP_PAYLOAD_BYTES + ReplyBytes
    BY <1>7 DEF BeginParse, Free, Takes
  <2>3. /\ ToAnswer' = 0 + (ARP_PAYLOAD_BYTES - 0 + (ReplyBytes - 1))
        /\ ToAnswer = 0 + (ARP_PAYLOAD_BYTES + ReplyBytes)
    BY <2>1, <2>2 DEF ToAnswer
  <2>4. ToAnswer' = ToAnswer - 1
    BY <2>3, BodySizes
  <2>5. QED BY <1>3, <1>4, <2>1, <2>2, <2>4
<1>8. CASE SendGratuitousArp \/ SendBeacon
  <2>1. /\ rx_queue' = rx_queue /\ ~rx_queue.valid[rx_queue.read_idx] /\ ~prepare.active
    BY <1>8 DEF SendGratuitousArp, SendBeacon, PacketWaiting, Free,
                RQ!packet_queue_read_slot_valid
  <2>2. CASE SendGratuitousArp
    <3>1. Start(protocol_tx_gratuitous_arp_request)
      BY <2>2 DEF SendGratuitousArp
    <3>2. protocol_tx_gratuitous_arp_request.len = ReplyBytes
      BY DEF protocol_tx_gratuitous_arp_request, Request, ReplyBytes,
             protocol_tx_frame_body_len
    <3>3. Left' = ReplyBytes - 1 \/ Left' = 0
      BY <1>1, <2>1, <3>1, <3>2, RequestsAreLong, StartTakesItsLength
    <3>4. QED BY <1>4, <2>1, <3>3
  <2>3. CASE SendBeacon
    <3>1. Start(BeaconRequest)
      BY <2>3 DEF SendBeacon
    <3>2. BeaconRequest.len = BeaconBytes
      BY DEF BeaconRequest, protocol_tx_beacon_request, Request, BeaconBytes
    <3>3. Left' = BeaconBytes - 1 \/ Left' = 0
      BY <1>1, <2>1, <3>1, <3>2, RequestsAreLong, StartTakesItsLength
    <3>4. BeaconBytes - 1 <= LongestBody - 1
      BY BodySizes
    <3>5. QED BY <1>4, <2>1, <3>3, <3>4
  <2>4. QED BY <1>8, <2>2, <2>3
<1>9. CASE NothingToDo
  <2>1. /\ Left' = 0 /\ rx_queue' = rx_queue /\ ~rx_queue.valid[rx_queue.read_idx]
    BY <1>9, NothingLeft
    DEF NothingToDo, PacketWaiting, Free, RQ!packet_queue_read_slot_valid
  <2>2. QED BY <1>4, <2>1
<1>10. CASE ParseArpByte
  <2>1. Left' = 0 /\ Left = 0
    BY <1>10, NothingLeft DEF ParseArpByte
  <2>2. /\ protocol_state = "PROTO_PARSE_ARP" /\ protocol_state' = "PROTO_PARSE_ARP"
        /\ parse.index \in 0 .. ARP_PAYLOAD_BYTES - 1
        /\ parse'.index = parse.index + 1 /\ rx_queue' = rx_queue
    BY <1>10 DEF ParseArpByte, ParseInv
  <2>3. /\ ToAnswer' = 0 + (ARP_PAYLOAD_BYTES - (parse.index + 1) + (ReplyBytes - 1))
        /\ ToAnswer = 0 + (ARP_PAYLOAD_BYTES - parse.index + (ReplyBytes - 1))
    BY <2>1, <2>2 DEF ToAnswer
  <2>4. ToAnswer' = ToAnswer - 1
    BY <2>2, <2>3, BodySizes
  <2>5. QED BY <1>3, <1>4, <2>1, <2>2, <2>4
<1>11. CASE FinishArp
  <2>1. /\ ~prepare.active /\ Left = 0
        /\ protocol_state = "PROTO_PARSE_ARP" /\ protocol_state' # "PROTO_PARSE_ARP"
        /\ parse.index = ARP_PAYLOAD_BYTES - 1
        /\ rx_queue' = RQ!packet_queue_consume_read_slot(rx_queue)
        /\ RQ!packet_queue_read_slot_valid(rx_queue) /\ LooksLikeArp(Waiting)
    BY <1>1, <1>11 DEF FinishArp, LastArpByte, SlotInv, OwnsReadSlot
  <2>2. ToAnswer = 0 + (ARP_PAYLOAD_BYTES - (ARP_PAYLOAD_BYTES - 1) + (ReplyBytes - 1))
    BY <2>1 DEF ToAnswer
  <2>3. ToAnswer = ReplyBytes
    BY <2>2, BodySizes
  <2>4. Left' = ReplyBytes - 1 \/ Left' = 0
    <3>1. CASE NothingStarted
      BY <2>1, <3>1, NothingLeft
    <3>2. ASSUME NEW mac, NEW ip, Start(ArpReplyRequest(mac, ip))
          PROVE  Left' = ReplyBytes - 1 \/ Left' = 0
      <4>1. ArpReplyRequest(mac, ip).len = ReplyBytes
        BY DEF ArpReplyRequest, Request, ReplyBytes
      <4>2. QED BY <1>1, <2>1, <3>2, <4>1, RequestsAreLong, StartTakesItsLength
    <3>3. QED BY <1>11, <3>1, <3>2 DEF FinishArp
  <2>5. Left' \in Nat /\ Left' <= ReplyBytes - 1 /\ Left' <= LongestBody - 1
    BY <1>4, <2>4, BodySizes
  <2>6. rx_queue.valid[rx_queue.read_idx] /\ before
    BY <2>1 DEF RQ!packet_queue_read_slot_valid
  <2>7. rx_queue'.valid[rx_queue'.read_idx] => after
    BY <2>1, <2>3, <2>5, <2>6, FreeingWorks
  <2>8. QED BY <2>5, <2>6, <2>7
<1>12. QED
  BY <1>5, <1>6, <1>7, <1>8, <1>9, <1>10, <1>11 DEF protocol_queue_step

\* While the handler keeps up, a frame that begins finds a free slot: a full
\* ring is more work than there can be.
LEMMA RoomForAFrame ==
  ASSUME KeepsUp, Joint, KeepingUp, turn = "receive"
  PROVE  RQ!packet_queue_write_slot_available(rx_queue)
<1> DEFINE q == rx_queue
<1> SUFFICES ASSUME q.valid[q.write_idx] PROVE FALSE
  BY DEF RQ!packet_queue_write_slot_available
<1>1. RQ!Ring(q) /\ ParseInv
  BY DEF Joint, ParseInv, SlotInv
<1>2. q.valid[q.read_idx] /\ RQ!Depth(q) = RxSlots
  BY <1>1, RingSizes
  DEF RQ!Ring, RQ!RingShape, RQ!Shape, RQ!Between, RQ!Slot, RQ!Depth
<1>3. Behind(q) \in Int /\ Behind(q) >= Shortest * (RxSlots - 1)
      /\ Shortest * (RxSlots - 1) \in Int
  BY <1>1, <1>2, BehindType
<1>4. ToAnswer \in Nat \ {0} /\ (LooksLikeArp(Waiting) => ToAnswer >= ReplyBytes)
  BY <1>1, WorkType
<1>5. sender.nibbles \in Nat
  BY FramesAreBytes DEF KeepingUp, Joint, Driven, Agreed, SenderOK, Sending
<1>6. ToAnswer + Behind(q) + sender.nibbles + 1 <= Limit(Waiting)
  BY <1>2 DEF KeepingUp
<1>7. /\ Shortest \in Nat \ {0} /\ LongestBody + ARP_PAYLOAD_BYTES <= Shortest * (RxSlots - 1) + 1
      /\ LongestBody + ARP_PAYLOAD_BYTES + ReplyBytes <= Shortest * (RxSlots - 1) + Shortest + 1
  BY RatesFit
<1>8. LongestBody + Extra <= Shortest * (RxSlots - 1) + 1
  BY <1>3, <1>7, BodySizes DEF Extra
<1>9. /\ LooksLikeArp(Waiting) => Limit(Waiting) = LongestBody + (ARP_PAYLOAD_BYTES + ReplyBytes - 1)
      /\ ~LooksLikeArp(Waiting) => Limit(Waiting) = LongestBody + Extra
  BY LimitType
<1>10. Extra \in Nat
  BY RatesFit
<1> HIDE DEF q
<1>11. CASE LooksLikeArp(Waiting)
  BY <1>3, <1>4, <1>5, <1>6, <1>7, <1>9, <1>11, BodySizes
<1>12. CASE ~LooksLikeArp(Waiting)
  BY <1>3, <1>4, <1>5, <1>6, <1>8, <1>9, <1>10, <1>12, BodySizes
<1>13. QED BY <1>11, <1>12

\* The work does not depend on the other steps but for the oldest packet.
LEMMA OthersLeaveWork ==
  ASSUME UNCHANGED handlerVars,
         rx_queue'.meta[rx_queue'.read_idx] = rx_queue.meta[rx_queue.read_idx]
  PROVE  Left' = Left /\ ToAnswer' = ToAnswer /\ Waiting' = Waiting
  BY DEF Left, ToAnswer, Waiting, handlerVars

\* Nor on the bytes in the slots.
LEMMA BehindStays ==
  ASSUME NEW q, NEW s, NEW i, NEW byte, RQ!Ring(q)
  PROVE  LET d == RQ!StoreByte(q, s, i, byte)
         IN  /\ Behind(d) = Behind(q)
             /\ d.valid = q.valid /\ d.meta = q.meta /\ d.read_idx = q.read_idx
             /\ d.drop_count = q.drop_count
<1> DEFINE d == RQ!StoreByte(q, s, i, byte)
<1>1. /\ d.valid = q.valid /\ d.meta = q.meta /\ d.read_idx = q.read_idx
      /\ d.write_idx = q.write_idx /\ d.drop_count = q.drop_count
  BY DEF RQ!StoreByte, RQ!Ring
<1> HIDE DEF d
<1>2. RQ!Depth(d) = RQ!Depth(q) /\ LaterArps(d) = LaterArps(q)
  BY <1>1 DEF RQ!Depth, LaterArps
<1>3. QED BY <1>1, <1>2 DEF Behind, d

\* The first nibble: the frame is admitted.
LEMMA BeginKeepsUp ==
  ASSUME KeepsUp, Joint, KeepingUp, BeginFrame
  PROVE  KeepingUp'
<1>1. /\ turn = "receive" /\ turn' = "handle" /\ UNCHANGED handlerVars
      /\ ~Sending /\ sender.nibbles = 0 /\ sender'.nibbles = 1 /\ Sending'
  BY StartsAsPhy DEF BeginFrame, ReceiveCycle, KeepingUp, Joint, Driven, Agreed, SenderOK
<1>2. RQ!packet_queue_write_slot_available(rx_queue)
  BY <1>1, RoomForAFrame
<1>3. PICK rxd : Phy!FrameStart(rxd, FALSE)
  BY StartsAsPhy
  DEF Phy!PhyStart, Phy!ethernet_rx_queue_step, Phy!LowNibble, Phy!HighNibble, Joint
<1>4. rx_queue' = rx_queue /\ ~rx_drop_current'
  BY <1>2, <1>3
  DEF Phy!FrameStart, Phy!RQ!packet_queue_write_slot_available,
      RQ!packet_queue_write_slot_available
<1>5. /\ Left' = Left /\ ToAnswer' = ToAnswer /\ Waiting' = Waiting
      /\ Behind(rx_queue') = Behind(rx_queue)
  BY <1>1, <1>4, OthersLeaveWork
<1>6. RQ!Ring(rx_queue) /\ ToAnswer \in Nat /\ Behind(rx_queue) \in Int
  BY WorkType, BehindType DEF Joint, ParseInv, SlotInv
<1>7. ToAnswer + Behind(rx_queue) + 0 + 1 = ToAnswer + Behind(rx_queue) + 1 + 0
  BY <1>6
<1>8. rx_queue'.valid[rx_queue'.read_idx] =>
        ToAnswer' + Behind(rx_queue') + sender'.nibbles + 0 <= Limit(Waiting')
  BY <1>1, <1>4, <1>5, <1>7 DEF KeepingUp
<1>9. QED BY <1>1, <1>4, <1>5, <1>8 DEF KeepingUp

\* Every other nibble.
LEMMA SendKeepsUp ==
  ASSUME KeepsUp, Joint, KeepingUp, SendNibble
  PROVE  KeepingUp'
<1>1. /\ turn = "receive" /\ turn' = "handle" /\ UNCHANGED handlerVars
      /\ sender.nibbles \in Nat /\ sender'.nibbles = sender.nibbles + 1 /\ Sending'
  BY SendsAsPhy, FramesAreBytes
  DEF SendNibble, ReceiveCycle, Joint, Driven, Agreed, SenderOK, Sending
<1>2. PICK rxd : Phy!LowNibble(rxd, FALSE) \/ Phy!HighNibble(rxd, FALSE)
  BY SendsAsPhy DEF Phy!PhyNibble, Phy!ethernet_rx_queue_step, Phy!FrameStart, Joint
<1>3. ~rx_drop_current'
  BY <1>2 DEF Phy!LowNibble, Phy!HighNibble, KeepingUp
<1>4. \/ rx_queue' = rx_queue
      \/ \E s, i, byte : rx_queue' = RQ!StoreByte(rx_queue, s, i, byte)
  <2>1. \A s, i, byte :
          Phy!RQ!StoreByte(rx_queue, s, i, byte) = RQ!StoreByte(rx_queue, s, i, byte)
    BY DEF Phy!RQ!StoreByte, RQ!StoreByte
  <2>2. \/ rx_queue' = rx_queue
        \/ \E s, i, byte : rx_queue' = Phy!RQ!StoreByte(rx_queue, s, i, byte)
    BY <1>2 DEF Phy!LowNibble, Phy!HighNibble
  <2>3. QED BY <2>1, <2>2
<1>5. RQ!Ring(rx_queue) /\ ToAnswer \in Nat /\ Behind(rx_queue) \in Int
  BY WorkType, BehindType DEF Joint, ParseInv, SlotInv
<1>6. /\ Behind(rx_queue') = Behind(rx_queue)
      /\ rx_queue'.valid = rx_queue.valid /\ rx_queue'.meta = rx_queue.meta
      /\ rx_queue'.read_idx = rx_queue.read_idx
      /\ rx_queue'.drop_count = rx_queue.drop_count
  BY <1>4, <1>5, BehindStays
<1>7. Left' = Left /\ ToAnswer' = ToAnswer /\ Waiting' = Waiting
  BY <1>1, <1>6, OthersLeaveWork
<1>8. ToAnswer + Behind(rx_queue) + sender.nibbles + 1
        = ToAnswer + Behind(rx_queue) + (sender.nibbles + 1) + 0
  BY <1>1, <1>5
<1>9. rx_queue'.valid[rx_queue'.read_idx] =>
        ToAnswer' + Behind(rx_queue') + sender'.nibbles + 0 <= Limit(Waiting')
  BY <1>1, <1>6, <1>7, <1>8 DEF KeepingUp
<1>10. QED BY <1>1, <1>3, <1>6, <1>7, <1>9 DEF KeepingUp

\* A frame between two pauses, and a pause between two frames.
LEMMA IdleKeepsUp ==
  ASSUME KeepsUp, Joint, KeepingUp, LeaveLineIdle
  PROVE  KeepingUp'
<1>1. /\ turn = "receive" /\ turn' = "handle" /\ UNCHANGED handlerVars
      /\ sender.nibbles = 0 /\ sender'.nibbles = 0
  BY DEF LeaveLineIdle, ReceiveCycle, KeepingUp, Joint, Driven, Agreed, SenderOK
<1>2. rx_queue' = rx_queue /\ ~rx_drop_current'
  BY IdlesAsPhy
  DEF Phy!PhyIdle, Phy!ethernet_rx_queue_step, Phy!FrameEnd, Phy!LineIdle, Joint
<1>3. /\ Left' = Left /\ ToAnswer' = ToAnswer /\ Waiting' = Waiting
      /\ Behind(rx_queue') = Behind(rx_queue)
  BY <1>1, <1>2, OthersLeaveWork
<1>4. ToAnswer \in Nat /\ Behind(rx_queue) \in Int
  BY WorkType, BehindType DEF Joint, ParseInv, SlotInv
<1>5. rx_queue'.valid[rx_queue'.read_idx] =>
        ToAnswer' + Behind(rx_queue') + sender'.nibbles + 0 <= Limit(Waiting')
  <2>1. rx_queue.valid[rx_queue.read_idx] =>
          ToAnswer + Behind(rx_queue) + 0 + 1 <= Limit(Waiting)
    BY <1>1 DEF KeepingUp
  <2>2. Limit(Waiting) \in Nat
    BY LimitType
  <2>3. QED BY <1>1, <1>2, <1>3, <1>4, <2>1, <2>2
<1>6. QED BY <1>1, <1>2, <1>3, <1>5 DEF KeepingUp

\* A frame that ends is published, and has lasted for as long as its packet
\* says.
LEMMA PacketHasLasted ==
  ASSUME KeepsUp, Driven, Phy!ReadsTheWire, EndFrame, ~rx_drop_current
  PROVE  \E meta :
           /\ rx_queue' = RQ!packet_queue_publish_write_slot(rx_queue, meta)
           /\ RQ!packet_queue_write_slot_available(rx_queue)
           /\ Lasts(meta) <= sender.nibbles + 1
<1> DEFINE f == sender.frame
           w == rx_queue.write_idx
<1>1. /\ Phy!FrameEnd(FALSE) /\ assembler.in_frame /\ Sending /\ LastNibbleSent
  BY EndsAsPhy
  DEF EndFrame, Driven, Agreed, Phy!PhyStop, Phy!ethernet_rx_queue_step, Phy!LineIdle
<1>2. f \in Frames /\ Len(f) \in Nat /\ sender.nibbles = 2 * Len(f) /\ Wire.frame = f
  BY <1>1, FramesAreBytes DEF Driven, Agreed, SenderOK, Sending, LastNibbleSent, Wire
<1>3. PICK meta : rx_queue' = RQ!packet_queue_publish_write_slot(rx_queue, meta)
  BY WholeFramesArePublished
<1>4. RQ!packet_queue_write_slot_available(rx_queue)
  BY <1>1
  DEF Driven, Phy!AdmittedFrameOwnsSlot, Phy!RQ!packet_queue_write_slot_available,
      RQ!packet_queue_write_slot_available
<1>5. /\ RQ!Ring(rx_queue) /\ w \in RQ!Slot
      /\ rx_queue'.valid = [rx_queue.valid EXCEPT ![w] = TRUE]
      /\ rx_queue'.meta = [rx_queue.meta EXCEPT ![w] = meta]
  BY <1>3, <1>4, RxRing, RingSizes, RQ!PublishKeepsRing DEF RQ!Ring
<1>6. rx_queue'.valid[w] /\ rx_queue'.meta[w] = meta /\ ~rx_queue.valid[w]
  BY <1>4, <1>5 DEF RQ!Ring, RQ!packet_queue_write_slot_available
<1>7. Phy!Publishes
  BY <1>6 DEF Phy!Publishes
<1>8. ~meta.truncated => ETH_HEADER_BYTES + meta.payload_len + FcsBytes <= Len(f)
  BY <1>1, <1>2, <1>6, <1>7, Sizes, FramesOK, Phy!PublishedFits DEF Driven
<1>9. 2 * Len(f) + 1 >= Shortest /\ Shortest \in Nat
  BY <1>2, RatesFit
<1>10. CASE LooksLikeArp(meta)
  <2>1. meta.payload_len \in Nat
    <3>1. meta = Phy!MetaOf(Phy!LatchError(parser, FALSE))
      BY <1>1, <1>6, <1>7, Sizes, FramesOK, Phy!EndPublishes DEF Driven
    <3>2. parser \in Phy!ParserType
      BY DEF Driven, Phy!TypeOK, Phy!ParserOK
    <3>3. meta.payload_len = parser.payload_count
      BY <3>1, <3>2 DEF Phy!MetaOf, Phy!LatchError, Phy!ParserType
    <3>4. QED BY <3>2, <3>3 DEF Phy!ParserType
  <2>2. meta.payload_len >= ARP_PAYLOAD_BYTES /\ ~meta.truncated
    BY <1>10 DEF LooksLikeArp
  <2>3. ETH_HEADER_BYTES + ARP_PAYLOAD_BYTES <= Len(f)
    BY <1>2, <1>8, <2>1, <2>2, BodySizes, PathAssumption
  <2>4. \/ Lasts(meta) = ETH_HEADER_BYTES + ARP_PAYLOAD_BYTES + ARP_PAYLOAD_BYTES
        \/ Lasts(meta) = Shortest
    BY <1>9, <1>10, BodySizes DEF Lasts, Extra
  <2>5. Lasts(meta) <= 2 * Len(f) + 1
    BY <1>2, <1>9, <2>3, <2>4, BodySizes
  <2>6. QED BY <1>2, <1>3, <1>4, <2>5
<1>11. CASE ~LooksLikeArp(meta)
  <2>1. Lasts(meta) = Shortest
    BY <1>9, <1>11 DEF Lasts
  <2>2. Lasts(meta) <= 2 * Len(f) + 1
    BY <1>9, <2>1
  <2>3. QED BY <1>2, <1>3, <1>4, <2>2
<1>12. QED BY <1>10, <1>11

\* The end of a frame: what it has lasted is now its packet's.
LEMMA EndKeepsUp ==
  ASSUME KeepsUp, Joint, Phy!ReadsTheWire, KeepingUp, EndFrame
  PROVE  KeepingUp'
<1>1. /\ turn = "receive" /\ turn' = "handle" /\ UNCHANGED handlerVars
      /\ sender.nibbles \in Nat /\ sender'.nibbles = 0
      /\ ~rx_drop_current /\ ~rx_drop_current'
  <2>1. ~rx_drop_current /\ ~rx_drop_current'
    BY EndsAsPhy DEF KeepingUp, Joint
  <2>2. /\ turn = "receive" /\ turn' = "handle" /\ UNCHANGED handlerVars
        /\ sender'.nibbles = 0
    BY DEF EndFrame, ReceiveCycle, Joint, Driven, Agreed, SenderOK
  <2>3. sender.nibbles \in Nat
    BY FramesAreBytes DEF EndFrame, Joint, Driven, Agreed, SenderOK, Sending
  <2>4. QED BY <2>1, <2>2, <2>3
<1>2. PICK meta :
        /\ rx_queue' = RQ!packet_queue_publish_write_slot(rx_queue, meta)
        /\ RQ!packet_queue_write_slot_available(rx_queue)
        /\ Lasts(meta) <= sender.nibbles + 1
  BY <1>1, PacketHasLasted DEF Joint
<1>3. /\ SlotInv /\ RQ!Ring(rx_queue) /\ Left \in Nat /\ ToAnswer \in Nat
      /\ Behind(rx_queue) \in Int
      /\ rx_queue'.drop_count = rx_queue.drop_count /\ Left' = Left
  BY <1>1, <1>2, WorkType, BehindType, RingSizes, RQ!PublishCounts
  DEF Joint, ParseInv, SlotInv, Left, handlerVars
<1>4. /\ Lasts(meta) \in Nat /\ Takes(meta) \in Nat
      /\ LongestBody - 1 + Takes(meta) <= Limit(meta)
  <2>1. Lasts(meta) \in Nat /\ Extra \in Nat
    BY RatesFit DEF Lasts
  <2>2. QED BY <2>1, BodySizes DEF Takes, Limit
<1>5. ToAnswer' + Behind(rx_queue') + 0 + 0 <= Limit(Waiting')
  <2>1. CASE rx_queue.valid[rx_queue.read_idx]
    <3>1. /\ Behind(rx_queue') = Behind(rx_queue) + Lasts(meta)
          /\ rx_queue'.meta[rx_queue'.read_idx] = rx_queue.meta[rx_queue.read_idx]
      BY <1>2, <1>3, <2>1, BehindGrows
    <3>2. ToAnswer' = ToAnswer /\ Waiting' = Waiting
      BY <1>1, <3>1, OthersLeaveWork
    <3>3. ToAnswer + Behind(rx_queue) + sender.nibbles + 1 <= Limit(Waiting)
      BY <1>1, <2>1 DEF KeepingUp
    <3>4. Limit(Waiting) \in Nat
      BY LimitType
    <3>5. ToAnswer + (Behind(rx_queue) + Lasts(meta)) + 0 + 0 <= Limit(Waiting)
      BY <1>1, <1>2, <1>3, <1>4, <3>3, <3>4
    <3>6. QED BY <3>1, <3>2, <3>5
  <2>2. CASE ~rx_queue.valid[rx_queue.read_idx]
    <3>1. Behind(rx_queue') = 0 /\ rx_queue'.meta[rx_queue'.read_idx] = meta
      BY <1>2, <1>3, <2>2, BehindNothing
    <3>2. protocol_state # "PROTO_PARSE_ARP" /\ protocol_state' = protocol_state
      BY <1>1, <1>3, <2>2
      DEF SlotInv, OwnsReadSlot, RQ!packet_queue_read_slot_valid, handlerVars
    <3>3. ToAnswer' = Left + Takes(meta) /\ Waiting' = meta
      BY <1>3, <3>1, <3>2 DEF ToAnswer, Waiting
    <3>4. Left <= LongestBody - 1
      BY DEF KeepingUp
    <3>5. Limit(meta) \in Nat
      BY LimitType
    <3>6. (Left + Takes(meta)) + 0 + 0 + 0 <= Limit(meta)
      BY <1>3, <1>4, <3>4, <3>5, BodySizes
    <3>7. QED BY <3>1, <3>3, <3>6
  <2>3. QED BY <2>1, <2>2
<1>6. QED BY <1>1, <1>3, <1>5 DEF KeepingUp

\* The handler's turn: one cycle more, and one cycle of the work done.
LEMMA HandleKeepsUp ==
  ASSUME KeepsUp, Joint, Joint', KeepingUp, HandleCycle
  PROVE  KeepingUp'
<1>1. /\ turn = "handle" /\ turn' = "transmit" /\ protocol_queue_step
      /\ UNCHANGED << rx_drop_current, sender >>
  BY DEF HandleCycle, receiveVars
<1>2. Sending' = Sending
  BY <1>1 DEF Sending
<1>3. RQ!Ring(rx_queue) /\ ParseInv
  BY DEF Joint, ParseInv, SlotInv
<1>4. rx_queue'.drop_count = rx_queue.drop_count
  <2>1. \/ rx_queue' = rx_queue
        \/ /\ RQ!packet_queue_read_slot_valid(rx_queue)
           /\ rx_queue' = RQ!packet_queue_consume_read_slot(rx_queue)
    BY <1>1, <1>3
    DEF protocol_queue_step, Preparing, DropWaiting, BeginParse, SendGratuitousArp, SendBeacon,
        NothingToDo, ParseArpByte, FinishArp, PacketWaiting, ParseInv, SlotInv, OwnsReadSlot
  <2>2. QED BY <1>3, <2>1, RingSizes, RQ!ConsumeCounts
<1>5. sender.nibbles \in Nat /\ sender'.nibbles = sender.nibbles
  BY <1>1, FramesAreBytes DEF KeepingUp, Joint, Driven, Agreed, SenderOK, Sending
<1>6. rx_queue.valid[rx_queue.read_idx] =>
        ToAnswer + Behind(rx_queue) + sender.nibbles <= Limit(Waiting)
  <2>1. rx_queue.valid[rx_queue.read_idx] =>
          ToAnswer + Behind(rx_queue) + sender.nibbles + 0 <= Limit(Waiting)
    BY <1>1 DEF KeepingUp
  <2>2. ToAnswer \in Nat /\ Behind(rx_queue) \in Int
    BY <1>3, WorkType, BehindType
  <2>3. QED BY <1>5, <2>1, <2>2
<1>7. /\ Left' <= LongestBody - 1
      /\ rx_queue.valid[rx_queue.read_idx] /\ rx_queue'.valid[rx_queue'.read_idx] =>
           ToAnswer' + Behind(rx_queue') + sender.nibbles + 1 <= Limit(Waiting')
      /\ ~rx_queue.valid[rx_queue.read_idx] => rx_queue' = rx_queue
  BY <1>1, <1>3, <1>5, <1>6, HandlerWorks DEF KeepingUp
<1>8. QED BY <1>1, <1>2, <1>4, <1>5, <1>7 DEF KeepingUp

\* The transmit step, and no step at all.
LEMMA OthersKeepUp ==
  ASSUME KeepingUp, TransmitCycle \/ UNCHANGED vars
  PROVE  KeepingUp'
<1>1. /\ UNCHANGED << rx_queue, rx_drop_current, sender, handlerVars >>
      /\ turn' = turn \/ (turn = "transmit" /\ turn' = "receive")
  BY DEF TransmitCycle, vars, protoVars, handlerVars, receiveVars
<1>2. /\ Left' = Left /\ ToAnswer' = ToAnswer /\ Waiting' = Waiting
      /\ Behind(rx_queue') = Behind(rx_queue) /\ Sending' = Sending
  BY <1>1, OthersLeaveWork DEF Sending
<1>3. QED BY <1>1, <1>2 DEF KeepingUp

\* At first there is nothing to do.
LEMMA KeepingUpAtFirst ==
  ASSUME EndpointInit
  PROVE  KeepingUp
<1>1. /\ turn = "receive" /\ sender.nibbles = 0 /\ ~rx_drop_current
      /\ rx_queue = Rx!RQ!EmptyQueue(Rx!ZeroMeta, Rx!ZeroPayload)
      /\ ~prepare.active
  BY DEF EndpointInit, Rx!Init, Init
<1>2. rx_queue.drop_count = 0 /\ ~rx_queue.valid[rx_queue.read_idx]
  BY <1>1, RingSizes DEF Rx!RQ!EmptyQueue, Rx!RQ!Slot
<1>3. Left = 0
  BY <1>1 DEF Left
<1>4. QED BY <1>1, <1>2, <1>3, BodySizes DEF KeepingUp

\* The handler keeps up in every call.
LEMMA KeepingUpNext ==
  ASSUME KeepsUp, Joint, Joint', Phy!ReadsTheWire, KeepingUp, [Call]_vars
  PROVE  KeepingUp'
  BY BeginKeepsUp, SendKeepsUp, EndKeepsUp, IdleKeepsUp, HandleKeepsUp, OthersKeepUp
  DEF Call

\* If the RX ring holds what arrives while the longest frame is prepared and a
\* request is parsed and answered, counted in the shortest frames of the
\* station, then no frame ever finds the RX ring full: at any line rate, in any
\* phase of the timers, and however long the TX ring stays full, since a reply
\* that finds no room takes no time (ethernet_rx_queue.h:39-44,
\* ethernet_protocol_handler.h:80-111, 239-252).
THEOREM ReceiverKeepsUp == KeepsUp => (EndpointSafety => []ReceiverNotOverrun)
<1> SUFFICES ASSUME KeepsUp PROVE EndpointSafety => []ReceiverNotOverrun
  OBVIOUS
<1>1. EndpointInit => KeepingUp
  BY KeepingUpAtFirst
<1>2. Joint /\ Joint' /\ Phy!ReadsTheWire /\ KeepingUp /\ [Call]_vars => KeepingUp'
  BY KeepingUpNext
<1>3. KeepingUp => ReceiverNotOverrun
  BY DEF KeepingUp, ReceiverNotOverrun
<1>4. EndpointSafety => []Phy!ReadsTheWire
  BY DrivenHolds, Sizes, FramesOK, Phy!ReadsTheWireHolds, PTL
<1>5. QED BY <1>1, <1>2, <1>3, <1>4, JointHolds, PTL DEF EndpointSafety
=============================================================================
