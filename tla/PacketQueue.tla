---------------------------- MODULE PacketQueue ----------------------------
(***************************************************************************)
(* The slot ring of ethernet_packet_queue.h: the operations of             *)
(* PacketSlotQueue as functions of a queue record, without state of their  *)
(* own.  The RX ring and the TX ring are two instances that differ in      *)
(* Slots.  A slot holds the bytes of one packet, its metadata and a valid  *)
(* flag; the flag, and nothing else, tells the producer from the consumer. *)
(***************************************************************************)
EXTENDS Integers, Sequences, TLAPS

CONSTANTS
  Slots,        \* number of slots, 1 << IndexBits in the code
  CounterMod    \* drop_count is an ap_uint<32>: 2^32 in the code

ASSUME SlotsAssumption == Slots \in Nat \ {0}
ASSUME CounterModAssumption == CounterMod \in Nat \ {0}

Slot == 0 .. Slots - 1

\* Increment of an ap_uint<IndexBits> index, which wraps at Slots.
NextSlot(i) == IF i = Slots - 1 THEN 0 ELSE i + 1

\* Increment of a 32-bit counter.
Bump(n) == (n + 1) % CounterMod

\* The type of a queue whose slots hold Bytes under metadata of Metas.
QueueType(Metas, Bytes) ==
  [meta : [Slot -> Metas], valid : [Slot -> BOOLEAN], bytes : [Slot -> Bytes],
   read_idx : Slot, write_idx : Slot, drop_count : Nat]

\* A static PacketSlotQueue is zero-initialised.
EmptyQueue(meta, bytes) ==
  [meta |-> [s \in Slot |-> meta], valid |-> [s \in Slot |-> FALSE],
   bytes |-> [s \in Slot |-> bytes],
   read_idx |-> 0, write_idx |-> 0, drop_count |-> 0]

packet_queue_write_slot_available(q) == ~q.valid[q.write_idx]

packet_queue_read_slot_valid(q) == q.valid[q.read_idx]

packet_queue_drop_write(q) == [q EXCEPT !.drop_count = Bump(@)]

packet_queue_publish_write_slot(q, meta) ==
  IF q.valid[q.write_idx]
    THEN packet_queue_drop_write(q)
    ELSE [q EXCEPT !.meta[q.write_idx] = meta,
                   !.valid[q.write_idx] = TRUE,
                   !.write_idx = NextSlot(@)]

\* Seeded fault: the flag stays up.
packet_queue_consume_read_slot_Keeps(q) == [q EXCEPT !.read_idx = NextSlot(@)]

packet_queue_consume_read_slot(q) ==
  [q EXCEPT !.valid[q.read_idx] = FALSE, !.read_idx = NextSlot(@)]

\* A store through the pointer queue.bytes[slot] that callers take.
StoreByte(q, slot, i, byte) == [q EXCEPT !.bytes[slot][i] = byte]

----------------------------------------------------------------------------
(* What the flags and the two indices mean together. *)

\* Walking from read_idx, slot s comes before write_idx.
Between(r, w, s) == IF r < w THEN r <= s /\ s < w ELSE r <= s \/ s < w

\* The valid slots are exactly those from read_idx up to write_idx; when the
\* indices meet, the ring is either empty or full.
Shape(valid, r, w) ==
  IF r = w THEN \A s \in Slot : valid[s] <=> valid[r]
           ELSE \A s \in Slot : valid[s] <=> Between(r, w, s)

RingShape(q) == Shape(q.valid, q.read_idx, q.write_idx)

\* The number of published packets.
Depth(q) ==
  IF q.read_idx < q.write_idx THEN q.write_idx - q.read_idx
  ELSE IF q.read_idx > q.write_idx THEN Slots + q.write_idx - q.read_idx
  ELSE IF q.valid[q.read_idx] THEN Slots ELSE 0

\* The slot n places from the first one, counted around the ring.
WrapSlot(n) == IF n < Slots THEN n ELSE n - Slots

\* The slots of the published packets, oldest first.
PublishedSlots(q) == [k \in 1 .. Depth(q) |-> WrapSlot(q.read_idx + k - 1)]

----------------------------------------------------------------------------
(* What the operations preserve. *)

\* A bumped counter is a natural number.
LEMMA BumpType == \A n \in Nat : Bump(n) \in Nat
  BY CounterModAssumption DEF Bump

\* Filling the free slot at the write index keeps the ring's shape.
LEMMA FillKeepsShape ==
  ASSUME NEW valid \in [Slot -> BOOLEAN], NEW r \in Slot, NEW w \in Slot,
         Shape(valid, r, w), ~valid[w]
  PROVE  Shape([valid EXCEPT ![w] = TRUE], r, NextSlot(w))
  BY SlotsAssumption DEF Shape, Between, NextSlot, Slot

\* Freeing the valid slot at the read index keeps the ring's shape.
LEMMA FreeKeepsShape ==
  ASSUME NEW valid \in [Slot -> BOOLEAN], NEW r \in Slot, NEW w \in Slot,
         Shape(valid, r, w), valid[r]
  PROVE  Shape([valid EXCEPT ![r] = FALSE], NextSlot(r), w)
  BY SlotsAssumption DEF Shape, Between, NextSlot, Slot

\* No operation leaves the type of a queue.
LEMMA OperationTypes ==
  ASSUME NEW Metas, NEW Bytes, NEW q \in QueueType(Metas, Bytes), NEW meta \in Metas
  PROVE  /\ packet_queue_drop_write(q) \in QueueType(Metas, Bytes)
         /\ packet_queue_publish_write_slot(q, meta) \in QueueType(Metas, Bytes)
         /\ packet_queue_consume_read_slot(q) \in QueueType(Metas, Bytes)
<1>1. packet_queue_drop_write(q) \in QueueType(Metas, Bytes)
  BY BumpType DEF packet_queue_drop_write, QueueType
<1>2. NextSlot(q.write_idx) \in Slot /\ NextSlot(q.read_idx) \in Slot
  BY SlotsAssumption DEF NextSlot, Slot, QueueType
<1>3. packet_queue_publish_write_slot(q, meta) \in QueueType(Metas, Bytes)
  BY <1>1, <1>2 DEF packet_queue_publish_write_slot, QueueType
<1>4. packet_queue_consume_read_slot(q) \in QueueType(Metas, Bytes)
  BY <1>2 DEF packet_queue_consume_read_slot, QueueType
<1>5. QED BY <1>1, <1>3, <1>4

\* Publishing into a free write slot and consuming a valid read slot keep the
\* ring's shape; so does counting a drop.
LEMMA OperationsKeepShape ==
  ASSUME NEW Metas, NEW Bytes, NEW q \in QueueType(Metas, Bytes), NEW meta \in Metas,
         RingShape(q)
  PROVE  /\ RingShape(packet_queue_drop_write(q))
         /\ packet_queue_write_slot_available(q)
              => RingShape(packet_queue_publish_write_slot(q, meta))
         /\ packet_queue_read_slot_valid(q)
              => RingShape(packet_queue_consume_read_slot(q))
<1> DEFINE v == q.valid
           r == q.read_idx
           w == q.write_idx
<1>1. v \in [Slot -> BOOLEAN] /\ r \in Slot /\ w \in Slot /\ Shape(v, r, w)
  BY DEF QueueType, RingShape
<1>2. RingShape(packet_queue_drop_write(q))
  BY DEF packet_queue_drop_write, RingShape, QueueType
<1>3. ASSUME packet_queue_write_slot_available(q)
      PROVE  RingShape(packet_queue_publish_write_slot(q, meta))
  <2>1. Shape([v EXCEPT ![w] = TRUE], r, NextSlot(w))
    BY <1>1, <1>3, FillKeepsShape DEF packet_queue_write_slot_available
  <2>2. QED
    BY <2>1, <1>3 DEF packet_queue_write_slot_available,
                      packet_queue_publish_write_slot, RingShape, QueueType
<1>4. ASSUME packet_queue_read_slot_valid(q)
      PROVE  RingShape(packet_queue_consume_read_slot(q))
  <2>1. Shape([v EXCEPT ![r] = FALSE], NextSlot(r), w)
    BY <1>1, <1>4, FreeKeepsShape DEF packet_queue_read_slot_valid
  <2>2. QED
    BY <2>1 DEF packet_queue_consume_read_slot, RingShape, QueueType
<1>5. QED BY <1>2, <1>3, <1>4

----------------------------------------------------------------------------
(* The same for users who say nothing of what the slots hold.              *)

\* The record of a ring whose flags and indices agree.
Ring(q) ==
  /\ DOMAIN q = {"meta", "valid", "bytes", "read_idx", "write_idx", "drop_count"}
  /\ q.valid \in [Slot -> BOOLEAN]
  /\ q.read_idx \in Slot /\ q.write_idx \in Slot
  /\ DOMAIN q.meta = Slot /\ DOMAIN q.bytes = Slot
  /\ RingShape(q)

\* Index arithmetic stays within the ring, and moves on if there is anywhere
\* to move to.
LEMMA NextSlotType ==
  \A i \in Slot : NextSlot(i) \in Slot /\ (Slots > 1 => NextSlot(i) # i)
  BY SlotsAssumption DEF NextSlot, Slot

\* Counting a drop leaves everything but the count alone.
LEMMA DropKeepsRing ==
  ASSUME NEW q, Ring(q)
  PROVE  LET d == packet_queue_drop_write(q)
         IN  /\ Ring(d)
             /\ d.valid = q.valid /\ d.read_idx = q.read_idx /\ d.write_idx = q.write_idx
             /\ d.meta = q.meta /\ d.bytes = q.bytes
  BY DEF packet_queue_drop_write, Ring, RingShape

\* A stored byte leaves everything but the bytes of its slot alone.
LEMMA StoreKeepsRing ==
  ASSUME NEW q, NEW slot \in Slot, NEW i, NEW byte, Ring(q)
  PROVE  LET d == StoreByte(q, slot, i, byte)
         IN  /\ Ring(d)
             /\ d.valid = q.valid /\ d.read_idx = q.read_idx /\ d.write_idx = q.write_idx
             /\ d.meta = q.meta
             /\ d.bytes = [q.bytes EXCEPT ![slot] = [@ EXCEPT ![i] = byte]]
  BY DEF StoreByte, Ring, RingShape

\* Publishing into a free write slot raises its flag and moves on; the other
\* slots stay as they are.
LEMMA PublishKeepsRing ==
  ASSUME NEW q, NEW meta, Ring(q), packet_queue_write_slot_available(q)
  PROVE  LET d == packet_queue_publish_write_slot(q, meta)
         IN  /\ Ring(d)
             /\ d.valid = [q.valid EXCEPT ![q.write_idx] = TRUE]
             /\ d.meta = [q.meta EXCEPT ![q.write_idx] = meta]
             /\ d.bytes = q.bytes
             /\ d.read_idx = q.read_idx /\ d.write_idx = NextSlot(q.write_idx)
<1> DEFINE d == packet_queue_publish_write_slot(q, meta)
<1>1. d = [q EXCEPT !.meta[q.write_idx] = meta, !.valid[q.write_idx] = TRUE,
                    !.write_idx = NextSlot(@)]
  BY DEF packet_queue_publish_write_slot, packet_queue_write_slot_available
<1>2. /\ DOMAIN d = DOMAIN q
      /\ d.valid = [q.valid EXCEPT ![q.write_idx] = TRUE]
      /\ d.meta = [q.meta EXCEPT ![q.write_idx] = meta]
      /\ d.bytes = q.bytes
      /\ d.read_idx = q.read_idx /\ d.write_idx = NextSlot(q.write_idx)
  BY <1>1 DEF Ring
<1>3. Shape(d.valid, d.read_idx, d.write_idx)
  BY <1>2, FillKeepsShape DEF Ring, RingShape, packet_queue_write_slot_available
<1>4. d.write_idx \in Slot
  BY <1>2, NextSlotType DEF Ring
<1> HIDE DEF d
<1>5. Ring(d)
  BY <1>2, <1>3, <1>4 DEF Ring, RingShape
<1>6. QED BY <1>2, <1>5 DEF d

\* Consuming a valid read slot lowers its flag and moves on; nothing is
\* erased.
LEMMA ConsumeKeepsRing ==
  ASSUME NEW q, Ring(q), packet_queue_read_slot_valid(q)
  PROVE  LET d == packet_queue_consume_read_slot(q)
         IN  /\ Ring(d)
             /\ d.valid = [q.valid EXCEPT ![q.read_idx] = FALSE]
             /\ d.meta = q.meta /\ d.bytes = q.bytes
             /\ d.read_idx = NextSlot(q.read_idx) /\ d.write_idx = q.write_idx
<1> DEFINE d == packet_queue_consume_read_slot(q)
<1>1. /\ DOMAIN d = DOMAIN q
      /\ d.valid = [q.valid EXCEPT ![q.read_idx] = FALSE]
      /\ d.meta = q.meta /\ d.bytes = q.bytes
      /\ d.read_idx = NextSlot(q.read_idx) /\ d.write_idx = q.write_idx
  BY DEF packet_queue_consume_read_slot, Ring
<1>2. Shape(d.valid, d.read_idx, d.write_idx)
  BY <1>1, FreeKeepsShape DEF Ring, RingShape, packet_queue_read_slot_valid
<1>3. d.read_idx \in Slot
  BY <1>1, NextSlotType DEF Ring
<1> HIDE DEF d
<1>4. Ring(d)
  BY <1>1, <1>2, <1>3 DEF Ring, RingShape
<1>5. QED BY <1>1, <1>4 DEF d

----------------------------------------------------------------------------
(* What the user of one end of the ring may rely on whatever the user of   *)
(* the other end does.                                                     *)

\* A producer leaves the published packets and the read index alone.
ByProducer(q, d) ==
  /\ Ring(d)
  /\ d.read_idx = q.read_idx
  /\ \A s \in Slot : q.valid[s] =>
       d.valid[s] /\ d.meta[s] = q.meta[s] /\ d.bytes[s] = q.bytes[s]

\* A consumer publishes nothing and leaves the write index, the contents of
\* the slots and the count of drops alone.
ByConsumer(q, d) ==
  /\ Ring(d)
  /\ d.write_idx = q.write_idx /\ d.drop_count = q.drop_count
  /\ d.meta = q.meta /\ d.bytes = q.bytes
  /\ \A s \in Slot : d.valid[s] => q.valid[s]

\* Every operation of a producer is one of these.
LEMMA ProducerSteps ==
  ASSUME NEW q, Ring(q)
  PROVE  /\ ByProducer(q, q)
         /\ ByProducer(q, packet_queue_drop_write(q))
         /\ \A slot \in Slot : \A i, byte :
              ~q.valid[slot] => ByProducer(q, StoreByte(q, slot, i, byte))
         /\ \A meta : packet_queue_write_slot_available(q)
                        => ByProducer(q, packet_queue_publish_write_slot(q, meta))
<1>1. ByProducer(q, q)
  BY DEF ByProducer
<1>2. ByProducer(q, packet_queue_drop_write(q))
  <2> DEFINE d == packet_queue_drop_write(q)
  <2>1. /\ Ring(d) /\ d.valid = q.valid /\ d.read_idx = q.read_idx
        /\ d.meta = q.meta /\ d.bytes = q.bytes
    BY DropKeepsRing
  <2> HIDE DEF d
  <2>2. QED BY <2>1 DEF ByProducer, d
<1>3. ASSUME NEW slot \in Slot, NEW i, NEW byte, ~q.valid[slot]
      PROVE  ByProducer(q, StoreByte(q, slot, i, byte))
  <2> DEFINE d == StoreByte(q, slot, i, byte)
  <2>1. /\ Ring(d) /\ d.valid = q.valid /\ d.read_idx = q.read_idx /\ d.meta = q.meta
        /\ d.bytes = [q.bytes EXCEPT ![slot] = [q.bytes[slot] EXCEPT ![i] = byte]]
    <3>1. Ring(d)
      BY StoreKeepsRing, Zenon
    <3>2. QED BY <3>1 DEF StoreByte, Ring
  <2>2. \A s \in Slot : s # slot => d.bytes[s] = q.bytes[s]
    BY <2>1 DEF Ring
  <2> HIDE DEF d
  <2>3. ByProducer(q, d)
    BY <1>3, <2>1, <2>2 DEF ByProducer
  <2>4. QED BY <2>3 DEF d
<1>4. ASSUME NEW meta, packet_queue_write_slot_available(q)
      PROVE  ByProducer(q, packet_queue_publish_write_slot(q, meta))
  <2> DEFINE d == packet_queue_publish_write_slot(q, meta)
  <2>1. /\ Ring(d) /\ d.valid = [q.valid EXCEPT ![q.write_idx] = TRUE]
        /\ d.meta = [q.meta EXCEPT ![q.write_idx] = meta]
        /\ d.bytes = q.bytes /\ d.read_idx = q.read_idx
    BY <1>4, PublishKeepsRing
  <2> HIDE DEF d
  <2>2. ByProducer(q, d)
    BY <1>4, <2>1 DEF ByProducer, Ring, packet_queue_write_slot_available
  <2>3. QED BY <2>2 DEF d
<1>5. QED BY <1>1, <1>2, <1>3, <1>4

\* Two of them in one cycle are one more.
LEMMA ProducerStepsCompose ==
  ASSUME NEW q, NEW d, NEW e, ByProducer(q, d), ByProducer(d, e)
  PROVE  ByProducer(q, e)
  BY DEF ByProducer

\* The operation of a consumer is one of these.
LEMMA ConsumerSteps ==
  ASSUME NEW q, Ring(q)
  PROVE  /\ ByConsumer(q, q)
         /\ packet_queue_read_slot_valid(q)
              => ByConsumer(q, packet_queue_consume_read_slot(q))
<1>1. ByConsumer(q, q)
  BY DEF ByConsumer
<1>2. ASSUME packet_queue_read_slot_valid(q)
      PROVE  ByConsumer(q, packet_queue_consume_read_slot(q))
  <2> DEFINE d == packet_queue_consume_read_slot(q)
  <2>1. /\ Ring(d) /\ d.valid = [q.valid EXCEPT ![q.read_idx] = FALSE]
        /\ d.meta = q.meta /\ d.bytes = q.bytes /\ d.write_idx = q.write_idx
    BY <1>2, ConsumeKeepsRing
  <2>2. d.drop_count = q.drop_count
    BY DEF packet_queue_consume_read_slot, Ring
  <2> HIDE DEF d
  <2>3. ByConsumer(q, d)
    BY <2>1, <2>2 DEF ByConsumer, Ring
  <2>4. QED BY <2>3 DEF d
<1>3. QED BY <1>1, <1>2

----------------------------------------------------------------------------
(* The published packets as a queue.  A view says of every slot what its   *)
(* packet is taken for.                                                    *)

Contents(q, view) ==
  [k \in 1 .. Depth(q) |-> view[WrapSlot(q.read_idx + k - 1)]]

\* One packet more, behind the others; the first packet less.
Enqueued(a, b) ==
  Len(a) < Slots /\ Len(b) = Len(a) + 1 /\ SubSeq(b, 1, Len(a)) = a

Dequeued(a, b) == a # << >> /\ b = Tail(a)

\* Every published slot is valid, and no other slot is.
LEMMA PublishedAreValid ==
  ASSUME NEW q, Ring(q)
  PROVE  /\ Depth(q) \in 0 .. Slots
         /\ \A k \in 1 .. Depth(q) :
              /\ WrapSlot(q.read_idx + k - 1) \in Slot
              /\ q.valid[WrapSlot(q.read_idx + k - 1)]
<1> DEFINE r == q.read_idx
           w == q.write_idx
           v == q.valid
           n == Depth(q)
<1>1. /\ r \in Slot /\ w \in Slot /\ v \in [Slot -> BOOLEAN] /\ Shape(v, r, w)
      /\ Slots \in Nat \ {0}
  BY SlotsAssumption DEF Ring, RingShape
<1>2. n = IF r < w THEN w - r ELSE IF r > w THEN Slots + w - r
          ELSE IF v[r] THEN Slots ELSE 0
  BY DEF Depth
<1> HIDE DEF r, w, v, n
<1>3. n \in 0 .. Slots
  BY <1>1, <1>2 DEF Slot
<1>4. ASSUME NEW k \in 1 .. n
      PROVE  WrapSlot(r + k - 1) \in Slot /\ v[WrapSlot(r + k - 1)]
  <2>1. WrapSlot(r + k - 1) \in Slot
    BY <1>1, <1>3 DEF Slot, WrapSlot
  <2>2. CASE r = w
    <3>1. v[r]
      <4>1. SUFFICES ASSUME ~v[r] PROVE FALSE
        OBVIOUS
      <4>2. n = 0
        BY <1>1, <1>2, <2>2, <4>1 DEF Slot
      <4>3. QED BY <4>2
    <3>2. QED BY <1>1, <2>1, <2>2, <3>1 DEF Shape
  <2>3. CASE r # w
    <3>1. Between(r, w, WrapSlot(r + k - 1))
      BY <1>1, <1>2, <2>3 DEF Slot, WrapSlot, Between
    <3>2. QED BY <1>1, <2>1, <2>3, <3>1 DEF Shape
  <2>4. QED BY <2>2, <2>3
<1>5. QED BY <1>3, <1>4 DEF n, r, v

\* Rings that agree on flags and indices have the same depth.
LEMMA SameDepth ==
  ASSUME NEW q, NEW d, d.valid = q.valid, d.read_idx = q.read_idx,
         d.write_idx = q.write_idx
  PROVE  Depth(d) = Depth(q)
  BY DEF Depth

\* What is not in a published slot may change.
LEMMA OthersMayChange ==
  ASSUME NEW q, Ring(q), NEW d, d.valid = q.valid, d.read_idx = q.read_idx,
         d.write_idx = q.write_idx,
         NEW old, NEW new, \A s \in Slot : q.valid[s] => new[s] = old[s]
  PROVE  Contents(d, new) = Contents(q, old)
<1>1. Depth(d) = Depth(q)
  BY SameDepth
<1>2. \A k \in 1 .. Depth(q) :
        new[WrapSlot(q.read_idx + k - 1)] = old[WrapSlot(q.read_idx + k - 1)]
  BY PublishedAreValid
<1>3. QED BY <1>1, <1>2 DEF Contents

\* The contents are a sequence as long as the ring is deep.
LEMMA ContentsLength ==
  ASSUME NEW q, Ring(q), NEW view
  PROVE  /\ Contents(q, view) \in Seq({ view[s] : s \in Slot })
         /\ Len(Contents(q, view)) = Depth(q)
         /\ DOMAIN Contents(q, view) = 1 .. Depth(q)
<1> DEFINE n == Depth(q)
           c == Contents(q, view)
           V == { view[s] : s \in Slot }
<1>1. n \in Nat
  BY PublishedAreValid, SlotsAssumption
<1>2. c \in [1 .. n -> V]
  BY PublishedAreValid DEF Contents
<1> HIDE DEF n, c, V
<1>3. c \in Seq(V) /\ Len(c) = n /\ DOMAIN c = 1 .. n
  BY <1>1, <1>2
<1>4. QED BY <1>3 DEF n, c, V

\* A queue that keeps what it had and gets one packet more.
LEMMA EnqueueForm ==
  ASSUME NEW S, NEW T, NEW a \in Seq(S), NEW b \in Seq(T), Len(b) = Len(a) + 1,
         \A k \in 1 .. Len(a) : b[k] = a[k]
  PROVE  SubSeq(b, 1, Len(a)) = a
  OBVIOUS

\* A queue that loses its first packet.
LEMMA DequeueForm ==
  ASSUME NEW S, NEW T, NEW a \in Seq(S), NEW b \in Seq(T), Len(a) > 0,
         Len(b) = Len(a) - 1, \A k \in 1 .. Len(b) : b[k] = a[k + 1]
  PROVE  a # << >> /\ b = Tail(a)
  OBVIOUS

\* Publishing appends the packet, and only if there is room.
LEMMA PublishAppends ==
  ASSUME NEW q, Ring(q), packet_queue_write_slot_available(q),
         NEW d, Ring(d), d.valid = [q.valid EXCEPT ![q.write_idx] = TRUE],
         d.read_idx = q.read_idx, d.write_idx = NextSlot(q.write_idx),
         NEW old, NEW new, \A s \in Slot : q.valid[s] => new[s] = old[s]
  PROVE  Enqueued(Contents(q, old), Contents(d, new))
<1> DEFINE r == q.read_idx
           w == q.write_idx
           v == q.valid
           n == Depth(q)
<1>1. /\ r \in Slot /\ w \in Slot /\ v \in [Slot -> BOOLEAN] /\ Shape(v, r, w)
      /\ ~v[w] /\ Slots \in Nat \ {0}
  BY SlotsAssumption DEF Ring, RingShape, packet_queue_write_slot_available
<1>2. n = IF r < w THEN w - r ELSE IF r > w THEN Slots + w - r ELSE 0
  <2>1. CASE r = w
    BY <1>1, <2>1 DEF Depth, Slot
  <2>2. CASE r # w
    BY <1>1, <2>2 DEF Depth, Slot
  <2>3. QED BY <2>1, <2>2
<1>3. Depth(d) = n + 1
  <2>1. Depth(d) = IF r < NextSlot(w) THEN NextSlot(w) - r
                   ELSE IF r > NextSlot(w) THEN Slots + NextSlot(w) - r
                   ELSE IF [v EXCEPT ![w] = TRUE][r] THEN Slots ELSE 0
    BY DEF Depth
  <2>2. CASE r = NextSlot(w)
    <3>1. [v EXCEPT ![w] = TRUE][r]
      <4>1. r = w \/ (r # w /\ Between(r, w, r))
        BY <1>1, <2>2 DEF Slot, NextSlot, Between
      <4>2. CASE r = w
        BY <1>1, <4>2
      <4>3. CASE r # w /\ Between(r, w, r)
        BY <1>1, <4>3 DEF Shape
      <4>4. QED BY <4>1, <4>2, <4>3
    <3>2. Depth(d) = Slots
      BY <1>1, <2>1, <2>2, <3>1 DEF Slot
    <3>3. n = Slots - 1
      BY <1>1, <1>2, <2>2 DEF NextSlot, Slot
    <3>4. QED BY <1>1, <3>2, <3>3
  <2>3. CASE r # NextSlot(w) /\ w = Slots - 1
    <3>1. NextSlot(w) = 0 /\ r > 0
      BY <1>1, <2>3 DEF NextSlot, Slot
    <3>2. Depth(d) = Slots - r
      BY <1>1, <2>1, <3>1 DEF Slot
    <3>3. n = Slots - 1 - r
      BY <1>1, <1>2, <2>3 DEF Slot
    <3>4. QED BY <1>1, <3>2, <3>3 DEF Slot
  <2>4. CASE r # NextSlot(w) /\ w # Slots - 1
    <3>1. NextSlot(w) = w + 1 /\ r # w + 1
      BY <2>4 DEF NextSlot
    <3>2. Depth(d) = IF r < w + 1 THEN w + 1 - r ELSE Slots + (w + 1) - r
      BY <1>1, <2>1, <3>1 DEF Slot
    <3>3. r \in Int /\ w \in Int /\ Slots \in Int
      BY <1>1 DEF Slot
    <3> HIDE DEF r, w, v, n
    <3>4. QED BY <1>2, <3>1, <3>2, <3>3
  <2>5. QED BY <2>2, <2>3, <2>4
<1>4. n < Slots /\ n \in Nat
  BY <1>1, <1>2 DEF Slot
<1>5. /\ Contents(d, new) = [k \in 1 .. n + 1 |-> new[WrapSlot(r + k - 1)]]
      /\ Contents(q, old) = [k \in 1 .. n |-> old[WrapSlot(r + k - 1)]]
  BY <1>3 DEF Contents
<1>6. \A k \in 1 .. n : new[WrapSlot(r + k - 1)] = old[WrapSlot(r + k - 1)]
  BY PublishedAreValid
<1>7. /\ Contents(q, old) \in Seq({ old[s] : s \in Slot }) /\ Len(Contents(q, old)) = n
      /\ Contents(d, new) \in Seq({ new[s] : s \in Slot })
      /\ Len(Contents(d, new)) = n + 1
  <2>1. /\ Contents(q, old) \in Seq({ old[s] : s \in Slot })
        /\ Contents(d, new) \in Seq({ new[s] : s \in Slot })
        /\ Len(Contents(q, old)) = Depth(q) /\ Len(Contents(d, new)) = Depth(d)
    BY ONLY Ring(q), Ring(d), ContentsLength
  <2>2. QED BY <1>3, <2>1
<1> DEFINE a == Contents(q, old)
           b == Contents(d, new)
<1> HIDE DEF r, w, v, n
<1>8. \A k \in 1 .. n : b[k] = a[k]
  BY <1>4, <1>5, <1>6
<1>9. /\ a \in Seq({ old[s] : s \in Slot }) /\ Len(a) = n
      /\ b \in Seq({ new[s] : s \in Slot }) /\ Len(b) = n + 1
  BY <1>7
<1> HIDE DEF a, b
<1>10. SubSeq(b, 1, Len(a)) = a
  BY <1>8, <1>9, EnqueueForm
<1>11. QED BY <1>4, <1>9, <1>10 DEF a, b, Enqueued

\* Consuming takes the first packet.
LEMMA ConsumeTakesFirst ==
  ASSUME NEW q, Ring(q), packet_queue_read_slot_valid(q),
         NEW d, Ring(d), d.valid = [q.valid EXCEPT ![q.read_idx] = FALSE],
         d.read_idx = NextSlot(q.read_idx), d.write_idx = q.write_idx,
         NEW old, NEW new, \A s \in Slot : d.valid[s] => new[s] = old[s]
  PROVE  Dequeued(Contents(q, old), Contents(d, new))
<1> DEFINE r == q.read_idx
           w == q.write_idx
           v == q.valid
           n == Depth(q)
<1>1. /\ r \in Slot /\ w \in Slot /\ v \in [Slot -> BOOLEAN] /\ Shape(v, r, w)
      /\ v[r] /\ Slots \in Nat \ {0}
  BY SlotsAssumption DEF Ring, RingShape, packet_queue_read_slot_valid
<1>2. n = IF r < w THEN w - r ELSE IF r > w THEN Slots + w - r ELSE Slots
  BY <1>1 DEF Depth
<1>3. Depth(d) = n - 1
  <2>1. Depth(d) = IF NextSlot(r) < w THEN w - NextSlot(r)
                   ELSE IF NextSlot(r) > w THEN Slots + w - NextSlot(r)
                   ELSE IF [v EXCEPT ![r] = FALSE][NextSlot(r)] THEN Slots ELSE 0
    BY DEF Depth
  <2>2. CASE NextSlot(r) = w
    <3>1. ~[v EXCEPT ![r] = FALSE][NextSlot(r)]
      <4>1. r = w \/ (r # w /\ w \in Slot /\ ~Between(r, w, w))
        BY <1>1, <2>2 DEF Slot, NextSlot, Between
      <4>2. CASE r = w
        BY <1>1, <2>2, <4>2
      <4>3. CASE r # w /\ w \in Slot /\ ~Between(r, w, w)
        BY <1>1, <2>2, <4>3 DEF Shape
      <4>4. QED BY <4>1, <4>2, <4>3
    <3>2. Depth(d) = 0
      BY <1>1, <2>1, <2>2, <3>1 DEF Slot
    <3>3. n = 1
      BY <1>1, <1>2, <2>2 DEF NextSlot, Slot
    <3>4. QED BY <1>1, <3>2, <3>3
  <2>3. CASE NextSlot(r) # w
    <3>1. Depth(d) = IF NextSlot(r) < w THEN w - NextSlot(r)
                                        ELSE Slots + w - NextSlot(r)
      BY <1>1, <2>1, <2>3, NextSlotType DEF Slot
    <3>2. CASE r = Slots - 1
      BY <1>1, <1>2, <2>3, <3>1, <3>2 DEF NextSlot, Slot
    <3>3. CASE r # Slots - 1
      <4>1. NextSlot(r) = r + 1 /\ r + 1 # w
        BY <2>3, <3>3 DEF NextSlot
      <4>2. Depth(d) = IF r + 1 < w THEN w - (r + 1) ELSE Slots + w - (r + 1)
        BY <3>1, <4>1
      <4>3. r \in Int /\ w \in Int /\ Slots \in Int
        BY <1>1 DEF Slot
      <4> HIDE DEF r, w, v, n
      <4>4. QED BY <1>2, <4>1, <4>2, <4>3
    <3>4. QED BY <3>2, <3>3
  <2>4. QED BY <2>2, <2>3
<1>4. n > 0 /\ n \in Nat /\ n <= Slots
  BY <1>1, <1>2 DEF Slot
<1>5. ASSUME NEW k \in 1 .. n - 1
      PROVE  /\ WrapSlot(NextSlot(r) + k - 1) = WrapSlot(r + (k + 1) - 1)
             /\ WrapSlot(r + (k + 1) - 1) # r
  <2>1. r \in 0 .. Slots - 1 /\ k \in 1 .. Slots - 1 /\ r + (k + 1) - 1 = r + k
    BY <1>1, <1>4 DEF Slot
  <2>2. WrapSlot(r + k) # r
    BY <1>1, <2>1 DEF WrapSlot
  <2>3. CASE r = Slots - 1
    BY <1>1, <2>1, <2>2, <2>3 DEF WrapSlot, NextSlot
  <2>4. CASE r # Slots - 1
    BY <1>1, <2>1, <2>2, <2>4 DEF WrapSlot, NextSlot
  <2>5. QED BY <2>3, <2>4
<1>6. /\ Contents(d, new) = [k \in 1 .. n - 1 |-> new[WrapSlot(NextSlot(r) + k - 1)]]
      /\ Contents(q, old) = [k \in 1 .. n |-> old[WrapSlot(r + k - 1)]]
  BY <1>3 DEF Contents
<1>7. ASSUME NEW k \in 1 .. n - 1
      PROVE  new[WrapSlot(NextSlot(r) + k - 1)] = old[WrapSlot(r + (k + 1) - 1)]
  <2>1. k + 1 \in 1 .. n
    BY <1>4
  <2> DEFINE s == WrapSlot(r + (k + 1) - 1)
  <2>2. s \in Slot /\ v[s] /\ s # r
    BY <1>5, <2>1, PublishedAreValid
  <2>3. d.valid[s]
    BY <1>1, <2>2
  <2>4. QED BY <1>5, <2>2, <2>3
<1>8. /\ Contents(q, old) \in Seq({ old[s] : s \in Slot }) /\ Len(Contents(q, old)) = n
      /\ Contents(d, new) \in Seq({ new[s] : s \in Slot })
      /\ Len(Contents(d, new)) = n - 1
  <2>1. /\ Contents(q, old) \in Seq({ old[s] : s \in Slot })
        /\ Contents(d, new) \in Seq({ new[s] : s \in Slot })
        /\ Len(Contents(q, old)) = Depth(q) /\ Len(Contents(d, new)) = Depth(d)
    BY ONLY Ring(q), Ring(d), ContentsLength
  <2>2. QED BY <1>3, <2>1
<1> DEFINE a == Contents(q, old)
           b == Contents(d, new)
<1> HIDE DEF r, w, v, n
<1>9. \A k \in 1 .. n - 1 : b[k] = a[k + 1]
  BY <1>4, <1>6, <1>7
<1>10. /\ a \in Seq({ old[s] : s \in Slot }) /\ Len(a) = n
      /\ b \in Seq({ new[s] : s \in Slot }) /\ Len(b) = n - 1
  BY <1>8
<1> HIDE DEF a, b
<1>11. a # << >> /\ b = Tail(a)
  BY <1>4, <1>9, <1>10, DequeueForm
<1>12. QED BY <1>11 DEF a, b, Dequeued

----------------------------------------------------------------------------
(* The same as numbers: how many packets wait, and how many were dropped.  *)

\* A published packet is one more that waits.
LEMMA PublishCounts ==
  ASSUME NEW q, NEW meta, Ring(q), packet_queue_write_slot_available(q)
  PROVE  LET d == packet_queue_publish_write_slot(q, meta)
         IN  Depth(d) = Depth(q) + 1 /\ d.drop_count = q.drop_count
<1> DEFINE d == packet_queue_publish_write_slot(q, meta)
           view == [s \in Slot |-> s]
<1>1. /\ Ring(d) /\ d.valid = [q.valid EXCEPT ![q.write_idx] = TRUE]
      /\ d.read_idx = q.read_idx /\ d.write_idx = NextSlot(q.write_idx)
  BY PublishKeepsRing
<1>2. d.drop_count = q.drop_count
  BY DEF packet_queue_publish_write_slot, packet_queue_write_slot_available, Ring
<1> HIDE DEF d, view
<1>3. Enqueued(Contents(q, view), Contents(d, view))
  BY <1>1, PublishAppends
<1>4. Len(Contents(q, view)) = Depth(q) /\ Len(Contents(d, view)) = Depth(d)
  BY <1>1, ContentsLength
<1>5. QED BY <1>2, <1>3, <1>4 DEF d, Enqueued

\* A consumed packet is one less.
LEMMA ConsumeCounts ==
  ASSUME NEW q, Ring(q), packet_queue_read_slot_valid(q)
  PROVE  LET d == packet_queue_consume_read_slot(q)
         IN  Depth(d) = Depth(q) - 1 /\ d.drop_count = q.drop_count
<1> DEFINE d == packet_queue_consume_read_slot(q)
           view == [s \in Slot |-> s]
           a == Contents(q, view)
           b == Contents(d, view)
           V == { view[s] : s \in Slot }
<1>1. /\ Ring(d) /\ d.valid = [q.valid EXCEPT ![q.read_idx] = FALSE]
      /\ d.read_idx = NextSlot(q.read_idx) /\ d.write_idx = q.write_idx
  BY ConsumeKeepsRing
<1>2. d.drop_count = q.drop_count
  BY DEF packet_queue_consume_read_slot, Ring
<1> HIDE DEF d, view
<1>3. Dequeued(a, b)
  BY <1>1, ConsumeTakesFirst
<1>4. a \in Seq(V) /\ Len(a) = Depth(q) /\ Len(b) = Depth(d)
  <2>1. a \in Seq(V)
    BY ONLY Ring(q), ContentsLength
  <2>2. Len(a) = Depth(q) /\ Len(b) = Depth(d)
    BY ONLY Ring(q), <1>1, ContentsLength
  <2>3. QED BY <2>1, <2>2
<1> HIDE DEF a, b, V
<1>5. Len(b) = Len(a) - 1
  BY <1>3, <1>4 DEF Dequeued
<1>6. QED BY <1>2, <1>4, <1>5 DEF d

\* Counting a drop and storing a byte leave the packets that wait alone.
LEMMA OthersCount ==
  ASSUME NEW q, Ring(q)
  PROVE  /\ LET d == packet_queue_drop_write(q)
            IN  Depth(d) = Depth(q) /\ d.drop_count = Bump(q.drop_count)
         /\ \A slot, i, byte :
              LET d == StoreByte(q, slot, i, byte)
              IN  Depth(d) = Depth(q) /\ d.drop_count = q.drop_count
<1>1. LET d == packet_queue_drop_write(q)
      IN  Depth(d) = Depth(q) /\ d.drop_count = Bump(q.drop_count)
  BY SameDepth DEF packet_queue_drop_write, Ring
<1>2. ASSUME NEW slot, NEW i, NEW byte
      PROVE  LET d == StoreByte(q, slot, i, byte)
             IN  Depth(d) = Depth(q) /\ d.drop_count = q.drop_count
  BY SameDepth DEF StoreByte, Ring
<1>3. QED BY <1>1, <1>2

\* Where the packet published next stands in the queue, and when there is no
\* room for one.
LEMMA WriteSlotIsLast ==
  ASSUME NEW q, Ring(q)
  PROVE  /\ packet_queue_write_slot_available(q)
              => /\ Depth(q) < Slots
                 /\ WrapSlot(q.read_idx + Depth(q)) = q.write_idx
         /\ ~packet_queue_write_slot_available(q) => Depth(q) = Slots
<1> DEFINE r == q.read_idx
           w == q.write_idx
           v == q.valid
           n == Depth(q)
<1>1. /\ r \in Slot /\ w \in Slot /\ v \in [Slot -> BOOLEAN] /\ Shape(v, r, w)
      /\ Slots \in Nat \ {0}
  BY SlotsAssumption DEF Ring, RingShape
<1>2. ASSUME ~v[w]
      PROVE  n < Slots /\ WrapSlot(r + n) = w
  <2>1. n = IF r < w THEN w - r ELSE IF r > w THEN Slots + w - r ELSE 0
    <3>1. CASE r = w
      BY <1>1, <1>2, <3>1 DEF Depth, Slot
    <3>2. CASE r # w
      BY <1>1, <3>2 DEF Depth, Slot
    <3>3. QED BY <3>1, <3>2
  <2> HIDE DEF r, w, v, n
  <2>2. QED BY <1>1, <2>1 DEF WrapSlot, Slot
<1>3. ASSUME v[w]
      PROVE  n = Slots
  <2>1. r = w
    <3>1. r # w => ~Between(r, w, w)
      BY <1>1 DEF Between, Slot
    <3>2. QED BY <1>1, <1>3, <3>1 DEF Shape
  <2>2. QED BY <1>1, <1>3, <2>1 DEF Depth, Slot
<1>4. QED BY <1>2, <1>3 DEF packet_queue_write_slot_available

\* The packet published stands behind the others.
LEMMA PublishedIsLast ==
  ASSUME NEW q, Ring(q), packet_queue_write_slot_available(q),
         NEW d, Ring(d), d.valid = [q.valid EXCEPT ![q.write_idx] = TRUE],
         d.read_idx = q.read_idx, d.write_idx = NextSlot(q.write_idx), NEW view
  PROVE  LET b == Contents(d, view)
         IN  b[Len(b)] = view[q.write_idx]
<1>1. Enqueued(Contents(q, view), Contents(d, view))
  BY PublishAppends
<1>2. /\ Len(Contents(q, view)) = Depth(q) /\ Len(Contents(d, view)) = Depth(d)
      /\ DOMAIN Contents(d, view) = 1 .. Depth(d)
  BY ContentsLength
<1>3. Depth(q) \in Nat /\ Depth(d) = Depth(q) + 1
  BY <1>1, <1>2, PublishedAreValid, SlotsAssumption DEF Enqueued
<1>4. WrapSlot(d.read_idx + Depth(d) - 1) = q.write_idx
  <2>1. d.read_idx + Depth(d) - 1 = q.read_idx + Depth(q)
    BY <1>3, SlotsAssumption DEF Ring, Slot
  <2>2. QED BY <2>1, WriteSlotIsLast
<1>5. Contents(d, view)[Depth(d)] = view[q.write_idx]
  <2>1. Depth(d) \in 1 .. Depth(d)
    BY <1>3
  <2>2. QED BY <1>4, <2>1 DEF Contents
<1>6. QED BY <1>2, <1>5

\* The packet at the read index stands before the others.
LEMMA ReadSlotIsFirst ==
  ASSUME NEW q, Ring(q), packet_queue_read_slot_valid(q), NEW view
  PROVE  Depth(q) > 0 /\ Contents(q, view)[1] = view[q.read_idx]
<1>1. q.read_idx \in Slot /\ q.write_idx \in Slot /\ Slots \in Nat \ {0}
  BY SlotsAssumption DEF Ring
<1>2. Depth(q) > 0 /\ Depth(q) \in Nat
  BY <1>1, PublishedAreValid DEF Depth, Slot, packet_queue_read_slot_valid
<1>3. 1 \in 1 .. Depth(q) /\ WrapSlot(q.read_idx + 1 - 1) = q.read_idx
  BY <1>1, <1>2 DEF WrapSlot, Slot
<1>4. QED BY <1>2, <1>3 DEF Contents
=============================================================================
