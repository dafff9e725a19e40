--------------------------- MODULE RingLagProofs ---------------------------
(***************************************************************************)
(* How late a flag may be read without harm, for every number of slots,    *)
(* every lag below it and every length of a frame.                         *)
(***************************************************************************)
EXTENDS RingLag

----------------------------------------------------------------------------
(* What a late read may still see. *)

\* How many slots index i has to pass before it comes to slot s.
Ahead(i, s) == IF i <= s THEN s - i ELSE Slots + s - i

PastIndex == 1 .. Lag + 1

\* The producer is at most one publication ahead of the flags of the last
\* call, so a packet published k calls ago is that many slots behind it.
SeesPublished(last) ==
  \A s \in Slot, k \in PastIndex :
    queue.valid[s] /\ k + Ahead(queue.write_idx, s) <= last => past[k][s]

\* The same of the consumer and the slots it has freed.
SeesFreed ==
  \A s \in Slot, k \in PastIndex :
    ~queue.valid[s] /\ k + Ahead(queue.read_idx, s) <= Slots => ~past[k][s]

\* Since an admitted frame was begun no flag of its slot has been up.
AdmittedSeesFree ==
  frame.admitted =>
    /\ frame # NoFrame
    /\ ~queue.valid[queue.write_idx]
    /\ \A k \in PastIndex :
         k <= frame.cycles + (IF turn = "producer" THEN 1 ELSE 0)
           => ~past[k][queue.write_idx]

LagType ==
  /\ Ring(queue)
  /\ past \in [PastIndex -> [Slot -> BOOLEAN]]
  /\ turn \in {"producer", "consumer"}
  /\ DOMAIN frame = {"packet", "cycles", "admitted"}
  /\ frame.cycles \in Nat /\ frame.admitted \in BOOLEAN
  /\ holding \in BOOLEAN

LagInv ==
  /\ LagType
  /\ turn = "producer" => past[1] = queue.valid
  /\ SeesPublished(IF turn = "producer" THEN Slots ELSE Slots - 1)
  /\ SeesFreed
  /\ AdmittedSeesFree
  /\ holding => queue.valid[queue.read_idx]

\* At first nothing is published.
LEMMA LagAtFirst ==
  ASSUME Init
  PROVE  LagInv
<1>1. Slots \in Nat \ {0} /\ Lag \in Nat /\ 0 \in Slot
  BY SlotsAssumption, LagAssumption DEF Slot
<1>2. /\ Ring(queue) /\ queue.valid = [s \in Slot |-> FALSE]
      /\ queue.read_idx = 0 /\ queue.write_idx = 0
  BY <1>1 DEF Init, EmptyQueue, Ring, RingShape, Shape
<1>3. past = [k \in PastIndex |-> queue.valid] /\ 1 \in PastIndex
  BY <1>1 DEF Init, PastIndex
<1>4. LagType
  BY <1>2, <1>3 DEF LagType, Init, NoFrame
<1>5. past[1] = queue.valid /\ turn = "producer"
  BY <1>3 DEF Init
<1>6. SeesPublished(Slots) /\ SeesFreed
  BY <1>2, <1>3 DEF SeesPublished, SeesFreed
<1>7. AdmittedSeesFree /\ ~holding
  BY DEF Init, NoFrame, AdmittedSeesFree
<1>8. QED BY <1>4, <1>5, <1>6, <1>7 DEF LagInv

\* The distance around the ring, and what a step of the index makes of it.
LEMMA AheadType ==
  \A i, s \in Slot : Ahead(i, s) \in 0 .. Slots - 1 /\ Ahead(i, i) = 0
  BY SlotsAssumption DEF Ahead, Slot

\* A slot that the index passes is the last to come again.
LEMMA AheadNext ==
  ASSUME NEW i \in Slot, NEW s \in Slot
  PROVE  /\ s # i => Ahead(NextSlot(i), s) = Ahead(i, s) - 1
         /\ Ahead(NextSlot(i), i) = Slots - 1
<1>1. CASE i = Slots - 1
  BY <1>1, SlotsAssumption DEF Ahead, NextSlot, Slot
<1>2. CASE i # Slots - 1
  BY <1>2, SlotsAssumption DEF Ahead, NextSlot, Slot
<1>3. QED BY <1>1, <1>2

\* A producer that finds the flag down is right: with Lag < Slots the packet
\* published into its slot a round ago is old enough to be seen.
LEMMA FoundFree ==
  ASSUME Lag < Slots, LagInv, turn = "producer", FALSE \in MayRead(queue.write_idx)
  PROVE  ~queue.valid[queue.write_idx] /\ ~past[1][queue.write_idx]
<1> DEFINE w == queue.write_idx
<1>1. /\ w \in Slot /\ past[1] = queue.valid /\ DOMAIN past = PastIndex
      /\ past \in [PastIndex -> [Slot -> BOOLEAN]]
      /\ Lag \in Nat /\ Slots \in Nat
  BY SlotsAssumption, LagAssumption DEF LagInv, LagType, Ring
<1>2. PICK k \in PastIndex : past[k][w] = FALSE
  BY <1>1 DEF MayRead
<1>3. k + Ahead(w, w) <= Slots
  BY <1>1, AheadType DEF PastIndex
<1>4. SeesPublished(Slots)
  BY DEF LagInv
<1>5. ~queue.valid[w]
  BY <1>1, <1>2, <1>3, <1>4 DEF SeesPublished
<1>6. QED BY <1>1, <1>5

\* A consumer that finds the flag up is right.
LEMMA FoundPublished ==
  ASSUME Lag < Slots, LagInv, TRUE \in MayRead(queue.read_idx)
  PROVE  queue.valid[queue.read_idx]
<1> DEFINE r == queue.read_idx
<1>1. /\ r \in Slot /\ DOMAIN past = PastIndex /\ queue.valid[r] \in BOOLEAN
      /\ past \in [PastIndex -> [Slot -> BOOLEAN]]
      /\ Lag \in Nat /\ Slots \in Nat
  BY SlotsAssumption, LagAssumption DEF LagInv, LagType, Ring
<1> SUFFICES ASSUME ~queue.valid[r] PROVE FALSE
  OBVIOUS
<1>2. ASSUME NEW k \in PastIndex PROVE ~past[k][r]
  <2>1. k + Ahead(r, r) <= Slots
    BY <1>1, AheadType DEF PastIndex
  <2>2. QED BY <1>1, <2>1 DEF LagInv, SeesFreed
<1>3. MayRead(r) \subseteq { queue.valid[r] } \cup { past[k][r] : k \in PastIndex }
  BY <1>1 DEF MayRead
<1>4. queue.valid[r] = TRUE \/ \E k \in PastIndex : past[k][r] = TRUE
  BY <1>3
<1>5. QED BY <1>2, <1>4

\* The producer's part with the flags left alone.
LEMMA ProduceQuietly ==
  ASSUME LagInv, turn = "producer", turn' = "consumer", UNCHANGED << past, holding >>,
         Ring(queue'), queue'.valid = queue.valid,
         queue'.read_idx = queue.read_idx, queue'.write_idx = queue.write_idx,
         DOMAIN frame' = {"packet", "cycles", "admitted"},
         frame'.cycles \in Nat, frame'.admitted \in BOOLEAN, AdmittedSeesFree'
  PROVE  LagInv'
<1>1. LagType'
  BY DEF LagInv, LagType
<1>2. SeesPublished(Slots - 1)'
  <2> SUFFICES ASSUME NEW s \in Slot, NEW k \in PastIndex,
                      queue'.valid[s], k + Ahead(queue'.write_idx, s) <= Slots - 1
               PROVE  past'[k][s]
    BY DEF SeesPublished
  <2>1. k + Ahead(queue.write_idx, s) <= Slots
    BY AheadType, SlotsAssumption, LagAssumption DEF PastIndex, LagInv, LagType, Ring
  <2>2. QED BY <2>1 DEF LagInv, SeesPublished
<1>3. SeesFreed'
  BY DEF LagInv, SeesFreed
<1>4. QED BY <1>1, <1>2, <1>3 DEF LagInv

\* The claim of a slot admits a frame only if its flag is down.
LEMMA ClaimKeeps ==
  ASSUME Lag < Slots, LagInv, turn = "producer", turn' = "consumer", Claim,
         UNCHANGED << past, holding >>
  PROVE  LagInv'
<1>1. PICK packet \in Packet, occupied \in MayRead(queue.write_idx) :
        /\ frame' = [packet |-> packet, cycles |-> 1, admitted |-> ~occupied]
        /\ queue' = IF occupied THEN packet_queue_drop_write(queue) ELSE queue
  BY DEF Claim
<1>2. occupied \in BOOLEAN
  <2>1. /\ queue.valid[queue.write_idx] \in BOOLEAN /\ DOMAIN past = PastIndex
        /\ \A k \in PastIndex : past[k][queue.write_idx] \in BOOLEAN
    BY DEF LagInv, LagType, Ring
  <2>2. QED BY <1>1, <2>1 DEF MayRead
<1>3. /\ Ring(queue') /\ queue'.valid = queue.valid
      /\ queue'.read_idx = queue.read_idx /\ queue'.write_idx = queue.write_idx
  BY <1>1, DropKeepsRing DEF LagInv, LagType
<1>4. AdmittedSeesFree'
  <2> SUFFICES ASSUME frame'.admitted
               PROVE  /\ frame' # NoFrame
                      /\ ~queue'.valid[queue'.write_idx]
                      /\ \A k \in PastIndex : k <= frame'.cycles
                           => ~past'[k][queue'.write_idx]
    <3>1. frame'.cycles \in Nat
      BY <1>1
    <3>2. QED BY <3>1 DEF AdmittedSeesFree
  <2>1. FALSE \in MayRead(queue.write_idx)
    BY <1>1, <1>2
  <2>2. ~queue.valid[queue.write_idx] /\ ~past[1][queue.write_idx]
    BY <2>1, FoundFree
  <2>3. frame' # NoFrame
    BY <1>1 DEF NoFrame
  <2>4. \A k \in PastIndex : k <= frame'.cycles => k = 1
    BY <1>1, LagAssumption DEF PastIndex
  <2>5. QED BY <1>3, <2>2, <2>3, <2>4
<1>5. QED
  BY <1>1, <1>2, <1>3, <1>4, ProduceQuietly

\* A call that goes on with a frame, or has none, lengthens what it may still see.
LEMMA CarryKeeps ==
  ASSUME LagInv, turn = "producer", turn' = "consumer", Carry \/ Pause,
         UNCHANGED << past, holding >>
  PROVE  LagInv'
<1>1. CASE Carry
  <2>1. /\ queue' = queue /\ frame' = [frame EXCEPT !.cycles = @ + 1]
        /\ frame # NoFrame
    BY <1>1 DEF Carry
  <2>2. /\ frame'.cycles = frame.cycles + 1 /\ frame'.admitted = frame.admitted
        /\ DOMAIN frame' = {"packet", "cycles", "admitted"}
        /\ frame.cycles \in Nat /\ frame.admitted \in BOOLEAN
    BY <2>1 DEF LagInv, LagType
  <2>3. frame' # NoFrame
    BY <2>2 DEF NoFrame
  <2>4. AdmittedSeesFree'
    <3> SUFFICES ASSUME frame'.admitted
                 PROVE  /\ ~queue'.valid[queue'.write_idx]
                        /\ \A k \in PastIndex : k <= frame'.cycles
                             => ~past'[k][queue'.write_idx]
      BY <2>2, <2>3 DEF AdmittedSeesFree
    <3>1. /\ ~queue.valid[queue.write_idx]
          /\ \A k \in PastIndex : k <= frame.cycles + 1 => ~past[k][queue.write_idx]
      BY <2>2 DEF LagInv, AdmittedSeesFree
    <3>2. QED BY <2>1, <2>2, <3>1
  <2>5. QED BY <2>1, <2>2, <2>4, ProduceQuietly DEF LagInv, LagType
<1>2. CASE Pause
  <2>1. queue' = queue /\ frame' = frame /\ frame = NoFrame
    BY <1>2 DEF Pause
  <2>2. AdmittedSeesFree'
    <3>1. ~frame'.admitted
      BY <2>1 DEF NoFrame
    <3>2. QED BY <3>1 DEF AdmittedSeesFree
  <2>3. QED BY <2>1, <2>2, ProduceQuietly DEF LagInv, LagType
<1>3. QED BY <1>1, <1>2

\* What the publication into a free slot makes of the ring.
Publication ==
  /\ packet_queue_write_slot_available(queue)
  /\ Ring(queue')
  /\ queue'.valid = [queue.valid EXCEPT ![queue.write_idx] = TRUE]
  /\ queue'.meta = [queue.meta EXCEPT ![queue.write_idx] = frame.packet]
  /\ queue'.read_idx = queue.read_idx
  /\ queue'.write_idx = NextSlot(queue.write_idx)

\* The flag put down for the reader's sake is down already.
LEMMA PublishIntoFree ==
  ASSUME LagInv, ~queue.valid[queue.write_idx],
         queue' = packet_queue_publish_write_slot(
                    [queue EXCEPT !.valid[queue.write_idx] = FALSE], frame.packet)
  PROVE  Publication
<1> DEFINE w == queue.write_idx
           filled == [queue EXCEPT !.valid[w] = FALSE]
<1>1. queue' = packet_queue_publish_write_slot(filled, frame.packet)
  OBVIOUS
<1>2. ~queue.valid[w]
  OBVIOUS
<1>3. filled.valid = queue.valid
  <2> DEFINE v == queue.valid
  <2>1. v \in [Slot -> BOOLEAN] /\ w \in Slot /\ v[w] = FALSE
    BY <1>2 DEF LagInv, LagType, Ring
  <2>2. filled.valid = [v EXCEPT ![w] = FALSE]
    BY DEF LagInv, LagType, Ring
  <2> HIDE DEF v
  <2>3. [v EXCEPT ![w] = FALSE] = v
    BY <2>1
  <2>4. QED BY <2>2, <2>3 DEF v
<1>4. /\ DOMAIN filled = DOMAIN queue /\ filled.meta = queue.meta
      /\ filled.bytes = queue.bytes /\ filled.read_idx = queue.read_idx
      /\ filled.write_idx = w
  BY DEF LagInv, LagType, Ring
<1> HIDE DEF filled
<1>5. Ring(filled) /\ packet_queue_write_slot_available(filled)
  BY <1>2, <1>3, <1>4 DEF LagInv, LagType, Ring, RingShape,
                         packet_queue_write_slot_available
<1>6. /\ Ring(queue')
      /\ queue'.valid = [filled.valid EXCEPT ![filled.write_idx] = TRUE]
      /\ queue'.meta = [filled.meta EXCEPT ![filled.write_idx] = frame.packet]
      /\ queue'.read_idx = filled.read_idx
      /\ queue'.write_idx = NextSlot(filled.write_idx)
  BY <1>1, <1>5, PublishKeepsRing
<1>7. QED
  BY <1>2, <1>3, <1>4, <1>6 DEF Publication, packet_queue_write_slot_available

\* The producer's read of its own flag decides: the packet is published into a
\* slot that is free, or counted as dropped.
LEMMA PublishCases ==
  ASSUME Lag < Slots, LagInv, turn = "producer", Publish
  PROVE  \/ queue' = queue \/ queue' = packet_queue_drop_write(queue)
         \/ Publication
<1> DEFINE w == queue.write_idx
<1>1. PICK occupied \in MayRead(w) :
        queue' = IF ~frame.admitted THEN queue
                 ELSE IF occupied THEN packet_queue_drop_write(queue)
                 ELSE packet_queue_publish_write_slot(
                        [queue EXCEPT !.valid[w] = FALSE], frame.packet)
  BY DEF Publish
<1>2. occupied \in BOOLEAN
  <2>1. /\ queue.valid[w] \in BOOLEAN /\ DOMAIN past = PastIndex
        /\ \A k \in PastIndex : past[k][w] \in BOOLEAN
    BY DEF LagInv, LagType, Ring
  <2>2. QED BY <1>1, <2>1 DEF MayRead
<1>3. CASE ~frame.admitted \/ occupied
  BY <1>1, <1>3
<1>4. CASE frame.admitted /\ ~occupied
  <2>1. queue' = packet_queue_publish_write_slot(
                   [queue EXCEPT !.valid[w] = FALSE], frame.packet)
    BY <1>1, <1>4
  <2>2. ~queue.valid[w]
    BY <1>1, <1>2, <1>4, FoundFree
  <2>3. QED BY <2>1, <2>2, PublishIntoFree
<1>5. QED BY <1>2, <1>3, <1>4 DEF LagInv, LagType

\* Publication makes the slot the youngest, and no other flag rises.
LEMMA PublishKeeps ==
  ASSUME Lag < Slots, LagInv, turn = "producer", turn' = "consumer", Publish,
         UNCHANGED << past, holding >>
  PROVE  LagInv'
<1>1. frame' = NoFrame /\ ~frame'.admitted /\ frame'.cycles = 0
  BY DEF Publish, NoFrame
<1>2. AdmittedSeesFree' /\ DOMAIN frame' = {"packet", "cycles", "admitted"}
  BY <1>1 DEF AdmittedSeesFree, NoFrame
<1>3. CASE queue' = queue \/ queue' = packet_queue_drop_write(queue)
  <2>1. /\ Ring(queue') /\ queue'.valid = queue.valid
        /\ queue'.read_idx = queue.read_idx /\ queue'.write_idx = queue.write_idx
    BY <1>3, DropKeepsRing DEF LagInv, LagType
  <2>2. frame'.cycles \in Nat /\ frame'.admitted \in BOOLEAN
    BY <1>1 DEF NoFrame
  <2>3. QED BY <1>2, <2>1, <2>2, ProduceQuietly
<1> DEFINE w == queue.write_idx
<1>4. CASE Publication
  <2>1. /\ w \in Slot /\ queue.valid \in [Slot -> BOOLEAN] /\ ~queue.valid[w]
        /\ Slots \in Nat \ {0} /\ Lag \in Nat
    BY <1>4, SlotsAssumption, LagAssumption
    DEF Publication, LagInv, LagType, Ring, packet_queue_write_slot_available
  <2>2. LagType'
    <3>1. frame'.cycles \in Nat /\ frame'.admitted \in BOOLEAN
      BY <1>1 DEF NoFrame
    <3>2. QED BY <1>2, <1>4, <3>1 DEF Publication, LagInv, LagType
  <2>3. SeesPublished(Slots - 1)'
    <3> SUFFICES ASSUME NEW s \in Slot, NEW k \in PastIndex,
                        queue'.valid[s], k + Ahead(queue'.write_idx, s) <= Slots - 1
                 PROVE  past[k][s]
      BY DEF SeesPublished
    <3>1. CASE s = w
      <4>1. Ahead(queue'.write_idx, s) = Slots - 1
        BY <1>4, <2>1, <3>1, AheadNext DEF Publication
      <4>2. QED BY <2>1, <4>1 DEF PastIndex
    <3>2. CASE s # w
      <4>1. queue.valid[s] /\ Ahead(queue'.write_idx, s) = Ahead(w, s) - 1
        BY <1>4, <2>1, <3>2, AheadNext DEF Publication
      <4>2. Ahead(w, s) \in Int /\ k \in Int
        BY <2>1, AheadType DEF PastIndex
      <4>3. k + Ahead(w, s) <= Slots
        BY <2>1, <4>1, <4>2
      <4>4. QED BY <4>1, <4>3 DEF LagInv, SeesPublished
    <3>3. QED BY <3>1, <3>2
  <2>4. SeesFreed'
    <3> SUFFICES ASSUME NEW s \in Slot, NEW k \in PastIndex,
                        ~queue'.valid[s], k + Ahead(queue.read_idx, s) <= Slots
                 PROVE  ~past[k][s]
      BY <1>4 DEF Publication, SeesFreed
    <3>1. ~queue.valid[s]
      BY <1>4, <2>1 DEF Publication
    <3>2. QED BY <3>1 DEF LagInv, SeesFreed
  <2>5. holding => queue'.valid[queue'.read_idx]
    BY <1>4, <2>1 DEF Publication, LagInv
  <2>6. QED BY <1>2, <2>2, <2>3, <2>4, <2>5 DEF LagInv
<1>5. QED BY <1>3, <1>4, PublishCases

\* The consumer's part lowers the flag it has found up, or none.
LEMMA ConsumeCases ==
  ASSUME Lag < Slots, LagInv, turn = "consumer", Consume
  PROVE  \/ /\ queue' = queue
            /\ holding' => queue.valid[queue.read_idx]
         \/ /\ packet_queue_read_slot_valid(queue)
            /\ queue' = packet_queue_consume_read_slot(queue)
            /\ ~holding'
<1>1. CASE Discard
  BY <1>1, FoundPublished DEF Discard, packet_queue_read_slot_valid
<1>2. CASE Hold
  BY <1>2, FoundPublished DEF Hold
<1>3. CASE Release
  BY <1>3 DEF Release, LagInv, packet_queue_read_slot_valid
<1>4. CASE Wait
  BY <1>4 DEF Wait, LagInv
<1>5. QED BY <1>1, <1>2, <1>3, <1>4 DEF Consume

\* The end of a call moves what it has seen one call into the past.
LEMMA ConsumeKeeps ==
  ASSUME Lag < Slots, LagInv, turn = "consumer", Consume
  PROVE  LagInv'
<1> DEFINE r == queue.read_idx
           w == queue.write_idx
<1>1. /\ turn' = "producer" /\ frame' = frame
      /\ past' = [k \in PastIndex |-> IF k = 1 THEN queue'.valid ELSE past[k - 1]]
      /\ holding' \in BOOLEAN
  BY DEF Consume, Discard, Hold, Release, Wait, LagInv, LagType
<1>2. /\ r \in Slot /\ w \in Slot /\ queue.valid \in [Slot -> BOOLEAN]
      /\ Slots \in Nat \ {0} /\ Lag \in Nat /\ 1 \in PastIndex
  BY SlotsAssumption, LagAssumption DEF LagInv, LagType, Ring, PastIndex
<1>3. ASSUME NEW k \in PastIndex, k # 1
      PROVE  k - 1 \in PastIndex /\ past'[k] = past[k - 1] /\ k \in Int
  BY <1>1, <1>2, <1>3 DEF PastIndex
<1>4. past'[1] = queue'.valid
  BY <1>1, <1>2
<1>5. /\ Ring(queue') /\ queue'.write_idx = w
      /\ \/ queue'.valid = queue.valid /\ queue'.read_idx = r
         \/ /\ queue'.valid = [queue.valid EXCEPT ![r] = FALSE]
            /\ queue'.read_idx = NextSlot(r)
  <2>1. CASE queue' = queue
    BY <2>1 DEF LagInv, LagType
  <2>2. CASE /\ packet_queue_read_slot_valid(queue)
             /\ queue' = packet_queue_consume_read_slot(queue)
    BY <2>2, ConsumeKeepsRing DEF LagInv, LagType
  <2>3. QED BY <2>1, <2>2, ConsumeCases
<1>6. /\ queue'.valid \in [Slot -> BOOLEAN]
      /\ \A s \in Slot : queue'.valid[s] => queue.valid[s]
  BY <1>2, <1>5
<1>7. LagType'
  <2>1. past' \in [PastIndex -> [Slot -> BOOLEAN]]
    <3>1. \A k \in PastIndex : past'[k] \in [Slot -> BOOLEAN]
      BY <1>3, <1>4, <1>6 DEF LagInv, LagType
    <3>2. QED BY <1>1, <3>1
  <2>2. QED BY <1>1, <1>5, <2>1 DEF LagInv, LagType
<1>8. SeesPublished(Slots)'
  <2> SUFFICES ASSUME NEW s \in Slot, NEW k \in PastIndex,
                      queue'.valid[s], k + Ahead(w, s) <= Slots
               PROVE  past'[k][s]
    BY <1>5 DEF SeesPublished
  <2>1. CASE k = 1
    BY <1>4, <2>1
  <2>2. CASE k # 1
    <3>1. queue.valid[s] /\ k - 1 \in PastIndex /\ past'[k] = past[k - 1]
      BY <1>3, <1>6, <2>2
    <3>2. k - 1 + Ahead(w, s) <= Slots - 1
      BY <1>2, <1>3, <2>2, AheadType
    <3>3. SeesPublished(Slots - 1)
      BY DEF LagInv
    <3>4. QED BY <3>1, <3>2, <3>3 DEF SeesPublished
  <2>3. QED BY <2>1, <2>2
<1>9. SeesFreed'
  <2> SUFFICES ASSUME NEW s \in Slot, NEW k \in PastIndex,
                      ~queue'.valid[s], k + Ahead(queue'.read_idx, s) <= Slots
               PROVE  ~past'[k][s]
    BY DEF SeesFreed
  <2>1. CASE k = 1
    BY <1>4, <2>1
  <2>2. CASE k # 1
    <3>1. k - 1 \in PastIndex /\ past'[k] = past[k - 1] /\ k \in Int
      BY <1>3, <2>2
    <3>2. Ahead(r, s) \in Int /\ k > 1
      BY <1>2, <2>2, AheadType DEF PastIndex
    <3>3. ~queue.valid[s] /\ k - 1 + Ahead(r, s) <= Slots
      <4>1. CASE queue'.valid = queue.valid /\ queue'.read_idx = r
        <5>1. k + Ahead(r, s) <= Slots /\ ~queue.valid[s]
          BY <4>1
        <5>2. QED BY <1>2, <3>1, <3>2, <5>1
      <4>2. CASE /\ queue'.valid = [queue.valid EXCEPT ![r] = FALSE]
                 /\ queue'.read_idx = NextSlot(r)
        <5>1. k + Ahead(NextSlot(r), s) <= Slots
          BY <4>2
        <5>2. s # r
          <6>1. Ahead(NextSlot(r), r) = Slots - 1
            BY <1>2, AheadNext
          <6>2. ~(k + (Slots - 1) <= Slots)
            BY <1>2, <3>1, <3>2
          <6>3. QED BY <5>1, <6>1, <6>2
        <5>3. Ahead(NextSlot(r), s) = Ahead(r, s) - 1
          BY <1>2, <5>2, AheadNext
        <5>4. k - 1 + Ahead(r, s) <= Slots
          BY <1>2, <3>1, <3>2, <5>1, <5>3
        <5>5. QED BY <1>2, <4>2, <5>2, <5>4
      <4>3. QED BY <1>5, <4>1, <4>2
    <3>4. QED BY <3>1, <3>3 DEF LagInv, SeesFreed
  <2>3. QED BY <2>1, <2>2
<1>10. AdmittedSeesFree'
  <2> SUFFICES ASSUME frame.admitted
               PROVE  /\ frame # NoFrame
                      /\ ~queue'.valid[w]
                      /\ \A k \in PastIndex : k <= frame.cycles + 1 => ~past'[k][w]
    BY <1>1, <1>5 DEF AdmittedSeesFree
  <2>1. /\ frame # NoFrame /\ ~queue.valid[w] /\ frame.cycles \in Nat
        /\ \A k \in PastIndex : k <= frame.cycles => ~past[k][w]
    BY DEF LagInv, LagType, AdmittedSeesFree
  <2>2. ~queue'.valid[w]
    BY <1>2, <1>6, <2>1
  <2>3. ASSUME NEW k \in PastIndex, k <= frame.cycles + 1 PROVE ~past'[k][w]
    <3>1. CASE k = 1
      BY <1>4, <2>2, <3>1
    <3>2. CASE k # 1
      <4>1. k - 1 \in PastIndex /\ past'[k] = past[k - 1] /\ k - 1 <= frame.cycles
        BY <1>3, <2>1, <2>3, <3>2
      <4>2. QED BY <2>1, <4>1
    <3>3. QED BY <3>1, <3>2
  <2>4. QED BY <2>1, <2>2, <2>3
<1>11. holding' => queue'.valid[queue'.read_idx]
  BY ConsumeCases
<1>12. QED BY <1>1, <1>4, <1>7, <1>8, <1>9, <1>10, <1>11 DEF LagInv

\* No call breaks the invariant.
LEMMA LagStep ==
  ASSUME Lag < Slots, LagInv, [Next]_vars
  PROVE  LagInv'
<1>1. CASE Produce
  BY <1>1, ClaimKeeps, CarryKeeps, PublishKeeps DEF Produce
<1>2. CASE Consume
  BY <1>2, ConsumeKeeps DEF Consume
<1>3. CASE UNCHANGED vars
  BY <1>3 DEF vars, LagInv, LagType, SeesPublished, SeesFreed, AdmittedSeesFree
<1>4. QED BY <1>1, <1>2, <1>3 DEF Next

LEMMA LagHolds == ASSUME Lag < Slots PROVE Spec => []LagInv
<1>1. Init => LagInv
  BY LagAtFirst
<1>2. LagInv /\ [Next]_vars => LagInv'
  BY LagStep
<1>3. QED BY <1>1, <1>2, PTL DEF Spec

----------------------------------------------------------------------------
(* The ring as a queue.                                                    *)

\* The published packets are the metadata of the published slots.
LEMMA PacketsAreContents ==
  /\ PublishedPackets = Contents(queue, queue.meta)
  /\ PublishedPackets' = Contents(queue', queue'.meta)
  BY DEF PublishedPackets, PublishedSlots, Contents

\* A call leaves the published packets alone, or appends one, or takes the
\* first.
LEMMA LagIsFifoStep ==
  ASSUME Lag < Slots, LagInv, [Next]_vars
  PROVE  [Fifo!Next]_PublishedPackets
<1> DEFINE Same == PublishedPackets' = PublishedPackets
<1>1. /\ Ring(queue) /\ Ring(queue')
      /\ PublishedPackets = Contents(queue, queue.meta)
      /\ PublishedPackets' = Contents(queue', queue'.meta)
  BY LagStep, PacketsAreContents DEF LagInv, LagType
<1>2. ASSUME queue' = queue \/ queue' = packet_queue_drop_write(queue) PROVE Same
  <2>1. /\ queue'.valid = queue.valid /\ queue'.read_idx = queue.read_idx
        /\ queue'.write_idx = queue.write_idx /\ queue'.meta = queue.meta
    BY <1>1, <1>2, DropKeepsRing
  <2>2. \A s \in Slot : queue.valid[s] => queue'.meta[s] = queue.meta[s]
    BY <2>1
  <2>3. QED BY <1>1, <2>1, <2>2, OthersMayChange
<1>3. CASE turn = "producer" /\ Publish
  <2>1. CASE queue' = queue \/ queue' = packet_queue_drop_write(queue)
    BY <1>2, <2>1
  <2>2. CASE Publication
    <3>1. \A s \in Slot : queue.valid[s] => queue'.meta[s] = queue.meta[s]
      BY <1>1, <2>2 DEF Publication, Ring, packet_queue_write_slot_available
    <3>2. Enqueued(PublishedPackets, PublishedPackets')
      BY <1>1, <2>2, <3>1, PublishAppends DEF Publication
    <3>3. QED BY <3>2 DEF Enqueued, Fifo!Next, Fifo!Enqueue
  <2>3. QED BY <1>3, <2>1, <2>2, PublishCases
<1>4. CASE turn = "producer" /\ (Claim \/ Carry \/ Pause)
  BY <1>2, <1>4 DEF Claim, Carry, Pause
<1>5. CASE Consume
  <2>1. CASE queue' = queue
    BY <1>2, <2>1
  <2>2. CASE /\ packet_queue_read_slot_valid(queue)
             /\ queue' = packet_queue_consume_read_slot(queue)
    <3>1. /\ queue'.valid = [queue.valid EXCEPT ![queue.read_idx] = FALSE]
          /\ queue'.meta = queue.meta
          /\ queue'.read_idx = NextSlot(queue.read_idx)
          /\ queue'.write_idx = queue.write_idx
      BY <1>1, <2>2, ConsumeKeepsRing
    <3>2. \A s \in Slot : queue'.valid[s] => queue'.meta[s] = queue.meta[s]
      BY <3>1
    <3>3. Dequeued(PublishedPackets, PublishedPackets')
      BY <1>1, <2>2, <3>1, <3>2, ConsumeTakesFirst
    <3>4. QED BY <3>3 DEF Dequeued, Fifo!Next, Fifo!Dequeue
  <2>3. QED BY <1>5, <2>1, <2>2, ConsumeCases DEF Consume
<1>6. CASE UNCHANGED vars
  BY <1>2, <1>6 DEF vars
<1>7. QED BY <1>3, <1>4, <1>5, <1>6 DEF Next, Produce

\* A published packet is one more in the ring.
LEMMA PublicationDeepens ==
  ASSUME LagInv, Publication
  PROVE  Depth(queue') = Depth(queue) + 1
<1> DEFINE a == Contents(queue, queue.meta)
           b == Contents(queue', queue'.meta)
<1>1. Ring(queue) /\ Ring(queue')
  BY DEF LagInv, LagType, Publication
<1>2. \A s \in Slot : queue.valid[s] => queue'.meta[s] = queue.meta[s]
  BY <1>1 DEF Publication, Ring, packet_queue_write_slot_available
<1>3. Enqueued(a, b)
  BY <1>1, <1>2, PublishAppends DEF Publication
<1>4. Len(a) = Depth(queue) /\ Len(b) = Depth(queue')
  BY <1>1, ContentsLength
<1>5. QED BY <1>3, <1>4 DEF Enqueued

\* A flag may be read late by fewer calls than the ring has slots, and the
\* ring is still a bounded queue that neither loses, doubles, reorders nor
\* alters a packet: the DEPENDENCE pragmas of the top level are sound up to
\* that distance (ethernet_l2_endpoint_hls.cpp:33, 39).
THEOREM LateFlagsKeepFifo == Lag < Slots => (Spec => LateRingIsFifo)
<1> SUFFICES ASSUME Lag < Slots PROVE Spec => LateRingIsFifo
  OBVIOUS
<1>1. Init => Fifo!Init
  <2> SUFFICES ASSUME Init PROVE PublishedPackets = << >>
    BY DEF Fifo!Init
  <2>1. 0 \in Slot
    BY SlotsAssumption DEF Slot
  <2>2. Depth(queue) = 0
    BY <2>1 DEF Init, EmptyQueue, Depth
  <2>3. QED BY <2>2 DEF PublishedPackets, PublishedSlots
<1>2. ASSUME LagInv, [Next]_vars PROVE [Fifo!Next]_PublishedPackets
  BY <1>2, LagIsFifoStep
<1>3. QED BY <1>1, <1>2, LagHolds, PTL DEF Spec, LateRingIsFifo, Fifo!Spec

\* A frame whose slot was found free at its start is published at its end, if
\* flags are never read later than a frame is long: the second look at the
\* flag can not lose it (ethernet_packet_queue.h:61-74).
THEOREM AdmittedFramesAreKept ==
  Lag < Slots /\ Lag <= FrameCycles => (Spec => AdmittedIsPublished)
<1> SUFFICES ASSUME Lag < Slots, Lag <= FrameCycles PROVE Spec => AdmittedIsPublished
  OBVIOUS
<1> DEFINE Kept == frame.admitted /\ frame' = NoFrame => Depth(queue') = Depth(queue) + 1
           w == queue.write_idx
<1>1. ASSUME LagInv, Next, frame.admitted, frame' = NoFrame
      PROVE  Depth(queue') = Depth(queue) + 1
  <2>1. frame # NoFrame
    BY <1>1 DEF LagInv, AdmittedSeesFree
  <2>2. turn = "producer" /\ Publish
    <3>1. frame' # frame
      BY <1>1, <2>1
    <3>2. ~Carry
      <4>1. Carry => frame'.admitted
        BY <1>1 DEF Carry, LagInv, LagType
      <4>2. ~frame'.admitted
        BY <1>1 DEF NoFrame
      <4>3. QED BY <4>1, <4>2
    <3>3. QED BY <1>1, <2>1, <3>1, <3>2 DEF Next, Produce, Consume, Claim, Pause
  <2>3. PICK occupied \in MayRead(w) :
          queue' = IF ~frame.admitted THEN queue
                   ELSE IF occupied THEN packet_queue_drop_write(queue)
                   ELSE packet_queue_publish_write_slot(
                          [queue EXCEPT !.valid[w] = FALSE], frame.packet)
    BY <2>2 DEF Publish
  <2>4. occupied = FALSE
    <3>1. /\ DOMAIN past = PastIndex /\ past[1] = queue.valid
          /\ past \in [PastIndex -> [Slot -> BOOLEAN]] /\ w \in Slot
      BY <1>1, <2>2 DEF LagInv, LagType, Ring
    <3>2. frame.cycles = FrameCycles
      BY <2>2 DEF Publish
    <3>3. \A k \in PastIndex : k <= frame.cycles + 1
      BY <3>2, LagAssumption DEF PastIndex
    <3>4. \A k \in PastIndex : ~past[k][w]
      BY <1>1, <2>2, <3>3 DEF LagInv, AdmittedSeesFree
    <3>5. \A k \in PastIndex : past[k][w] = FALSE
      BY <3>1, <3>4
    <3>6. QED BY <2>3, <3>1, <3>5 DEF MayRead
  <2>5. FALSE \in MayRead(w)
    BY <2>3, <2>4
  <2>6. ~queue.valid[w]
    BY <1>1, <2>2, <2>5, FoundFree
  <2>7. Publication
    BY <1>1, <2>3, <2>4, <2>6, PublishIntoFree
  <2>8. QED BY <1>1, <2>7, PublicationDeepens
<1>2. QED BY <1>1, LagHolds, PTL DEF Spec, AdmittedIsPublished
=============================================================================
