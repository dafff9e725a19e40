------------------------ MODULE StatusCrossingProofs ------------------------
(***************************************************************************)
(* No frame is lost on its way to the status block, for every counter      *)
(* width and every ratio and phase of the two clocks that leaves at least  *)
(* two system edges to an eth cycle.                                       *)
(***************************************************************************)
EXTENDS StatusCrossing, TLAPS

\* The values the counting depends on.
CountType ==
  /\ source.toggle \in Bit /\ before.toggle \in Bit
  /\ edges \in Nat
  /\ tx_frame_toggle_sync \in [1 .. 3 -> Bit]
  /\ frame_count \in 0 .. CounterMod - 1
  /\ history.frames \in 0 .. CounterMod - 1

\* What the first flip-flop holds: the toggle, or until the first system edge
\* after a flip its former value; from the second edge on, the toggle.
Settles ==
  /\ before.toggle \in {source.toggle, tx_frame_toggle_sync[1]}
  /\ edges >= 2 => tx_frame_toggle_sync[1] = source.toggle
  /\ edges >= 1 => before.toggle = source.toggle

IInv == CountType /\ Settles /\ EveryFrameCounted

\* Counting one frame more and having one less under way is the same.
LEMMA WrappedBump ==
  ASSUME NEW n \in 0 .. CounterMod - 1, NEW k \in 0 .. 2
  PROVE  /\ Bump(n) \in 0 .. CounterMod - 1
         /\ Wrapped(Bump(n) + k) = Wrapped(n + (k + 1))
         /\ Bump(Wrapped(n + k)) = Wrapped(n + (k + 1))
  BY CrossingAssumption DEF Bump, Wrapped

\* Initially nothing is under way.
LEMMA InitIInv == Init => IInv
<1> SUFFICES ASSUME Init PROVE IInv
  OBVIOUS
<1>1. CountType
  BY CrossingAssumption DEF Init, CountType, Bit
<1>2. Settles
  BY DEF Init, Settles
<1>3. EveryFrameCounted
  BY CrossingAssumption DEF Init, EveryFrameCounted, InFlight, Differ, Wrapped
<1>4. QED BY <1>1, <1>2, <1>3 DEF IInv

\* A flip adds one to the frames sent and to those under way: the one before
\* it has reached the first flip-flop.
LEMMA EthEdgeKeepsIInv == IInv /\ EthEdge => IInv'
<1> SUFFICES ASSUME IInv, EthEdge PROVE IInv'
  OBVIOUS
<1> USE CrossingAssumption
<1>1. PICK flip \in Bit, rx, tx \in BOOLEAN :
        /\ edges >= MinEdges
        /\ edges' = 0
        /\ before' = source
        /\ source' = [toggle |-> IF flip = 1 THEN 1 - source.toggle ELSE source.toggle,
                      rx |-> rx, tx |-> tx]
        /\ history' = IF flip = 1 THEN [history EXCEPT !.frames = Bump(@)] ELSE history
        /\ UNCHANGED << tx_frame_toggle_sync, frame_count >>
  BY DEF EthEdge
<1>2. tx_frame_toggle_sync[1] = source.toggle
  BY <1>1 DEF IInv, Settles, CountType
<1>3. CountType'
  BY <1>1, WrappedBump DEF IInv, CountType, Bit
<1>4. Settles'
  BY <1>1, <1>2 DEF Settles
<1>5. CASE flip = 0
  <2>1. InFlight' = InFlight /\ history.frames' = history.frames
    BY <1>1, <1>5 DEF InFlight
  <2>2. QED BY <1>1, <1>3, <1>4, <2>1 DEF IInv, EveryFrameCounted
<1>6. CASE flip = 1
  <2>1. source'.toggle # source.toggle
    BY <1>1, <1>6 DEF IInv, CountType, Bit
  <2>2. InFlight \in 0 .. 2 /\ InFlight' = InFlight + 1
    BY <1>1, <1>2, <2>1 DEF InFlight, Differ
  <2>3. history'.frames = Bump(Wrapped(frame_count + InFlight))
    BY <1>1, <1>6 DEF IInv, EveryFrameCounted
  <2>4. history'.frames = Wrapped(frame_count + (InFlight + 1))
    BY <2>2, <2>3, WrappedBump DEF IInv, CountType
  <2>5. QED BY <1>1, <1>3, <1>4, <2>2, <2>4 DEF IInv, EveryFrameCounted
<1>7. QED BY <1>5, <1>6 DEF Bit

\* The chain moves on by one place: what leaves it at the end is counted.
LEMMA SystemEdgeKeepsIInv == IInv /\ SystemEdge => IInv'
<1> SUFFICES ASSUME IInv, SystemEdge PROVE IInv'
  OBVIOUS
<1> USE CrossingAssumption
<1>1. PICK toggle \in {before.toggle, source.toggle} :
        /\ edges' = edges + 1
        /\ tx_frame_toggle_sync'
             = << toggle, tx_frame_toggle_sync[1], tx_frame_toggle_sync[2] >>
        /\ ethernet_status_hls
        /\ before' = source
        /\ history' = Observe
        /\ UNCHANGED source
  BY DEF SystemEdge
<1> DEFINE a == source.toggle
           s == tx_frame_toggle_sync
<1>2. /\ a \in Bit /\ toggle \in Bit
      /\ s[1] \in Bit /\ s[2] \in Bit /\ s[3] \in Bit
  BY DEF IInv, CountType
<1>3. toggle \in {a, s[1]}
  BY <1>1 DEF IInv, Settles
<1>4. history'.frames = history.frames
  BY <1>1 DEF Observe
<1>5. frame_count' = IF s[3] # s[2] THEN Bump(frame_count) ELSE frame_count
  BY <1>1 DEF ethernet_status_hls, frame_event_sys
<1>6. s'[1] = toggle /\ s'[2] = s[1] /\ s'[3] = s[2]
  BY <1>1
<1>7. CountType'
  <2>1. frame_count' \in 0 .. CounterMod - 1
    BY <1>5, WrappedBump DEF IInv, CountType
  <2>2. s' \in [1 .. 3 -> Bit]
    BY <1>1, <1>2
  <2>3. QED BY <1>1, <1>2, <1>4, <2>1, <2>2 DEF IInv, CountType
<1>8. Settles'
  <2>1. edges >= 1 => toggle = a
    BY <1>1 DEF IInv, Settles
  <2>2. QED BY <1>1, <1>6, <2>1 DEF Settles, IInv, CountType
<1> DEFINE k == Differ(a, s[1]) + Differ(s[1], s[2])
<1>9. k \in 0 .. 2 /\ InFlight' = k
  BY <1>1, <1>3, <1>6 DEF InFlight, Differ
<1>10. CASE s[3] = s[2]
  <2>1. InFlight = k
    BY <1>10, <1>9 DEF InFlight, Differ
  <2>2. QED BY <1>4, <1>5, <1>7, <1>8, <1>9, <1>10, <2>1 DEF IInv, EveryFrameCounted
<1>11. CASE s[3] # s[2]
  <2>1. InFlight = k + 1
    BY <1>11 DEF InFlight, Differ
  <2>2. Wrapped(Bump(frame_count) + k) = Wrapped(frame_count + (k + 1))
    BY <1>9, WrappedBump DEF IInv, CountType
  <2>3. QED BY <1>4, <1>5, <1>7, <1>8, <1>9, <1>11, <2>1, <2>2 DEF IInv, EveryFrameCounted
<1>12. QED BY <1>10, <1>11

\* Every frame sent is counted once by the status block, whatever the phase
\* of the clocks (hls_top.v:89-98).
THEOREM FramesReachCounter == Spec => []EveryFrameCounted
<1>1. IInv /\ UNCHANGED vars => IInv'
  BY DEF IInv, CountType, Settles, EveryFrameCounted, InFlight, vars
<1>2. IInv /\ [Next]_vars => IInv'
  BY <1>1, EthEdgeKeepsIInv, SystemEdgeKeepsIInv DEF Next
<1>3. IInv => EveryFrameCounted
  BY DEF IInv
<1>4. QED BY <1>2, <1>3, InitIInv, PTL DEF Spec

----------------------------------------------------------------------------
(* The activity LED.                                                       *)

\* The values the LED depends on.  That all of this is reached by steps of
\* the two clocks is what counts: an eth cycle has two system edges or more.
LedType ==
  /\ source.rx \in BOOLEAN /\ source.tx \in BOOLEAN
  /\ before.rx \in BOOLEAN /\ before.tx \in BOOLEAN
  /\ edges \in Nat
  /\ activity_sync \in [1 .. 2 -> BOOLEAN]
  /\ activity_holdoff \in 0 .. Holdoff
  /\ history.high \in Nat /\ history.idle \in Nat /\ history.quiet \in Nat

\* The first flip-flop may be wrong about the level for one system edge only,
\* the first after the levels have changed.
LevelSettles ==
  /\ edges >= 1 => before = source
  /\ edges # 1 => activity_sync[1] = Level(before)

\* While there is activity a sample may miss it where rx gives way to tx; it
\* does so on a first edge, when the hold-off has just been started.
HighInv ==
  /\ history.high >= 1 => Level(before)
  /\ edges = 1 /\ history.high >= 2 => activity_sync[2]
  /\ history.high >= 3 => activity_sync[2] \/ activity_holdoff = Holdoff
  /\ history.high >= 4 => activity_holdoff > 0

\* When activity ends it is on its way to the hold-off, which then runs down
\* as the idle time grows.
IdleInv ==
  /\ history.idle = 0 <=> Level(before)
  /\ history.idle = 1 => activity_sync[2]
  /\ history.idle > 1 => activity_holdoff + history.idle >= Holdoff + 2

\* With nothing under way either, it runs down without a restart.
QuietInv ==
  /\ history.quiet >= 1 => ~activity_sync[1]
  /\ history.quiet >= 2 => /\ ~activity_sync[2]
                           /\ \/ activity_holdoff = 0
                              \/ activity_holdoff + history.quiet <= Holdoff + 2

LedInv == LedType /\ LevelSettles /\ HighInv /\ IdleInv /\ QuietInv

LEMMA LedInit == Init => LedInv
<1> SUFFICES ASSUME Init PROVE LedInv
  OBVIOUS
<1>1. /\ ~source.rx /\ ~source.tx /\ before = source /\ edges = 0
      /\ source.rx \in BOOLEAN /\ source.tx \in BOOLEAN
      /\ activity_sync = << FALSE, FALSE >> /\ activity_holdoff = 0
      /\ history.high = 0 /\ history.idle = Holdoff + 4 /\ history.quiet = Holdoff + 4
  BY DEF Init
<1>2. Holdoff \in Nat
  BY CrossingAssumption
<1>3. before.rx = source.rx /\ before.tx = source.tx
  BY <1>1
<1>4. Level(before) = FALSE
  BY <1>1, <1>3 DEF Level
<1>5. ASSUME NEW b \in BOOLEAN
      PROVE  /\ << b, b >> \in [1 .. 2 -> BOOLEAN]
             /\ << b, b >>[1] = b /\ << b, b >>[2] = b
  OBVIOUS
<1>6. /\ activity_sync \in [1 .. 2 -> BOOLEAN]
      /\ activity_sync[1] = FALSE
  BY <1>1, <1>5, Zenon
<1>7. LedType
  BY <1>1, <1>2, <1>3, <1>6 DEF LedType
<1>8. LevelSettles
  BY <1>1, <1>4, <1>6, Zenon DEF LevelSettles
<1>9. HighInv
  BY <1>1 DEF HighInv
<1>10. IdleInv
  BY <1>1, <1>2, <1>4 DEF IdleInv
<1>11. QuietInv
  <2>1. ~activity_sync[1]
    BY <1>6
  <2>2. activity_sync[2] = FALSE
    BY <1>1, <1>5, Zenon
  <2>3. QED BY <1>1, <1>2, <2>1, <2>2 DEF QuietInv
<1>12. QED BY <1>7, <1>8, <1>9, <1>10, <1>11 DEF LedInv

\* An edge of the eth clock changes the levels and nothing that is derived
\* from them; the former levels have reached the first flip-flop.
LEMMA EthEdgeKeepsLed == LedInv /\ EthEdge => LedInv'
<1> SUFFICES ASSUME LedInv, EthEdge PROVE LedInv'
  OBVIOUS
<1> USE CrossingAssumption
<1>1. PICK rx, tx \in BOOLEAN :
        /\ edges >= MinEdges
        /\ edges' = 0
        /\ before' = source
        /\ source'.rx = rx /\ source'.tx = tx
        /\ history'.high = history.high /\ history'.idle = history.idle
        /\ history'.quiet = history.quiet
        /\ UNCHANGED << activity_sync, activity_holdoff >>
  BY DEF EthEdge
<1>2. edges >= 2 /\ before = source
  BY <1>1 DEF LedInv, LedType, LevelSettles
<1>3. before' = before /\ Level(before') = Level(before)
  BY <1>1, <1>2
<1>4. LedType'
  BY <1>1 DEF LedInv, LedType
<1>5. LevelSettles'
  BY <1>1, <1>2, <1>3 DEF LedInv, LevelSettles
<1>6. HighInv'
  BY <1>1, <1>2, <1>3 DEF LedInv, HighInv
<1>7. IdleInv'
  BY <1>1, <1>3 DEF LedInv, IdleInv
<1>8. QuietInv'
  BY <1>1 DEF LedInv, QuietInv
<1>9. QED BY <1>4, <1>5, <1>6, <1>7, <1>8 DEF LedInv

\* An edge of the system clock moves the sample on and runs the timer.
LEMMA SystemEdgeKeepsLed == LedInv /\ SystemEdge => LedInv'
<1> SUFFICES ASSUME LedInv, SystemEdge PROVE LedInv'
  OBVIOUS
<1> USE CrossingAssumption
<1>1. PICK rx \in {before.rx, source.rx}, tx \in {before.tx, source.tx} :
        /\ edges' = edges + 1
        /\ activity_sync' = << rx \/ tx, activity_sync[1] >>
        /\ ethernet_status_hls
        /\ before' = source
        /\ history' = Observe
        /\ UNCHANGED source
  BY DEF SystemEdge
<1> DEFINE on == Level(source)
           was == Level(before)
           sample == rx \/ tx
           a1 == activity_sync[1]
           a2 == activity_sync[2]
           timer == activity_holdoff
           high == history.high
           idle == history.idle
           quiet == history.quiet
<1>2. /\ rx \in BOOLEAN /\ tx \in BOOLEAN /\ sample \in BOOLEAN
      /\ on \in BOOLEAN /\ was \in BOOLEAN /\ a1 \in BOOLEAN /\ a2 \in BOOLEAN
      /\ timer \in 0 .. Holdoff /\ edges \in Nat
      /\ high \in Nat /\ idle \in Nat /\ quiet \in Nat
  BY <1>1 DEF LedInv, LedType, Level
<1>3. /\ activity_sync' \in [1 .. 2 -> BOOLEAN]
      /\ activity_sync'[1] = sample /\ activity_sync'[2] = a1
  BY <1>1, <1>2
<1>4. /\ before' = source /\ source' = source /\ Level(before') = on
  BY <1>1
<1>5. /\ ~on /\ ~was => ~sample
      /\ before = source => (sample <=> on)
  BY <1>1, <1>2 DEF Level
<1>6. /\ history'.high = IF on THEN UpTo(high, 4) ELSE 0
      /\ history'.idle = IF on THEN 0 ELSE UpTo(idle, Holdoff + 4)
      /\ history'.quiet = IF on \/ was \/ InFlight > 0
                            THEN 0 ELSE UpTo(quiet, Holdoff + 4)
  <2>1. /\ Observe.high = IF on THEN UpTo(high, 4) ELSE 0
        /\ Observe.idle = IF on THEN 0 ELSE UpTo(idle, Holdoff + 4)
        /\ Observe.quiet = IF on \/ was \/ InFlight > 0
                             THEN 0 ELSE UpTo(quiet, Holdoff + 4)
    BY DEF Observe
  <2>2. QED BY <1>1, <2>1
<1>7. /\ timer' = IF frame_event_sys \/ a2 THEN Holdoff
                  ELSE IF timer # 0 THEN timer - 1 ELSE 0
      /\ timer' \in 0 .. Holdoff
  BY <1>1, <1>2 DEF ethernet_status_hls
<1>8. ~(InFlight > 0) => ~frame_event_sys
  BY DEF InFlight, Differ, frame_event_sys
<1>9. /\ edges >= 1 => before = source
      /\ edges # 1 => a1 = was
  BY DEF LedInv, LevelSettles
<1>10. /\ high >= 1 => was
       /\ edges = 1 /\ high >= 2 => a2
       /\ high >= 3 => a2 \/ timer = Holdoff
       /\ high >= 4 => timer > 0
  BY DEF LedInv, HighInv
<1>11. /\ idle = 0 <=> was
       /\ idle = 1 => a2
       /\ idle > 1 => timer + idle >= Holdoff + 2
  BY DEF LedInv, IdleInv
<1>12. /\ quiet >= 1 => ~a1
       /\ quiet >= 2 => ~a2 /\ (timer = 0 \/ timer + quiet <= Holdoff + 2)
  BY DEF LedInv, QuietInv
<1> HIDE DEF on, was, sample, a1, a2, high, idle, quiet, timer
<1>13. LedType'
  <2>1. history'.high \in Nat /\ history'.idle \in Nat /\ history'.quiet \in Nat
    BY <1>2, <1>6 DEF UpTo
  <2>2. edges' \in Nat
    BY <1>1, <1>2
  <2>3. QED BY <1>3, <1>4, <1>7, <2>1, <2>2 DEF LedInv, LedType, timer
<1>14. LevelSettles'
  <2>1. edges' # 1 => before = source
    BY <1>1, <1>2, <1>9
  <2>2. edges' # 1 => activity_sync'[1] = on
    BY <1>2, <1>3, <1>5, <2>1
  <2>3. QED BY <1>4, <2>2 DEF LevelSettles
<1>15. before = source => (was <=> on)
  BY DEF was, on
<1>16. HighInv'
  <2>1. CASE ~on
    BY <1>2, <1>6, <2>1 DEF HighInv
  <2>2. CASE on
    <3>1. history'.high = UpTo(high, 4) /\ history'.high <= high + 1
      BY <1>2, <1>6, <2>2 DEF UpTo
    <3>2. history'.high >= 1 => Level(before')
      BY <1>4, <2>2
    <3>3. edges' = 1 /\ history'.high >= 2 => activity_sync'[2]
      <4>1. edges' = 1 /\ history'.high >= 2 => edges = 0 /\ high >= 1
        BY <1>1, <1>2, <3>1 DEF UpTo
      <4>2. QED BY <1>3, <1>9, <1>10, <4>1
    <3>4. history'.high >= 3 => activity_sync'[2] \/ activity_holdoff' = Holdoff
      <4>1. history'.high >= 3 => high >= 2
        BY <1>2, <3>1 DEF UpTo
      <4>2. high >= 2 => a2 \/ a1
        BY <1>2, <1>9, <1>10
      <4>3. a2 => timer' = Holdoff
        BY <1>7
      <4>4. QED BY <1>3, <4>1, <4>2, <4>3 DEF timer
    <3>5. history'.high >= 4 => activity_holdoff' > 0
      <4>1. history'.high >= 4 => high >= 3
        BY <1>2, <3>1 DEF UpTo
      <4>2. a2 \/ timer = Holdoff => timer' > 0
        BY <1>2, <1>7
      <4>3. QED BY <1>10, <4>1, <4>2 DEF timer
    <3>6. QED BY <3>2, <3>3, <3>4, <3>5 DEF HighInv
  <2>3. QED BY <2>1, <2>2
<1>17. IdleInv'
  <2>1. CASE on
    BY <1>4, <1>6, <2>1 DEF IdleInv
  <2>2. CASE ~on
    <3>1. history'.idle = UpTo(idle, Holdoff + 4)
      BY <1>6, <2>2
    <3>2. history'.idle = 0 <=> Level(before')
      BY <1>2, <1>4, <2>2, <3>1 DEF UpTo
    <3>3. history'.idle = 1 => activity_sync'[2]
      <4>1. history'.idle = 1 => idle = 0
        BY <1>2, <3>1 DEF UpTo
      <4>2. idle = 0 => a1
        <5> SUFFICES ASSUME idle = 0 PROVE a1
          OBVIOUS
        <5>1. was
          BY <1>11
        <5>2. edges # 1
          BY <1>9, <1>15, <2>2, <5>1
        <5>3. QED BY <1>9, <5>1, <5>2
      <4>3. QED BY <1>3, <4>1, <4>2
    <3>4. history'.idle > 1 => timer' + history'.idle >= Holdoff + 2
      <4>1. CASE idle = 0
        BY <3>1, <4>1 DEF UpTo
      <4>2. CASE idle = 1
        <5>1. timer' = Holdoff /\ history'.idle = 2
          BY <1>7, <1>11, <3>1, <4>2 DEF UpTo
        <5>2. QED BY <5>1
      <4>3. CASE idle > 1
        <5>1. timer' >= timer - 1
          BY <1>2, <1>7
        <5>2. history'.idle = idle + 1 \/ history'.idle = Holdoff + 4
          BY <1>2, <3>1 DEF UpTo
        <5>3. QED BY <1>2, <1>7, <1>11, <4>3, <5>1, <5>2
      <4>4. QED BY <1>2, <4>1, <4>2, <4>3
    <3>5. QED BY <3>2, <3>3, <3>4 DEF IdleInv, timer
  <2>3. QED BY <2>1, <2>2
<1>18. QuietInv'
  <2>1. CASE on \/ was \/ InFlight > 0
    BY <1>6, <2>1 DEF QuietInv
  <2>2. CASE ~(on \/ was \/ InFlight > 0)
    <3>1. history'.quiet = UpTo(quiet, Holdoff + 4) /\ ~sample /\ ~frame_event_sys
      BY <1>5, <1>6, <1>8, <2>2
    <3>2. history'.quiet >= 2 => quiet >= 1
      BY <1>2, <3>1 DEF UpTo
    <3>3. history'.quiet >= 2 => timer' = 0 \/ timer' + history'.quiet <= Holdoff + 2
      <4>1. CASE quiet < 2
        BY <1>2, <1>7, <3>1, <4>1 DEF UpTo
      <4>2. CASE quiet >= 2
        <5>1. timer' = IF timer # 0 THEN timer - 1 ELSE 0
          BY <1>7, <1>12, <3>1, <4>2
        <5>2. history'.quiet <= quiet + 1 /\ history'.quiet \in Nat
          BY <1>2, <3>1 DEF UpTo
        <5>3. QED BY <1>2, <1>12, <4>2, <5>1, <5>2
      <4>3. QED BY <1>2, <4>1, <4>2
    <3>4. QED BY <1>3, <1>12, <3>1, <3>2, <3>3 DEF QuietInv, timer
  <2>3. QED BY <2>1, <2>2
<1>19. QED BY <1>13, <1>14, <1>16, <1>17, <1>18 DEF LedInv

\* The activity LED is on while there is activity, for the hold-off after it
\* and not longer (hls_top.v:82-113, ethernet_status_hls.cpp:17-24), whatever
\* the phase of the clocks and however the samples of rx and tx fall.
THEOREM LedFollowsActivity == Spec => []LedShowsActivity
<1>1. LedInv /\ UNCHANGED vars => LedInv'
  BY DEF LedInv, LedType, LevelSettles, HighInv, IdleInv, QuietInv, Level, vars
<1>2. LedInv /\ [Next]_vars => LedInv'
  BY <1>1, EthEdgeKeepsLed, SystemEdgeKeepsLed DEF Next
<1>3. LedInv => LedShowsActivity
  BY CrossingAssumption
  DEF LedInv, LedType, HighInv, IdleInv, QuietInv, LedShowsActivity
<1>4. QED BY <1>2, <1>3, LedInit, PTL DEF Spec
=============================================================================
