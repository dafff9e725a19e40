--------------------------- MODULE StatusCrossing ---------------------------
(***************************************************************************)
(* From the endpoint to the LEDs: tx_frame_toggle and the two activity     *)
(* levels leave the eth_rx_clk domain, pass the synchronisers of hls_top.v *)
(* on CLK100MHZ and drive ethernet_status_hls.  The clocks are unrelated:  *)
(* any number of system edges between two bounds may fall between two eth  *)
(* edges, and the first of them may take the old or the new value of what  *)
(* changed.                                                                *)
(***************************************************************************)
EXTENDS Naturals

CONSTANTS
  CounterMod,          \* 2^32
  Holdoff,             \* 12500000 cycles
  MinEdges, MaxEdges   \* system edges per eth cycle: 3 to 5 around 100/25

ASSUME CrossingAssumption ==
  /\ CounterMod \in Nat /\ CounterMod > 3
  /\ Holdoff \in Nat /\ Holdoff > 1   \* bridges a sample between rx and tx
  /\ MinEdges \in Nat /\ MinEdges >= 2
  /\ MaxEdges \in Nat /\ MaxEdges >= MinEdges

VARIABLES
  source,      \* outputs of the endpoint: tx_frame_toggle, rx_active, tx_active
  before,      \* what the next system edge may still take for them
  edges,       \* system edges since the last eth edge
  tx_frame_toggle_sync, activity_sync,   \* shift registers, newest bit first
  frame_count, activity_holdoff,         \* of ethernet_status_hls
  history      \* for the properties: frames sent; system edges for which the
               \* activity has been high; since it was high; since it or a
               \* frame on its way may last have been seen

vars == << source, before, edges, tx_frame_toggle_sync, activity_sync,
           frame_count, activity_holdoff, history >>

Bit == 0 .. 1

Bump(n) == IF n + 1 < CounterMod THEN n + 1 ELSE 0

Init ==
  /\ source = [toggle |-> 0, rx |-> FALSE, tx |-> FALSE]
  /\ before = source
  /\ edges = 0
  /\ tx_frame_toggle_sync = << 0, 0, 0 >>
  /\ activity_sync = << FALSE, FALSE >>
  /\ frame_count = 0
  /\ activity_holdoff = 0
  /\ history = [frames |-> 0, high |-> 0, idle |-> Holdoff + 4, quiet |-> Holdoff + 4]

----------------------------------------------------------------------------
(* The eth domain: tx_frame_toggle and tx_active as the framer drives them *)
(* (ethernet_framer.h:164-195 at the end of a frame), rx_active as the     *)
(* receive step does (ethernet_rx_queue.h:30).  More is allowed than they  *)
(* do: a frame may end and activity may come and go at any edge, while the *)
(* framer needs a whole frame and a gap from one flip to the next.         *)

EthEdge ==
  \E flip \in Bit, rx, tx \in BOOLEAN :
    /\ edges >= MinEdges
    /\ edges' = 0
    /\ before' = source
    /\ source' = [toggle |-> IF flip = 1 THEN 1 - source.toggle ELSE source.toggle,
                  rx |-> rx, tx |-> tx]
    /\ history' = IF flip = 1 THEN [history EXCEPT !.frames = Bump(@)] ELSE history
    /\ UNCHANGED << tx_frame_toggle_sync, activity_sync, frame_count, activity_holdoff >>

----------------------------------------------------------------------------
(* The system domain. *)

Level(s) == s.rx \/ s.tx

\* Seeded fault: the event is taken where the toggle may not have settled.
frame_event_sys_Early == source.toggle # tx_frame_toggle_sync[1]

frame_event_sys == tx_frame_toggle_sync[3] # tx_frame_toggle_sync[2]

\* Seeded fault: a hold-off that runs is not restarted.
ethernet_status_hls_NoReload ==
  /\ frame_count' = IF frame_event_sys THEN Bump(frame_count) ELSE frame_count
  /\ activity_holdoff' = IF activity_holdoff # 0 THEN activity_holdoff - 1
                         ELSE IF frame_event_sys \/ activity_sync[2] THEN Holdoff
                         ELSE 0

\* One call per system clock.  The block has no PIPELINE pragma; were it
\* called less often, an event of one cycle could pass unseen.
ethernet_status_hls ==
  /\ frame_count' = IF frame_event_sys THEN Bump(frame_count) ELSE frame_count
  /\ activity_holdoff' = IF frame_event_sys \/ activity_sync[2] THEN Holdoff
                         ELSE IF activity_holdoff # 0 THEN activity_holdoff - 1
                         ELSE 0

Differ(a, b) == IF a # b THEN 1 ELSE 0

\* Flips that have not been counted yet, one per place where the toggle and
\* its copies differ.
InFlight ==
  Differ(source.toggle, tx_frame_toggle_sync[1])
    + Differ(tx_frame_toggle_sync[1], tx_frame_toggle_sync[2])
    + Differ(tx_frame_toggle_sync[2], tx_frame_toggle_sync[3])

UpTo(n, bound) == IF n < bound THEN n + 1 ELSE bound

Observe ==
  [history EXCEPT
     !.high = IF Level(source) THEN UpTo(@, 4) ELSE 0,
     !.idle = IF Level(source) THEN 0 ELSE UpTo(@, Holdoff + 4),
     !.quiet = IF Level(source) \/ Level(before) \/ InFlight > 0
                 THEN 0 ELSE UpTo(@, Holdoff + 4)]

SystemEdge ==
  \E toggle \in {before.toggle, source.toggle},
     rx \in {before.rx, source.rx}, tx \in {before.tx, source.tx} :
    /\ edges < MaxEdges
    /\ edges' = edges + 1
    /\ tx_frame_toggle_sync' = << toggle, tx_frame_toggle_sync[1], tx_frame_toggle_sync[2] >>
    /\ activity_sync' = << rx \/ tx, activity_sync[1] >>
    /\ ethernet_status_hls
    /\ before' = source
    /\ history' = Observe
    /\ UNCHANGED source

Next == EthEdge \/ SystemEdge

Spec == Init /\ [][Next]_vars

----------------------------------------------------------------------------
(* Properties. *)

Wrapped(n) == IF n < CounterMod THEN n ELSE n - CounterMod

\* Frames sent are the frames counted and those whose flip is under way in
\* the synchroniser (hls_top.v:89-98, ethernet_status_hls.cpp:15): whatever
\* the phase of the clocks and whichever way a sample falls, no flip is lost
\* or counted twice.
EveryFrameCounted == history.frames = Wrapped(frame_count + InFlight)

\* led[0] (ethernet_status_hls.cpp:24) tells what went on on the wire: it is
\* on during activity and for the whole hold-off after it, also after a
\* pulse of one eth cycle, and goes out when the hold-off is over.
LedShowsActivity ==
  /\ history.high >= 4 \/ history.idle \in 2 .. Holdoff + 1 => activity_holdoff # 0
  /\ history.quiet > Holdoff + 1 => activity_holdoff = 0
=============================================================================
