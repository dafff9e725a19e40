---------------------------- MODULE ArpResponder ----------------------------
(***************************************************************************)
(* What the board promises the network, without rings, slots, nibbles or   *)
(* cycles.  Packets received wait in an inbox, frames to be sent wait in   *)
(* an outbox, both bounded and first in first out.  A request for the      *)
(* board is answered by the reply to it, once, unless the outbox is full   *)
(* at that moment; everything else received is thrown away.  Nothing but   *)
(* these replies and the periodic frames gets into the outbox.             *)
(***************************************************************************)
EXTENDS Naturals, Sequences

CONSTANTS
  InboxSize, OutboxSize,
  IsRequest(_),    \* a packet asks for the board's address
  Reply(_),        \* the frame that answers it
  IsPeriodic(_),   \* a frame the board sends on its own account
  OnWire(_)        \* what a station receives of a frame

VARIABLES
  inbox,
  outbox,
  received,        \* what the station received last
  delivered        \* it was the head of the outbox

vars == << inbox, outbox, received, delivered >>
postVars == << inbox, outbox, delivered >>

Nothing == << >>

----------------------------------------------------------------------------
(* Which frames are sent, and when. *)

PostInit ==
  /\ inbox = << >>
  /\ outbox = << >>
  /\ delivered = FALSE

\* Which packet is received is the network's business.
Receive ==
  /\ Len(inbox) < InboxSize
  /\ Len(inbox') = Len(inbox) + 1
  /\ SubSeq(inbox', 1, Len(inbox)) = inbox
  /\ UNCHANGED << outbox, delivered >>

Answer ==
  /\ inbox # << >> /\ IsRequest(Head(inbox))
  /\ Len(outbox) < OutboxSize
  /\ inbox' = Tail(inbox)
  /\ outbox' = Append(outbox, Reply(Head(inbox)))
  /\ UNCHANGED delivered

Decline ==
  /\ inbox # << >>
  /\ IsRequest(Head(inbox)) => Len(outbox) = OutboxSize
  /\ inbox' = Tail(inbox)
  /\ UNCHANGED << outbox, delivered >>

Announce ==
  /\ Len(outbox) < OutboxSize
  /\ Len(outbox') = Len(outbox) + 1
  /\ SubSeq(outbox', 1, Len(outbox)) = outbox
  /\ IsPeriodic(outbox'[Len(outbox')])
  /\ UNCHANGED << inbox, delivered >>

Deliver ==
  /\ outbox # << >> /\ ~delivered
  /\ delivered' = TRUE
  /\ UNCHANGED << inbox, outbox >>

\* The frame's place in the outbox is given up some time after its delivery.
Release ==
  /\ outbox # << >> /\ delivered
  /\ outbox' = Tail(outbox)
  /\ delivered' = FALSE
  /\ UNCHANGED inbox

PostNext == Receive \/ Answer \/ Decline \/ Announce \/ Deliver \/ Release

PostSpec == PostInit /\ [][PostNext]_postVars

----------------------------------------------------------------------------
(* And what the station receives when one is. *)

Init == PostInit /\ received = Nothing

Next ==
  \/ /\ Receive \/ Answer \/ Decline \/ Announce \/ Release
     /\ UNCHANGED received
  \/ /\ Deliver
     /\ received' = OnWire(Head(outbox))

Spec == Init /\ [][Next]_vars
=============================================================================
