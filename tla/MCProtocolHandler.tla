------------------------- MODULE MCProtocolHandler -------------------------
(* One-byte addresses, EtherTypes and counters; two fixed ARP bytes.       *)
EXTENDS ProtocolHandlerEnv, TLC

MCFpgaMac == << 2 >>
MCBroadcast == << 255 >>
MCFpgaIp == << 100 >>
MCArpType == << 6 >>
MCBeaconType == << 181 >>
MCRequestFields == << 8, 1 >>
MCReplyFields == << 8, 2 >>
MCBeaconText(counts) == [i \in 1 .. 7 |-> 48 + counts[i]]

Packet(dst, type, bytes, len, truncated) ==
  [meta  |-> [header |-> (0 :> dst @@ 1 :> 7 @@ 2 :> type),
              payload_len |-> len, truncated |-> truncated],
   bytes |-> [i \in PayloadIndex |-> bytes[i + 1]]]

\* The bytes are: fields, sender MAC, sender IP, target MAC, target IP.
MCRequest == Packet(255, 6, << 8, 1, 7, 10, 0, 100 >>, 6, FALSE)
MCUnicastRequest == Packet(2, 6, << 8, 1, 9, 100, 3, 100 >>, 6, FALSE)
MCForAnother == Packet(255, 6, << 8, 1, 9, 11, 3, 101 >>, 6, FALSE)
MCReply == Packet(2, 6, << 8, 2, 7, 10, 0, 100 >>, 6, FALSE)
MCOtherStation == Packet(3, 6, << 8, 1, 7, 10, 0, 100 >>, 6, FALSE)
MCShort == Packet(2, 6, << 8, 1, 7, 10, 0, 100 >>, 5, FALSE)
MCTruncated == Packet(2, 6, << 8, 1, 7, 10, 0, 100 >>, 6, TRUE)
MCNotArp == Packet(2, 0, << 8, 1, 7, 10, 0, 100 >>, 6, FALSE)

MCPackets == {MCRequest, MCForAnother}
MCMorePackets ==
  {MCUnicastRequest, MCReply, MCShort, MCTruncated, MCNotArp, MCOtherStation}
=============================================================================
