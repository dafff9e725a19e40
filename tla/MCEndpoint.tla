----------------------------- MODULE MCEndpoint -----------------------------
(* The endpoint with one-byte addresses, EtherTypes and counters and one   *)
(* fixed ARP byte: headers of 3 bytes, ARP packets of 5, beacons of 14.     *)
EXTENDS Endpoint

MCFpgaMac == << 2 >>
MCBroadcast == << 255 >>
MCFpgaIp == << 100 >>
MCArpType == << 6 >>
MCBeaconType == << 181 >>
MCRequestFields == << 1 >>
MCReplyFields == << 2 >>
MCBeaconText(counts) ==
  [i \in 1 .. 14 |-> IF i % 2 = 1 THEN 48 ELSE 48 + counts[i \div 2]]

\* destination, source, type; opcode, sender MAC and IP, target MAC and IP;
\* the FCS is stripped without being looked at.
MCRequest == << 255, 7, 6, 1, 7, 10, 0, 100, 170 >>
MCOtherRequest == << 2, 9, 6, 1, 9, 11, 3, 100, 170 >>
MCForAnother == << 255, 9, 6, 1, 9, 11, 3, 101, 170 >>
MCRunt == << 2, 9, 6, 170 >>

MCFrames == { MCRequest, MCOtherRequest, MCRunt }
MCFirstPauses == { 0 }
MCPauses == { 0, 9 }

\* Full line rate, in every phase of the beacon timer.
MCRateFrames == { MCRequest, MCRunt }
MCRateFirstPauses == 0 .. 39
MCRatePauses == { 0 }
=============================================================================
