------------------------------ MODULE MCFormats ------------------------------
(* Datagrams of at most 72 bytes, whose length fields may lie, at one of    *)
(* two places in a buffer of other bytes.                                   *)
EXTENDS FormatCheck, TLC

MCFpgaMac == << 2, 0, 0, 0, 0, 1 >>
MCBroadcast == << 255, 255, 255, 255, 255, 255 >>
MCFpgaIp == << 192, 168, 1, 100 >>
MCArpType == << 8, 6 >>
MCBeaconType == << 136, 181 >>

\* As udp_request_frame of the test bench builds it, with options if ihl > 5.
MCPacket(version_ihl, total, flags, protocol, udp_len) ==
  << version_ihl, 0, total \div 256, total % 256, 18, 52, flags, 0, 64, protocol, 0, 0 >>
    \o << 192, 168, 1, 10, 192, 168, 1, 100 >>
    \o [i \in 1 .. IF version_ihl % 16 > 5 THEN 4 * (version_ihl % 16) - 20 ELSE 0 |-> i]
    \o << 192, 0, 156, 64, udp_len \div 256, udp_len % 256, 0, 0 >>
    \o << 104, 101, 108, 108, 111, 33, 0, 1 >>

\* 0x45 and 0x14 among the bytes around it.
MCStale(i) == (69 + 227 * i) % 256

MCBuffer(packet, at) ==
  [i \in 0 .. MAX_ETH_PAYLOAD_BYTES - 1 |->
     IF i - at + 1 \in 1 .. Len(packet) THEN packet[i - at + 1] ELSE MCStale(i)]

\* Flags and protocol: whole, do not fragment, more to come, not the first.
MCKinds == { << 0, 17 >>, << 64, 17 >>, << 32, 17 >>, << 16, 17 >>, << 0, 6 >> }

MCBuffers ==
  { MCBuffer(MCPacket(version_ihl, total, kind[1], kind[2], udp_len), at) :
      version_ihl \in {68, 69, 70, 79, 101}, total \in {19, 20, 27, 28, 36, 40, 76, 292},
      kind \in MCKinds, udp_len \in {0, 7, 8, 12, 16, 17, 272}, at \in {0, 3} }

MCViews == [offset : {0, 3}, len : {19, 20, 28, 36, 40, 80}]

MCHosts ==
  [mac : { << 2, 17, 34, 51, 68, 85 >>, << 0, 27, 33, 0, 0, 0 >> },
   ip  : { << 192, 168, 1, 10 >>, << 192, 168, 0, 1 >>, << 10, 1, 2, 0 >>, << 10, 0, 0, 255 >> }]

\* 0x01234567, 0x89ABCDEF, 0xFFFFFFFF, 0x80000000.
MCValues == {0, 9, 10, 19088743, -1985229329, -1, -2147483647 - 1}

MCCounts ==
  { [k \in 1 .. 7 |-> IF k = place THEN value ELSE 16 * k] :
      place \in 1 .. 7, value \in MCValues }
=============================================================================
