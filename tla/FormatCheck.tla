----------------------------- MODULE FormatCheck -----------------------------
(***************************************************************************)
(* The formats byte for byte, with addresses of real size.  A behaviour is *)
(* either a datagram read through the packet views (Datagram) or a frame   *)
(* of the board read by the host of the hardware tests; an ARP reply is    *)
(* preceded by the host's request, which the board reads.                  *)
(***************************************************************************)
EXTENDS Datagram

CONSTANTS
  FPGA_MAC, BROADCAST_MAC, FPGA_IP, ARP_ETHERTYPE, DIAGNOSTIC_BEACON_ETHERTYPE,
  Hosts,    \* addresses of the host: records of mac and ip
  Counts    \* values of the seven counters of a beacon

VARIABLES
  stage,    \* of the exchange; NONE if a datagram is read
  host,
  request,  \* what the board sends
  frame,    \* the last frame on the wire, without preamble and FCS
  verdict   \* what the host takes it for

exchangeVars == << stage, host, request, frame, verdict >>
vars == << datagramVars, exchangeVars >>

Text == INSTANCE DiagnosticsBeacon
BeaconPayload(counts) == Text!BeaconPayload(counts)

Board == INSTANCE ProtocolFrames WITH
  BeaconText <- BeaconPayload,
  ArpRequestFields <- << 0, 1, 8, 0, 6, 4, 0, 1 >>,
  ArpReplyFields <- << 0, 1, 8, 0, 6, 4, 0, 2 >>

Format == INSTANCE WireFormat WITH MIN_ETH_FRAME_BODY_BYTES <- 60, PreambleBytes <- 7

Host == INSTANCE HostHelpers

Beacon(counts) == [Board!protocol_tx_beacon_request EXCEPT !.counts = counts]

PayloadOf(body) == [i \in 0 .. Len(body) - 15 |-> body[i + 15]]

Init ==
  /\ host \in Hosts
  /\ frame = << >>
  /\ verdict = {}
  /\ \/ /\ DatagramInit
        /\ host = CHOOSE h \in Hosts : TRUE
        /\ stage = "NONE" /\ request = Board!NoRequest
     \/ /\ bytes = CHOOSE b \in Buffers : TRUE
        /\ view = CHOOSE v \in Views : TRUE
        /\ ipv4 = NoIpv4(view) /\ udp = NoUdp(view) /\ read = 0
        /\ \/ stage = "ASK" /\ request = Board!NoRequest
           \/ stage = "SEND" /\ request = Board!protocol_tx_gratuitous_arp_request
           \/ stage = "SEND" /\ request \in { Beacon(counts) : counts \in Counts }

ReadDatagram == stage = "NONE" /\ DatagramNext /\ UNCHANGED exchangeVars

HostAsks ==
  /\ stage = "ASK"
  /\ stage' = "ASKED"
  /\ frame' = Host!build_arp_request(host.mac, host.ip)
  /\ UNCHANGED << datagramVars, host, request, verdict >>

BoardReads ==
  /\ stage = "ASKED"
  /\ LET arp == Board!ArpRequestInfo(PayloadOf(frame)) IN
       /\ arp.valid
       /\ request' = Board!ArpReplyRequest(arp.sender_mac, arp.sender_ip)
  /\ stage' = "SEND"
  /\ UNCHANGED << datagramVars, host, frame, verdict >>

\* All bytes of the preparation at once, then what the framer adds.
BoardSends ==
  /\ stage = "SEND"
  /\ stage' = "SENT"
  /\ frame' = Format!Pad([i \in 1 .. request.len |-> Board!FrameBodyByte(request, i - 1)])
  /\ UNCHANGED << datagramVars, host, request, verdict >>

HostReads ==
  /\ stage = "SENT"
  /\ stage' = "READ"
  /\ LET parsed == Host!parse_frame(frame) IN
     verdict' = { kind \in {"BEACON", "GRATUITOUS_ARP", "ARP_REPLY"} :
                    CASE kind = "BEACON"         -> Host!is_beacon(parsed)
                      [] kind = "GRATUITOUS_ARP" -> Host!is_gratuitous_arp_reply(parsed)
                      [] kind = "ARP_REPLY"      ->
                           Host!is_arp_reply_to(parsed, host.mac, host.ip) }
  /\ UNCHANGED << datagramVars, host, request, frame >>

Next == ReadDatagram \/ HostAsks \/ BoardReads \/ BoardSends \/ HostReads

Spec == Init /\ [][Next]_vars

----------------------------------------------------------------------------
(* Properties. *)

\* The board reads the request of the hardware tests, and they recognise
\* every frame of the board as what it is and as nothing else
\* (ethernet.py:62-171).  The one exception is a host whose IP ends in a zero
\* byte: parse_frame strips that byte with the padding (line 82), and what
\* is left is too short for an ARP packet (line 88).
HostRecognisesFrames ==
  /\ stage = "ASKED" =>
       Board!ArpRequestInfo(PayloadOf(frame))
         = [valid |-> TRUE, sender_mac |-> host.mac, sender_ip |-> host.ip]
  /\ stage = "READ" =>
       verdict = IF request.kind = "ARP_REPLY" /\ host.ip[4] = 0 THEN {}
                 ELSE {request.kind}

DigitValue(byte) == IF byte <= 57 THEN byte - 48 ELSE byte - 55

Half(text) ==
  4096 * DigitValue(text[1]) + 256 * DigitValue(text[2])
    + 16 * DigitValue(text[3]) + DigitValue(text[4])

Number(text) ==
  LET high == Half(text)
  IN  65536 * (IF high < 32768 THEN high ELSE high - 65536) + Half(SubSeq(text, 5, 8))

\* The numbers the host finds under the names RX to UP are the counters of
\* the request, all 32 bits of them (ethernet_tx_payloads.h:143-257).
BeaconTellsCounts ==
  stage = "READ" /\ "BEACON" \in verdict =>
    LET fields == Host!Words(Host!parse_frame(frame).payload)
    IN  request.counts = [k \in 1 .. 7 |-> Number(Host!Value(fields[k + 3]))]
=============================================================================
