--------------------------- MODULE ProtocolFrames ---------------------------
(***************************************************************************)
(* The packets the handler reads and the frames it sends: arp.h,           *)
(* protocol_helpers.h and ethernet_tx_payloads.h.                          *)
(*                                                                         *)
(* Addresses, EtherTypes and the fixed fields of an ARP packet are byte    *)
(* sequences given as constants, so that TLC can use short ones; so is the *)
(* payload of a beacon, of which the handler knows only its length and the *)
(* order of its counts.                                                    *)
(***************************************************************************)
EXTENDS Integers, Sequences

CONSTANTS
  FPGA_MAC, BROADCAST_MAC,      \* 6 bytes each
  FPGA_IP,                      \* 4 bytes
  ARP_ETHERTYPE, DIAGNOSTIC_BEACON_ETHERTYPE,   \* 2 bytes each
  ArpRequestFields,             \* the first 8 bytes of a request: hardware and
  ArpReplyFields,               \*   protocol type and length, opcode; of a reply
  BeaconText(_)                 \* the payload of a beacon, from its seven counts

MacBytes == Len(FPGA_MAC)
IpBytes == Len(FPGA_IP)
ETH_HEADER_BYTES == 2 * MacBytes + Len(ARP_ETHERTYPE)
ARP_PAYLOAD_BYTES == Len(ArpRequestFields) + 2 * (MacBytes + IpBytes)

\* Where the fields of an ARP packet start.
SenderMacAt == Len(ArpRequestFields)
SenderIpAt == SenderMacAt + MacBytes
TargetMacAt == SenderIpAt + IpBytes
TargetIpAt == TargetMacAt + MacBytes

\* n bytes from an array whose first index is 0.
Field(bytes, at, n) == [k \in 1 .. n |-> bytes[at + k - 1]]

Zeros(n) == [k \in 1 .. n |-> 0]

----------------------------------------------------------------------------
(* What is sent. *)

NoCounts == Zeros(7)

ASSUME FramesAssumption ==
  /\ FPGA_MAC \in Seq(Nat) \ {<< >>}
  /\ BROADCAST_MAC \in Seq(Nat) /\ FPGA_IP \in Seq(Nat)
  /\ ARP_ETHERTYPE \in Seq(Nat) /\ DIAGNOSTIC_BEACON_ETHERTYPE \in Seq(Nat)
  /\ ArpRequestFields \in Seq(Nat) /\ ArpReplyFields \in Seq(Nat)
  /\ BeaconText(NoCounts) \in Seq(Nat)

\* All addresses of a kind, all EtherTypes, and the fixed fields of a request
\* and of a reply have the same width.
ASSUME WidthsAssumption ==
  /\ Len(BROADCAST_MAC) = MacBytes
  /\ Len(DIAGNOSTIC_BEACON_ETHERTYPE) = Len(ARP_ETHERTYPE)
  /\ Len(ArpReplyFields) = Len(ArpRequestFields)

Request(kind, dst, ethertype, len, mac, ip) ==
  [valid |-> TRUE, kind |-> kind, len |-> len,
   header |-> [dst_mac |-> dst, src_mac |-> FPGA_MAC, ethertype |-> ethertype],
   arp_requester_mac |-> mac, arp_requester_ip |-> ip, counts |-> NoCounts]

ArpReplyPayload(mac, ip) == ArpReplyFields \o FPGA_MAC \o FPGA_IP \o mac \o ip

\* Seeded fault: announcements are taken for beacons.
protocol_tx_payload_byte_NoGratuitous(request, i) ==
  IF request.kind = "ARP_REPLY"
    THEN ArpReplyPayload(request.arp_requester_mac, request.arp_requester_ip)[i + 1]
    ELSE BeaconText(request.counts)[i + 1]

protocol_tx_payload_byte(request, i) ==
  IF request.kind \in {"ARP_REPLY", "GRATUITOUS_ARP"}
    THEN ArpReplyPayload(request.arp_requester_mac, request.arp_requester_ip)[i + 1]
    ELSE BeaconText(request.counts)[i + 1]

ethernet_header_byte(header, i) ==
  (header.dst_mac \o header.src_mac \o header.ethertype)[i + 1]

FrameBodyByte(request, i) ==
  IF i < ETH_HEADER_BYTES THEN ethernet_header_byte(request.header, i)
  ELSE protocol_tx_payload_byte(request, i - ETH_HEADER_BYTES)

protocol_tx_frame_body_len(kind) ==
  ETH_HEADER_BYTES + (IF kind = "BEACON" THEN Len(BeaconText(NoCounts))
                                         ELSE ARP_PAYLOAD_BYTES)

protocol_tx_gratuitous_arp_request ==
  Request("GRATUITOUS_ARP", BROADCAST_MAC, ARP_ETHERTYPE,
          protocol_tx_frame_body_len("GRATUITOUS_ARP"), BROADCAST_MAC, FPGA_IP)

ArpReplyRequest(mac, ip) ==
  Request("ARP_REPLY", mac, ARP_ETHERTYPE,
          protocol_tx_frame_body_len("ARP_REPLY"), mac, ip)

protocol_tx_beacon_request ==
  Request("BEACON", BROADCAST_MAC, DIAGNOSTIC_BEACON_ETHERTYPE,
          protocol_tx_frame_body_len("BEACON"), Zeros(MacBytes), Zeros(IpBytes))

NoRequest ==
  [Request("NONE", Zeros(MacBytes), ARP_ETHERTYPE, 0, Zeros(MacBytes), Zeros(IpBytes))
     EXCEPT !.valid = FALSE]

----------------------------------------------------------------------------
(* The reference: what an ARP packet means, stated on its bytes at once    *)
(* (parse_arp_ipv4_request of arp.h, which the handler does not call).     *)

ArpRequestInfo(bytes) ==
  [valid      |-> /\ Field(bytes, 0, Len(ArpRequestFields)) = ArpRequestFields
                  /\ Field(bytes, TargetIpAt, IpBytes) = FPGA_IP,
   sender_mac |-> Field(bytes, SenderMacAt, MacBytes),
   sender_ip  |-> Field(bytes, SenderIpAt, IpBytes)]

\* The frame body that answers a request: Ethernet header and ARP reply.
ArpReplyBody(info) ==
  info.sender_mac \o FPGA_MAC \o ARP_ETHERTYPE
    \o ArpReplyFields \o FPGA_MAC \o FPGA_IP \o info.sender_mac \o info.sender_ip

GratuitousArpBody ==
  BROADCAST_MAC \o FPGA_MAC \o ARP_ETHERTYPE
    \o ArpReplyFields \o FPGA_MAC \o FPGA_IP \o BROADCAST_MAC \o FPGA_IP

BeaconBody(counts) ==
  BROADCAST_MAC \o FPGA_MAC \o DIAGNOSTIC_BEACON_ETHERTYPE \o BeaconText(counts)
=============================================================================
