----------------------------- MODULE PacketViews -----------------------------
(***************************************************************************)
(* packet_views.h: IPv4 and UDP headers read in place.  A view is a range  *)
(* of the payload buffer; parsing one yields a narrower one.  Offsets and  *)
(* lengths are ap_uint<11>, the lengths inside the packet are 16 bits.     *)
(* A 32-bit address is its four bytes.                                     *)
(***************************************************************************)
EXTENDS Integers

CONSTANT MAX_ETH_PAYLOAD_BYTES   \* 1500

ASSUME BufferAssumption == MAX_ETH_PAYLOAD_BYTES \in 1 .. 2047

IPV4_HEADER_BYTES == 20
UDP_HEADER_BYTES == 8

Byte == 0 .. 255
Word16 == 0 .. 65535
Index == 0 .. 2047   \* ap_uint<11>

LegalViews ==
  { r \in [offset : Index, len : Index] : r.offset + r.len <= MAX_ETH_PAYLOAD_BYTES }

View(offset, len) == [offset |-> offset % 2048, len |-> len % 2048]

\* The index is an ap_uint<11>, the one after it is not.
read_be16(bytes, index) == 256 * bytes[index % 2048] + bytes[(index % 2048) + 1]

read_be32(bytes, index) == [k \in 1 .. 4 |-> bytes[(index % 2048) + k - 1]]

NoIpv4(view) ==
  [valid |-> FALSE, header_len |-> 0, total_len |-> 0, protocol |-> 0,
   flags_fragment |-> 0, src_ip |-> [k \in 1 .. 4 |-> 0],
   dst_ip |-> [k \in 1 .. 4 |-> 0], payload_view |-> View(view.offset, 0)]

\* Seeded fault: a total length beyond the view is taken.
Ipv4Lengths_AnyTotal(bytes, view) ==
  LET version_ihl == bytes[view.offset]
      header_bytes == 4 * (version_ihl % 16)
      total_len == read_be16(bytes, view.offset + 2)
  IN  /\ version_ihl \div 16 = 4 /\ version_ihl % 16 >= 5
      /\ header_bytes <= view.len
      /\ total_len >= header_bytes

Ipv4Lengths(bytes, view) ==
  LET version_ihl == bytes[view.offset]
      header_bytes == 4 * (version_ihl % 16)
      total_len == read_be16(bytes, view.offset + 2)
  IN  /\ version_ihl \div 16 = 4 /\ version_ihl % 16 >= 5
      /\ header_bytes <= view.len
      /\ total_len >= header_bytes /\ total_len <= view.len

parse_ipv4_view(bytes, view) ==
  LET base == view.offset
      ihl == bytes[base] % 16
      total_len == read_be16(bytes, base + 2)
  IN
  IF view.len < IPV4_HEADER_BYTES THEN NoIpv4(view)
  ELSE IF ~Ipv4Lengths(bytes, view) THEN NoIpv4(view)
  ELSE [valid          |-> TRUE,
        header_len     |-> ihl,
        total_len      |-> total_len,
        protocol       |-> bytes[base + 9],
        flags_fragment |-> read_be16(bytes, base + 6),
        src_ip         |-> read_be32(bytes, base + 12),
        dst_ip         |-> read_be32(bytes, base + 16),
        payload_view   |-> View(base + 4 * ihl, total_len - 4 * ihl)]

\* Neither more fragments to come nor an offset: flags & 0x3fff.
ipv4_is_unfragmented(ipv4) == ipv4.flags_fragment % 16384 = 0

NoUdp(view) ==
  [valid |-> FALSE, src_port |-> 0, dst_port |-> 0, length |-> 0,
   payload_view |-> View(view.offset, 0)]

\* Seeded fault: only the length of the UDP header is asked for.
UdpLength_AnyLonger(bytes, view) == read_be16(bytes, view.offset + 4) >= UDP_HEADER_BYTES

UdpLength(bytes, view) ==
  read_be16(bytes, view.offset + 4) \in UDP_HEADER_BYTES .. view.len

parse_udp_view(bytes, view) ==
  LET base == view.offset
      udp_len == read_be16(bytes, base + 4)
  IN
  IF view.len < UDP_HEADER_BYTES THEN NoUdp(view)
  ELSE IF ~UdpLength(bytes, view) THEN NoUdp(view)
  ELSE [valid        |-> TRUE,
        src_port     |-> read_be16(bytes, base),
        dst_port     |-> read_be16(bytes, base + 2),
        length       |-> udp_len,
        payload_view |-> View(base + UDP_HEADER_BYTES, udp_len - UDP_HEADER_BYTES)]
=============================================================================
