------------------------------ MODULE Datagram ------------------------------
(***************************************************************************)
(* A payload read with the parsers of packet_views.h, the way they are cut *)
(* out for: first as IPv4, then, if it is whole and UDP, as UDP in the     *)
(* view the first one left.  The buffer is never cleared: around the view  *)
(* lies whatever was received before.                                      *)
(***************************************************************************)
EXTENDS PacketViews, Sequences

CONSTANTS
  Buffers,   \* contents of the payload buffer
  Views      \* ranges of it that hold what was received

ASSUME DatagramAssumption ==
  /\ Buffers \subseteq [0 .. MAX_ETH_PAYLOAD_BYTES - 1 -> Byte]
  /\ Views \subseteq LegalViews

VARIABLES
  bytes, view,
  ipv4, udp,    \* what the parsers returned
  read          \* how many of them have been called

datagramVars == << bytes, view, ipv4, udp, read >>

IPV4_PROTOCOL_UDP == 17

DatagramInit ==
  /\ bytes \in Buffers
  /\ view \in Views
  /\ ipv4 = NoIpv4(view)
  /\ udp = NoUdp(view)
  /\ read = 0

ReadIpv4 ==
  /\ read = 0
  /\ read' = 1
  /\ ipv4' = parse_ipv4_view(bytes, view)
  /\ UNCHANGED << bytes, view, udp >>

ReadUdp ==
  /\ read = 1
  /\ ipv4.valid /\ ipv4_is_unfragmented(ipv4)
  /\ ipv4.protocol = IPV4_PROTOCOL_UDP
  /\ read' = 2
  /\ udp' = parse_udp_view(bytes, ipv4.payload_view)
  /\ UNCHANGED << bytes, view, ipv4 >>

DatagramNext == ReadIpv4 \/ ReadUdp

DatagramSpec == DatagramInit /\ [][DatagramNext]_datagramVars

----------------------------------------------------------------------------
(* The reference: what the sender of these bytes meant. *)

Content(v) == [k \in 1 .. v.len |-> bytes[v.offset + k - 1]]

Word(s, k) == 256 * s[k] + s[k + 1]

\* s is an IPv4 header of h bytes, n bytes of data, and padding.
IsIpv4(s, h, n) ==
  /\ h + n <= Len(s)
  /\ s[1] = 64 + h \div 4
  /\ Word(s, 3) = h + n

IsUdp(s, n) == 8 + n <= Len(s) /\ Word(s, 5) = 8 + n

----------------------------------------------------------------------------
(* Properties. *)

\* packet_views.h:41-119: a view is parsed as what its sender meant or not
\* at all, whatever surrounds it in the buffer: the lengths are those of the
\* headers, options are skipped, padding and bytes outside are left out.
DatagramIsRead ==
  LET s == Content(view)
      t == Content(ipv4.payload_view)
      headers == { 4 * ihl : ihl \in 5 .. 15 }
  IN
  /\ read > 0 =>
       /\ ipv4.valid <=> \E h \in headers, n \in 0 .. Len(s) : IsIpv4(s, h, n)
       /\ \A h \in headers, n \in 0 .. Len(s) : IsIpv4(s, h, n) =>
            /\ t = SubSeq(s, h + 1, h + n)
            /\ ipv4.src_ip = SubSeq(s, 13, 16) /\ ipv4.dst_ip = SubSeq(s, 17, 20)
            /\ ipv4.protocol = s[10]
            /\ ipv4_is_unfragmented(ipv4) <=> s[7] \in {0, 64, 128, 192} /\ s[8] = 0
  /\ read > 1 =>
       /\ udp.valid <=> \E n \in 0 .. Len(t) : IsUdp(t, n)
       /\ \A n \in 0 .. Len(t) : IsUdp(t, n) =>
            /\ Content(udp.payload_view) = SubSeq(t, 9, 8 + n)
            /\ udp.src_port = Word(t, 1) /\ udp.dst_port = Word(t, 3)

\* v is w without its first n bytes, or less.
Within(v, w, n) ==
  /\ w.offset + n <= v.offset
  /\ v.offset + v.len <= w.offset + w.len

\* A parsed view lies behind its header and inside the view it was parsed
\* from (packet_views.h:79-80, 116-117): no 11-bit offset wraps and no
\* length of the packet leads outside what was received.  A view that was
\* not parsed is empty.
ViewsNest ==
  /\ IF ipv4.valid THEN Within(ipv4.payload_view, view, IPV4_HEADER_BYTES)
                   ELSE ipv4.payload_view.len = 0
  /\ IF udp.valid THEN Within(udp.payload_view, ipv4.payload_view, UDP_HEADER_BYTES)
                  ELSE udp.payload_view.len = 0
=============================================================================
