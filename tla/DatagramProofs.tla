--------------------------- MODULE DatagramProofs ---------------------------
(***************************************************************************)
(* Whatever the bytes of a packet say of their own lengths, the parsed     *)
(* views stay inside what was received: proved for every buffer and view.  *)
(***************************************************************************)
EXTENDS Datagram, TLAPS

BufferType == [0 .. MAX_ETH_PAYLOAD_BYTES - 1 -> Byte]

\* A view is two numbers that stay within the buffer.
LEMMA LegalView ==
  ASSUME NEW v \in LegalViews
  PROVE  v.offset \in Nat /\ v.len \in Nat /\ v.offset + v.len <= MAX_ETH_PAYLOAD_BYTES
<1>1. v \in [offset : Index, len : Index] /\ v.offset + v.len <= MAX_ETH_PAYLOAD_BYTES
  BY Zenon DEF LegalViews
<1>2. \A n \in Index : n \in Nat
  BY DEF Index
<1> QED
  BY <1>1, <1>2, Zenon

\* 16-bit numbers are natural numbers.
LEMMA WordIsNat == \A n \in Word16 : n \in Nat
<1>1. \A m \in Nat : \A n \in 0 .. m : n \in Nat
  OBVIOUS
<1>2. QED BY ONLY <1>1, SMTT(30) DEF Word16

\* Two bytes inside the buffer make a 16-bit number.
LEMMA Be16Type ==
  ASSUME NEW b \in BufferType, NEW i \in Nat, i + 1 < MAX_ETH_PAYLOAD_BYTES
  PROVE  read_be16(b, i) \in Word16
<1>1. i % 2048 = i /\ i \in 0 .. MAX_ETH_PAYLOAD_BYTES - 1 /\ i + 1 \in 0 .. MAX_ETH_PAYLOAD_BYTES - 1
  BY BufferAssumption
<1>2. b[i] \in Byte /\ b[i + 1] \in Byte
  <2>1. \A k \in 0 .. MAX_ETH_PAYLOAD_BYTES - 1 : b[k] \in Byte
    BY DEF BufferType
  <2>2. QED BY <1>1, <2>1
<1>3. read_be16(b, i) = 256 * b[i] + b[i + 1]
  BY <1>1 DEF read_be16
<1>4. ASSUME NEW x \in Byte, NEW y \in Byte PROVE 256 * x + y \in Word16
  BY SMTT(30) DEF Byte, Word16
<1>5. 256 * b[i] + b[i + 1] \in Word16
  BY <1>2, <1>4, Zenon
<1> QED
  BY <1>3, <1>5, Zenon

\* A view that does not reach beyond the buffer is kept as it is.
LEMMA ViewIsExact ==
  ASSUME NEW o \in Nat, NEW n \in Nat, o + n <= MAX_ETH_PAYLOAD_BYTES
  PROVE  /\ View(o, n) = [offset |-> o, len |-> n]
         /\ View(o, n) \in LegalViews
<1>1. o % 2048 = o /\ n % 2048 = n /\ o \in Index /\ n \in Index
  BY BufferAssumption DEF Index
<1>2. View(o, n) = [offset |-> o, len |-> n]
  BY <1>1 DEF View
<1> QED
  BY <1>1, <1>2 DEF LegalViews

\* Of a view of len bytes at offset, the part from from to to.
LEMMA PartInside ==
  ASSUME NEW offset \in Nat, NEW len \in Nat, NEW from \in Nat, NEW to \in Nat,
         offset + len <= MAX_ETH_PAYLOAD_BYTES, from <= to, to <= len
  PROVE  /\ offset + from \in Nat /\ to - from \in Nat
         /\ (offset + from) + (to - from) <= MAX_ETH_PAYLOAD_BYTES
         /\ (offset + from) + (to - from) <= offset + len
  BY BufferAssumption

\* An IPv4 payload lies behind a header inside the view it was found in.
LEMMA Ipv4Nests ==
  ASSUME NEW b \in BufferType, NEW v \in LegalViews
  PROVE  LET p == parse_ipv4_view(b, v)
         IN  /\ p.payload_view \in LegalViews
             /\ IF p.valid THEN Within(p.payload_view, v, IPV4_HEADER_BYTES)
                           ELSE p.payload_view.len = 0
<1> DEFINE p == parse_ipv4_view(b, v)
           ihl == b[v.offset] % 16
           total == read_be16(b, v.offset + 2)
<1>1. v.offset \in Nat /\ v.len \in Nat /\ v.offset + v.len <= MAX_ETH_PAYLOAD_BYTES
  BY LegalView
<1>2. NoIpv4(v).payload_view \in LegalViews /\ ~NoIpv4(v).valid /\ NoIpv4(v).payload_view.len = 0
  <2>1. View(v.offset, 0) = [offset |-> v.offset, len |-> 0] /\ View(v.offset, 0) \in LegalViews
    BY <1>1, ViewIsExact, BufferAssumption
  <2> QED
    BY <2>1 DEF NoIpv4
<1>3. CASE v.len < IPV4_HEADER_BYTES \/ ~Ipv4Lengths(b, v)
  <2>1. p = NoIpv4(v)
    BY <1>3 DEF parse_ipv4_view
  <2> QED
    BY <1>2, <2>1
<1>4. CASE ~(v.len < IPV4_HEADER_BYTES) /\ Ipv4Lengths(b, v)
  <2>1. b[v.offset] \in 0 .. 255
    <3>1. v.offset \in 0 .. MAX_ETH_PAYLOAD_BYTES - 1
      BY <1>1, <1>4, BufferAssumption DEF IPV4_HEADER_BYTES
    <3> QED
      BY <3>1 DEF BufferType, Byte
  <2>2. ihl \in 0 .. 15
    BY <2>1
  <2>3. total \in Word16
    <3>1. v.offset + 2 \in Nat /\ v.offset + 2 + 1 < MAX_ETH_PAYLOAD_BYTES
      BY <1>1, <1>4, BufferAssumption DEF IPV4_HEADER_BYTES
    <3> QED
      BY <3>1, Be16Type
  <2>4. ihl >= 5 /\ 4 * ihl <= total /\ total <= v.len
    BY <1>4 DEF Ipv4Lengths
  <2> HIDE DEF ihl, total
  <2>5. p.valid /\ p.payload_view = View(v.offset + 4 * ihl, total - 4 * ihl)
    BY <1>4 DEF parse_ipv4_view, ihl, total
  <2>6. /\ v.offset + 20 <= v.offset + 4 * ihl
        /\ v.offset + 4 * ihl \in Nat /\ total - 4 * ihl \in Nat
        /\ (v.offset + 4 * ihl) + (total - 4 * ihl) <= MAX_ETH_PAYLOAD_BYTES
        /\ (v.offset + 4 * ihl) + (total - 4 * ihl) <= v.offset + v.len
    <3>1. 4 * ihl \in Nat /\ 4 * ihl >= 20
      BY <2>2, <2>4
    <3>2. total \in Nat
      BY <2>3, WordIsNat, Zenon
    <3> DEFINE h == 4 * ihl
    <3> HIDE DEF h
    <3>3. h \in Nat /\ v.offset + 20 <= v.offset + h
      BY <1>1, <3>1 DEF h
    <3>4. QED BY <1>1, <2>4, <3>2, <3>3, PartInside DEF h
  <2>7. /\ p.payload_view = [offset |-> v.offset + 4 * ihl, len |-> total - 4 * ihl]
        /\ p.payload_view \in LegalViews
    BY <2>5, <2>6, ViewIsExact
  <2>8. Within(p.payload_view, v, IPV4_HEADER_BYTES)
    BY <2>6, <2>7 DEF Within, IPV4_HEADER_BYTES
  <2> QED
    BY <2>5, <2>7, <2>8
<1> QED
  BY <1>3, <1>4

\* A UDP payload lies behind a header inside the view it was found in.
LEMMA UdpNests ==
  ASSUME NEW b \in BufferType, NEW v \in LegalViews
  PROVE  LET p == parse_udp_view(b, v)
         IN  IF p.valid THEN Within(p.payload_view, v, UDP_HEADER_BYTES)
                        ELSE p.payload_view.len = 0
<1> DEFINE p == parse_udp_view(b, v)
           length == read_be16(b, v.offset + 4)
<1>1. v.offset \in Nat /\ v.len \in Nat /\ v.offset + v.len <= MAX_ETH_PAYLOAD_BYTES
  BY LegalView
<1>2. CASE v.len < UDP_HEADER_BYTES \/ ~UdpLength(b, v)
  <2>1. p = NoUdp(v)
    BY <1>2 DEF parse_udp_view
  <2>2. View(v.offset, 0) = [offset |-> v.offset, len |-> 0]
    BY <1>1, ViewIsExact, BufferAssumption
  <2> QED
    BY <2>1, <2>2 DEF NoUdp
<1>3. CASE ~(v.len < UDP_HEADER_BYTES) /\ UdpLength(b, v)
  <2>1. length \in Word16
    <3>1. v.offset + 4 \in Nat /\ v.offset + 4 + 1 < MAX_ETH_PAYLOAD_BYTES
      BY <1>1, <1>3, BufferAssumption DEF UDP_HEADER_BYTES
    <3> QED
      BY <3>1, Be16Type
  <2>2. length \in 8 .. v.len
    BY <1>3 DEF UdpLength, UDP_HEADER_BYTES
  <2> HIDE DEF length
  <2>3. p.valid /\ p.payload_view = View(v.offset + 8, length - 8)
    BY <1>3 DEF parse_udp_view, UDP_HEADER_BYTES, length
  <2>4. /\ v.offset + 8 \in Nat /\ length - 8 \in Nat
        /\ (v.offset + 8) + (length - 8) <= MAX_ETH_PAYLOAD_BYTES
        /\ (v.offset + 8) + (length - 8) <= v.offset + v.len
    <3>1. length \in Nat /\ 8 <= length /\ length <= v.len
      BY <1>1, <2>2
    <3>2. QED BY <1>1, <3>1, PartInside
  <2>5. p.payload_view = [offset |-> v.offset + 8, len |-> length - 8]
    BY <2>3, <2>4, ViewIsExact
  <2>6. Within(p.payload_view, v, UDP_HEADER_BYTES)
    BY <2>4, <2>5 DEF Within, UDP_HEADER_BYTES
  <2> QED
    BY <2>3, <2>6
<1> QED
  BY <1>2, <1>3

\* ViewsNest with the types the parsers rely on.
NestInv ==
  /\ bytes \in BufferType
  /\ view \in LegalViews
  /\ ipv4.payload_view \in LegalViews
  /\ read < 2 => udp = NoUdp(view)
  /\ ViewsNest

\* The empty views the parsers begin with are legal.
LEMMA EmptyViews ==
  ASSUME NEW v \in LegalViews
  PROVE  /\ NoIpv4(v).payload_view \in LegalViews
         /\ ~NoIpv4(v).valid /\ NoIpv4(v).payload_view.len = 0
         /\ ~NoUdp(v).valid /\ NoUdp(v).payload_view.len = 0
<1>1. v.offset \in Nat /\ v.offset + 0 <= MAX_ETH_PAYLOAD_BYTES
  BY LegalView, BufferAssumption
<1>2. View(v.offset, 0) = [offset |-> v.offset, len |-> 0] /\ View(v.offset, 0) \in LegalViews
  BY <1>1, ViewIsExact
<1> QED
  BY <1>2 DEF NoIpv4, NoUdp

\* At first nothing has been parsed.
LEMMA NestInit == DatagramInit => NestInv
<1> SUFFICES ASSUME DatagramInit PROVE NestInv
  OBVIOUS
<1>1. bytes \in BufferType /\ view \in LegalViews
  BY DatagramAssumption DEF DatagramInit, BufferType
<1>2. ipv4 = NoIpv4(view) /\ udp = NoUdp(view)
  BY DEF DatagramInit
<1> QED
  BY <1>1, <1>2, EmptyViews DEF NestInv, ViewsNest

\* Neither parser returns a view that leaves its input.
LEMMA NestStep == NestInv /\ [DatagramNext]_datagramVars => NestInv'
<1> SUFFICES ASSUME NestInv, [DatagramNext]_datagramVars PROVE NestInv'
  OBVIOUS
<1>1. CASE ReadIpv4
  <2>1. /\ bytes' = bytes /\ view' = view /\ udp' = NoUdp(view)
        /\ ipv4' = parse_ipv4_view(bytes, view)
    BY <1>1 DEF ReadIpv4, NestInv
  <2>2. /\ ipv4'.payload_view \in LegalViews
        /\ IF ipv4'.valid THEN Within(ipv4'.payload_view, view, IPV4_HEADER_BYTES)
                          ELSE ipv4'.payload_view.len = 0
    BY <2>1, Ipv4Nests DEF NestInv
  <2>3. ~udp'.valid /\ udp'.payload_view.len = 0
    BY <2>1, EmptyViews DEF NestInv
  <2> QED
    BY <2>1, <2>2, <2>3 DEF NestInv, ViewsNest, Within
<1>2. CASE ReadUdp
  <2>1. /\ bytes' = bytes /\ view' = view /\ ipv4' = ipv4 /\ read' = 2
        /\ udp' = parse_udp_view(bytes, ipv4.payload_view)
    BY <1>2 DEF ReadUdp
  <2>2. IF udp'.valid THEN Within(udp'.payload_view, ipv4.payload_view, UDP_HEADER_BYTES)
                      ELSE udp'.payload_view.len = 0
    BY <2>1, UdpNests DEF NestInv
  <2> QED
    BY <2>1, <2>2 DEF NestInv, ViewsNest, Within
<1>3. CASE UNCHANGED datagramVars
  BY <1>3 DEF datagramVars, NestInv, ViewsNest, Within
<1> QED
  BY <1>1, <1>2, <1>3 DEF DatagramNext

\* No parsed view leaves the view it was parsed from (packet_views.h:41-119),
\* for every content of the buffer and every view of it.
THEOREM DatagramViewsNest == DatagramSpec => []ViewsNest
<1>1. NestInv => ViewsNest
  BY DEF NestInv
<1> QED
  BY <1>1, NestInit, NestStep, PTL DEF DatagramSpec

----------------------------------------------------------------------------
(* The parsers and the reference, which reads the content of the view as a *)
(* sequence of its own.                                                    *)

\* The content of a view is its bytes.
LEMMA ContentBytes ==
  ASSUME bytes \in BufferType, NEW v \in LegalViews
  PROVE  /\ Content(v) \in Seq(Byte) /\ Len(Content(v)) = v.len
         /\ \A k \in 1 .. v.len : /\ Content(v)[k] = bytes[v.offset + k - 1]
                                  /\ Content(v)[k] \in Byte
<1>1. v.offset \in Nat /\ v.len \in Nat /\ v.offset + v.len <= MAX_ETH_PAYLOAD_BYTES
  BY LegalView
<1>2. ASSUME NEW k \in 1 .. v.len PROVE bytes[v.offset + k - 1] \in Byte
  <2>1. v.offset + k - 1 \in 0 .. MAX_ETH_PAYLOAD_BYTES - 1
    BY <1>1, BufferAssumption
  <2>2. QED BY <2>1 DEF BufferType
<1>3. QED BY <1>1, <1>2 DEF Content

\* A view inside a view has a part of its content.
LEMMA ContentPart ==
  ASSUME bytes \in BufferType, NEW v \in LegalViews,
         NEW m \in Nat, NEW n \in Nat, m + n <= v.len
  PROVE  [k \in 1 .. n |-> bytes[v.offset + m + k - 1]] = SubSeq(Content(v), m + 1, m + n)
<1> DEFINE s == Content(v)
           part == SubSeq(s, m + 1, m + n)
<1>1. v.offset \in Nat /\ v.len \in Nat
  BY LegalView
<1>2. /\ s \in Seq(Byte) /\ Len(s) = v.len
      /\ \A k \in 1 .. v.len : s[k] = bytes[v.offset + k - 1]
  BY ContentBytes
<1> HIDE DEF s
<1>3. /\ part = [k \in 1 .. Len(part) |-> part[k]] /\ Len(part) = n
      /\ \A k \in 1 .. n : part[k] = s[m + k]
  BY <1>1, <1>2
<1>4. ASSUME NEW k \in 1 .. n PROVE part[k] = bytes[v.offset + m + k - 1]
  <2>1. m + k \in 1 .. v.len /\ v.offset + (m + k) - 1 = v.offset + m + k - 1
    BY <1>1
  <2>2. QED BY <1>2, <1>3, <2>1
<1> HIDE DEF part
<1>5. [k \in 1 .. n |-> bytes[v.offset + m + k - 1]] = [k \in 1 .. n |-> part[k]]
  BY <1>4
<1>6. QED BY <1>3, <1>5 DEF part, s

\* An index inside the buffer is not changed by its 11 bits.
LEMMA IndexIsExact ==
  \A i \in Nat : i + 1 < MAX_ETH_PAYLOAD_BYTES => i % 2048 = i
  BY BufferAssumption

\* Two bytes of a view as a 16-bit number.
LEMMA WordRead ==
  ASSUME bytes \in BufferType, NEW v \in LegalViews, NEW i \in Nat, i + 2 <= v.len
  PROVE  /\ read_be16(bytes, v.offset + i) = Word(Content(v), i + 1)
         /\ read_be16(bytes, v.offset + i) \in Word16
<1>1. v.offset \in Nat /\ v.len \in Nat /\ v.offset + v.len <= MAX_ETH_PAYLOAD_BYTES
  BY LegalView
<1>2. v.offset + i \in Nat /\ (v.offset + i) + 1 < MAX_ETH_PAYLOAD_BYTES
  BY <1>1, BufferAssumption
<1>3. (v.offset + i) % 2048 = v.offset + i
  BY <1>2, IndexIsExact
<1>4. /\ Content(v)[i + 1] = bytes[v.offset + i]
      /\ Content(v)[i + 2] = bytes[v.offset + i + 1]
  <2>1. /\ i + 1 \in 1 .. v.len /\ v.offset + (i + 1) - 1 = v.offset + i
        /\ i + 2 \in 1 .. v.len /\ v.offset + (i + 2) - 1 = v.offset + i + 1
    BY <1>1
  <2>2. \A k \in 1 .. v.len : Content(v)[k] = bytes[v.offset + k - 1]
    BY ContentBytes
  <2>3. QED BY <2>1, <2>2
<1>5. read_be16(bytes, v.offset + i) \in Word16
  BY <1>2, Be16Type
<1>6. QED BY <1>3, <1>4, <1>5 DEF read_be16, Word

\* Four bytes of a view as an address.
LEMMA AddressRead ==
  ASSUME bytes \in BufferType, NEW v \in LegalViews, NEW i \in Nat, i + 4 <= v.len
  PROVE  read_be32(bytes, v.offset + i) = SubSeq(Content(v), i + 1, i + 4)
<1>1. v.offset \in Nat /\ v.len \in Nat /\ v.offset + v.len <= MAX_ETH_PAYLOAD_BYTES
  BY LegalView
<1>2. (v.offset + i) % 2048 = v.offset + i
  <2>1. v.offset + i \in Nat /\ (v.offset + i) + 1 < MAX_ETH_PAYLOAD_BYTES
    BY <1>1, BufferAssumption
  <2>2. QED BY <2>1, IndexIsExact
<1>3. read_be32(bytes, v.offset + i) = [k \in 1 .. 4 |-> bytes[v.offset + i + k - 1]]
  BY <1>2 DEF read_be32
<1>4. 4 \in Nat
  OBVIOUS
<1>5. QED BY <1>3, <1>4, ContentPart, Zenon

HeaderLengths == { 4 * ihl : ihl \in 5 .. 15 }

\* The first byte of an IPv4 header, taken apart and put together.
LEMMA VersionByte ==
  /\ \A x \in Byte : x \div 16 = 4 => x = 64 + (x % 16) /\ x % 16 \in 0 .. 15
  /\ \A ihl \in 5 .. 15 : /\ (64 + ihl) \div 16 = 4 /\ (64 + ihl) % 16 = ihl
                          /\ (4 * ihl) \div 4 = ihl
  BY DEF Byte

\* No fragment: of flags and offset only the two highest bits may be set.
LEMMA FragmentBits ==
  \A x, y \in Byte :
    (256 * x + y) % 16384 = 0 <=> x \in {0, 64, 128, 192} /\ y = 0
<1> SUFFICES ASSUME NEW x \in Byte, NEW y \in Byte
             PROVE  (256 * x + y) % 16384 = 0 <=> x \in {0, 64, 128, 192} /\ y = 0
  OBVIOUS
<1>1. PICK a \in 0 .. 3, c \in 0 .. 63 : x = 64 * a + c
  <2>1. ASSUME NEW k \in {0, 64, 128, 192}, NEW a \in 0 .. 3, k = 64 * a,
               x >= k, x < k + 64
        PROVE  \E c \in 0 .. 63 : x = 64 * a + c
    <3>1. x - k \in 0 .. 63 /\ x = 64 * a + (x - k)
      BY <2>1 DEF Byte
    <3>2. QED BY <3>1
  <2>2. \/ x >= 0 /\ x < 0 + 64
        \/ x >= 64 /\ x < 64 + 64
        \/ x >= 128 /\ x < 128 + 64
        \/ x >= 192 /\ x < 192 + 64
    BY DEF Byte
  <2>3. 0 = 64 * 0 /\ 64 = 64 * 1 /\ 128 = 64 * 2 /\ 192 = 64 * 3
    OBVIOUS
  <2>4. QED BY <2>1, <2>2, <2>3
<1>2. x \in {0, 64, 128, 192} <=> c = 0
  BY <1>1
<1> DEFINE low == 256 * c + y
<1>3. /\ low \in 0 .. 16383 /\ 256 * x + y = 16384 * a + low
      /\ low = 0 <=> c = 0 /\ y = 0
  BY <1>1 DEF Byte
<1> HIDE DEF low
<1>4. (16384 * a + low) % 16384 = low
  <2>1. a = 0 \/ a = 1 \/ a = 2 \/ a = 3
    OBVIOUS
  <2>2. QED BY <1>3, <2>1
<1>5. QED BY <1>2, <1>3, <1>4

\* What was sent as IPv4 is accepted with its header and total lengths.
LEMMA Ipv4Accepts ==
  ASSUME bytes \in BufferType, NEW v \in LegalViews,
         NEW ihl \in 5 .. 15, NEW n \in Nat, IsIpv4(Content(v), 4 * ihl, n)
  PROVE  /\ v.len >= IPV4_HEADER_BYTES /\ Ipv4Lengths(bytes, v)
         /\ 4 * ihl + n <= v.len
         /\ bytes[v.offset] % 16 = ihl
         /\ read_be16(bytes, v.offset + 2) = 4 * ihl + n
<1> DEFINE s == Content(v)
<1>1. v.offset \in Nat /\ v.len \in Nat /\ Len(s) = v.len
  BY LegalView, ContentBytes
<1>2. 4 * ihl + n <= v.len /\ s[1] = 64 + (4 * ihl) \div 4 /\ Word(s, 3) = 4 * ihl + n
  BY <1>1 DEF IsIpv4
<1>3. v.len >= 20 /\ 2 + 2 <= v.len /\ 1 \in 1 .. v.len
  BY <1>1, <1>2
<1>4. bytes[v.offset] = 64 + ihl
  <2>1. s[1] = bytes[v.offset + 1 - 1]
    BY <1>3, ContentBytes
  <2>2. v.offset + 1 - 1 = v.offset
    BY <1>1
  <2>3. QED BY <1>2, <2>1, <2>2, VersionByte
<1>5. bytes[v.offset] \div 16 = 4 /\ bytes[v.offset] % 16 = ihl
  BY <1>4, VersionByte
<1>6. read_be16(bytes, v.offset + 2) = 4 * ihl + n
  BY <1>2, <1>3, WordRead
<1>7. Ipv4Lengths(bytes, v)
  <2> DEFINE x == bytes[v.offset]
             words == x % 16
             total == read_be16(bytes, v.offset + 2)
  <2>1. Ipv4Lengths(bytes, v) <=>
          /\ x \div 16 = 4 /\ words >= 5 /\ 4 * words <= v.len
          /\ total >= 4 * words /\ total <= v.len
    BY DEF Ipv4Lengths
  <2>2. x \div 16 = 4 /\ words = ihl /\ total = 4 * ihl + n
    BY <1>5, <1>6
  <2> HIDE DEF x, words, total
  <2>3. ihl >= 5 /\ 4 * ihl <= v.len /\ 4 * ihl + n >= 4 * ihl /\ 4 * ihl + n <= v.len
    BY <1>1, <1>2
  <2>4. QED BY <2>1, <2>2, <2>3
<1>8. QED BY <1>2, <1>3, <1>5, <1>6, <1>7 DEF IPV4_HEADER_BYTES

\* What is accepted can have been sent.
LEMMA Ipv4Meant ==
  ASSUME bytes \in BufferType, NEW v \in LegalViews,
         ~(v.len < IPV4_HEADER_BYTES), Ipv4Lengths(bytes, v)
  PROVE  \E h \in HeaderLengths, n \in 0 .. v.len : IsIpv4(Content(v), h, n)
<1> DEFINE s == Content(v)
           x == bytes[v.offset]
           ihl == x % 16
           total == read_be16(bytes, v.offset + 2)
<1>1. v.offset \in Nat /\ v.len \in Nat /\ Len(s) = v.len
  BY LegalView, ContentBytes
<1>2. v.len >= 20 /\ 1 \in 1 .. v.len /\ 2 + 2 <= v.len
  BY <1>1 DEF IPV4_HEADER_BYTES
<1>3. s[1] = x /\ x \in Byte
  <2>1. s[1] = bytes[v.offset + 1 - 1] /\ s[1] \in Byte
    BY <1>2, ContentBytes
  <2>2. v.offset + 1 - 1 = v.offset
    BY <1>1
  <2>3. QED BY <2>1, <2>2
<1>4. total = Word(s, 3) /\ total \in Word16
  BY <1>2, WordRead
<1>5. /\ x \div 16 = 4 /\ ihl >= 5
      /\ total >= 4 * ihl /\ total <= v.len
  BY DEF Ipv4Lengths
<1>6. x = 64 + ihl /\ ihl \in 0 .. 15
  BY <1>3, <1>5, VersionByte
<1> HIDE DEF s, x, ihl, total
<1>7. ihl \in 5 .. 15
  BY <1>5, <1>6
<1> DEFINE n == total - 4 * ihl
<1>8. total \in Nat
  BY <1>4, WordIsNat, Zenon
<1>9. n \in 0 .. v.len /\ 4 * ihl + n = total
  BY <1>1, <1>5, <1>7, <1>8
<1>10. s[1] = 64 + ihl
  BY <1>3, <1>6
<1> HIDE DEF n
<1>11. (4 * ihl) \div 4 = ihl
  BY <1>7, VersionByte
<1>12. IsIpv4(s, 4 * ihl, n)
  BY <1>1, <1>4, <1>5, <1>9, <1>10, <1>11 DEF IsIpv4
<1>13. 4 * ihl \in HeaderLengths
  BY <1>7 DEF HeaderLengths
<1>14. QED BY <1>9, <1>12, <1>13 DEF s

\* The view p has what is meant by s, an IPv4 header of h bytes with n of data.
Ipv4ReadAs(p, s, h, n) ==
  /\ p.valid
  /\ Content(p.payload_view) = SubSeq(s, h + 1, h + n)
  /\ p.src_ip = SubSeq(s, 13, 16) /\ p.dst_ip = SubSeq(s, 17, 20)
  /\ p.protocol = s[10]
  /\ ipv4_is_unfragmented(p) <=> s[7] \in {0, 64, 128, 192} /\ s[8] = 0

\* An IPv4 packet is read as it was meant.
LEMMA Ipv4IsRead ==
  ASSUME bytes \in BufferType, NEW v \in LegalViews,
         NEW ihl \in 5 .. 15, NEW n \in Nat, IsIpv4(Content(v), 4 * ihl, n)
  PROVE  Ipv4ReadAs(parse_ipv4_view(bytes, v), Content(v), 4 * ihl, n)
<1> DEFINE p == parse_ipv4_view(bytes, v)
           s == Content(v)
           h == 4 * ihl
<1>1. /\ v.offset \in Nat /\ v.len \in Nat /\ v.offset + v.len <= MAX_ETH_PAYLOAD_BYTES
  BY LegalView
<1>2. /\ v.len >= 20 /\ Ipv4Lengths(bytes, v) /\ h + n <= v.len
      /\ bytes[v.offset] % 16 = ihl /\ read_be16(bytes, v.offset + 2) = h + n
  BY Ipv4Accepts DEF IPV4_HEADER_BYTES
<1>3. /\ p.valid
      /\ p.protocol = bytes[v.offset + 9]
      /\ p.flags_fragment = read_be16(bytes, v.offset + 6)
      /\ p.src_ip = read_be32(bytes, v.offset + 12)
      /\ p.dst_ip = read_be32(bytes, v.offset + 16)
      /\ p.payload_view = View(v.offset + h, (h + n) - h)
  BY <1>1, <1>2 DEF parse_ipv4_view, IPV4_HEADER_BYTES
<1>4. h \in Nat /\ (h + n) - h = n
  OBVIOUS
<1> HIDE DEF p, h
<1>5. Content(p.payload_view) = SubSeq(s, h + 1, h + n)
  <2>1. v.offset + h \in Nat /\ (v.offset + h) + n <= MAX_ETH_PAYLOAD_BYTES
    BY <1>1, <1>2, <1>4, BufferAssumption
  <2>2. p.payload_view = [offset |-> v.offset + h, len |-> n]
    BY <1>3, <1>4, <2>1, ViewIsExact
  <2>3. Content(p.payload_view) = [k \in 1 .. n |-> bytes[v.offset + h + k - 1]]
    BY <2>2 DEF Content
  <2>4. QED BY <1>2, <1>4, <2>3, ContentPart
<1>6. p.src_ip = SubSeq(s, 13, 16)
  <2>1. 12 \in Nat /\ 12 + 4 <= v.len /\ 12 + 1 = 13 /\ 12 + 4 = 16
    BY <1>1, <1>2
  <2>2. QED BY <1>3, <2>1, AddressRead
<1>7. p.dst_ip = SubSeq(s, 17, 20)
  <2>1. 16 \in Nat /\ 16 + 4 <= v.len /\ 16 + 1 = 17 /\ 16 + 4 = 20
    BY <1>1, <1>2
  <2>2. QED BY <1>3, <2>1, AddressRead
<1>8. \A k \in 1 .. v.len : s[k] = bytes[v.offset + k - 1] /\ s[k] \in Byte
  BY ContentBytes
<1> HIDE DEF s
<1>9. p.protocol = s[10]
  <2>1. 10 \in 1 .. v.len /\ v.offset + 10 - 1 = v.offset + 9
    BY <1>1, <1>2
  <2>2. QED BY <1>3, <1>8, <2>1
<1>10. ipv4_is_unfragmented(p) <=> s[7] \in {0, 64, 128, 192} /\ s[8] = 0
  <2>1. 6 \in Nat /\ 6 + 2 <= v.len /\ 7 \in 1 .. v.len /\ 8 \in 1 .. v.len
    BY <1>1, <1>2
  <2>2. read_be16(bytes, v.offset + 6) = Word(s, 6 + 1)
    BY <2>1, WordRead DEF s
  <2>3. p.flags_fragment = 256 * s[7] + s[8]
    BY <1>3, <2>2 DEF Word
  <2>4. s[7] \in Byte /\ s[8] \in Byte
    BY <1>8, <2>1
  <2>5. QED BY <2>3, <2>4, FragmentBits DEF ipv4_is_unfragmented
<1>11. Ipv4ReadAs(p, s, h, n)
  BY <1>3, <1>5, <1>6, <1>7, <1>9, <1>10 DEF Ipv4ReadAs
<1>12. QED BY <1>11 DEF p, s, h

\* The same for UDP: accepted exactly when it can have been sent, and then
\* read as it was meant.
LEMMA UdpAccepted ==
  ASSUME bytes \in BufferType, NEW w \in LegalViews
  PROVE  (~(w.len < UDP_HEADER_BYTES) /\ UdpLength(bytes, w))
           <=> \E n \in 0 .. w.len : IsUdp(Content(w), n)
<1> DEFINE t == Content(w)
           length == read_be16(bytes, w.offset + 4)
<1>1. w.offset \in Nat /\ w.len \in Nat /\ Len(t) = w.len
  BY LegalView, ContentBytes
<1>2. 4 + 2 <= w.len => length = Word(t, 4 + 1) /\ length \in Word16
  BY WordRead
<1>3. UdpLength(bytes, w) <=> length \in 8 .. w.len
  BY DEF UdpLength, UDP_HEADER_BYTES
<1> HIDE DEF t, length
<1>4. ASSUME w.len >= 8, length \in 8 .. w.len
      PROVE  \E n \in 0 .. w.len : IsUdp(t, n)
  <2>1. length - 8 \in 0 .. w.len /\ 8 + (length - 8) = length /\ length <= w.len
    BY <1>1, <1>4
  <2>2. Word(t, 5) = length
    BY <1>1, <1>2, <1>4
  <2>3. IsUdp(t, length - 8)
    BY <1>1, <2>1, <2>2 DEF IsUdp
  <2>4. QED BY <2>1, <2>3
<1>5. ASSUME NEW n \in 0 .. w.len, IsUdp(t, n)
      PROVE  w.len >= 8 /\ length \in 8 .. w.len
  <2>1. 8 + n <= w.len /\ Word(t, 5) = 8 + n
    BY <1>1, <1>5 DEF IsUdp
  <2>2. length = 8 + n
    BY <1>1, <1>2, <2>1
  <2>3. QED BY <1>1, <2>1, <2>2
<1>6. QED BY <1>1, <1>3, <1>4, <1>5 DEF t, UDP_HEADER_BYTES

LEMMA UdpIsRead ==
  ASSUME bytes \in BufferType, NEW w \in LegalViews, NEW n \in Nat, IsUdp(Content(w), n)
  PROVE  LET p == parse_udp_view(bytes, w)
             t == Content(w)
         IN  /\ Content(p.payload_view) = SubSeq(t, 9, 8 + n)
             /\ p.src_port = Word(t, 1) /\ p.dst_port = Word(t, 3)
<1> DEFINE p == parse_udp_view(bytes, w)
           t == Content(w)
<1>1. /\ w.offset \in Nat /\ w.len \in Nat /\ Len(t) = w.len
      /\ w.offset + w.len <= MAX_ETH_PAYLOAD_BYTES
  BY LegalView, ContentBytes
<1>2. 8 + n <= w.len /\ Word(t, 5) = 8 + n
  BY <1>1 DEF IsUdp
<1>3. n \in 0 .. w.len /\ ~(w.len < UDP_HEADER_BYTES) /\ UdpLength(bytes, w)
  BY <1>1, <1>2, UdpAccepted DEF UDP_HEADER_BYTES
<1>4. /\ 0 + 2 <= w.len /\ 2 + 2 <= w.len /\ 4 + 2 <= w.len
      /\ w.offset + 0 = w.offset /\ (8 + n) - 8 = n
  BY <1>1, <1>2
<1>5. /\ read_be16(bytes, w.offset) = Word(t, 1)
      /\ read_be16(bytes, w.offset + 2) = Word(t, 3)
      /\ read_be16(bytes, w.offset + 4) = Word(t, 5)
  <2>1. read_be16(bytes, w.offset + 0) = Word(t, 0 + 1)
    BY <1>4, WordRead
  <2>2. read_be16(bytes, w.offset + 2) = Word(t, 2 + 1)
    BY <1>4, WordRead
  <2>3. read_be16(bytes, w.offset + 4) = Word(t, 4 + 1)
    BY <1>4, WordRead
  <2>4. QED BY <1>4, <2>1, <2>2, <2>3
<1>6. /\ p.src_port = Word(t, 1) /\ p.dst_port = Word(t, 3)
      /\ p.payload_view = View(w.offset + 8, n)
  BY <1>2, <1>3, <1>4, <1>5 DEF parse_udp_view, UDP_HEADER_BYTES
<1> HIDE DEF p
<1>7. p.payload_view = [offset |-> w.offset + 8, len |-> n]
  <2>1. w.offset + 8 \in Nat /\ (w.offset + 8) + n <= MAX_ETH_PAYLOAD_BYTES
    BY <1>1, <1>2, BufferAssumption
  <2>2. QED BY <1>6, <2>1, ViewIsExact
<1>8. Content(p.payload_view) = [k \in 1 .. n |-> bytes[w.offset + 8 + k - 1]]
  BY <1>7 DEF Content
<1>9. Content(p.payload_view) = SubSeq(t, 8 + 1, 8 + n)
  BY <1>2, <1>8, ContentPart
<1>10. QED BY <1>6, <1>9 DEF p

\* What has been read is what the parsers make of the buffer.
ReadInv ==
  /\ NestInv
  /\ read \in 0 .. 2
  /\ read > 0 => ipv4 = parse_ipv4_view(bytes, view)
  /\ read > 1 => udp = parse_udp_view(bytes, ipv4.payload_view)

LEMMA ReadStep == ReadInv /\ [DatagramNext]_datagramVars => ReadInv'
<1> SUFFICES ASSUME ReadInv, [DatagramNext]_datagramVars PROVE ReadInv'
  OBVIOUS
<1>1. NestInv'
  BY NestStep DEF ReadInv
<1>2. CASE ReadIpv4
  BY <1>1, <1>2 DEF ReadIpv4, ReadInv
<1>3. CASE ReadUdp
  BY <1>1, <1>3 DEF ReadUdp, ReadInv
<1>4. CASE UNCHANGED datagramVars
  BY <1>1, <1>4 DEF datagramVars, ReadInv
<1>5. QED BY <1>2, <1>3, <1>4 DEF DatagramNext

\* What the parsers make of the buffer is what its sender meant.
LEMMA ReadIsMeant == ReadInv => DatagramIsRead
<1> SUFFICES ASSUME ReadInv PROVE DatagramIsRead
  OBVIOUS
<1> DEFINE s == Content(view)
           w == ipv4.payload_view
           t == Content(w)
<1>1. bytes \in BufferType /\ view \in LegalViews /\ w \in LegalViews
  BY DEF ReadInv, NestInv
<1>2. Len(s) = view.len /\ Len(t) = w.len /\ view.len \in Nat /\ w.len \in Nat
  BY <1>1, ContentBytes, LegalView
<1>3. ASSUME read > 0
      PROVE  /\ ipv4.valid <=> \E h \in HeaderLengths, n \in 0 .. Len(s) : IsIpv4(s, h, n)
             /\ \A h \in HeaderLengths, n \in 0 .. Len(s) : IsIpv4(s, h, n) =>
                  /\ t = SubSeq(s, h + 1, h + n)
                  /\ ipv4.src_ip = SubSeq(s, 13, 16) /\ ipv4.dst_ip = SubSeq(s, 17, 20)
                  /\ ipv4.protocol = s[10]
                  /\ ipv4_is_unfragmented(ipv4) <=> s[7] \in {0, 64, 128, 192} /\ s[8] = 0
  <2>1. ipv4 = parse_ipv4_view(bytes, view)
    BY <1>3 DEF ReadInv
  <2>2. ASSUME NEW h \in HeaderLengths, NEW n \in 0 .. Len(s), IsIpv4(s, h, n)
        PROVE  Ipv4ReadAs(ipv4, s, h, n)
    <3>1. PICK ihl \in 5 .. 15 : h = 4 * ihl
      BY DEF HeaderLengths
    <3>2. n \in Nat /\ IsIpv4(Content(view), 4 * ihl, n)
      BY <1>2, <2>2, <3>1
    <3>3. Ipv4ReadAs(parse_ipv4_view(bytes, view), Content(view), 4 * ihl, n)
      BY <1>1, <3>2, Ipv4IsRead
    <3>4. QED BY <2>1, <3>1, <3>3
  <2>3. ipv4.valid => ~(view.len < IPV4_HEADER_BYTES) /\ Ipv4Lengths(bytes, view)
    BY <2>1 DEF parse_ipv4_view, NoIpv4
  <2>4. ipv4.valid => \E h \in HeaderLengths, n \in 0 .. Len(s) : IsIpv4(s, h, n)
    <3> SUFFICES ASSUME ipv4.valid
                 PROVE  \E h \in HeaderLengths, n \in 0 .. Len(s) : IsIpv4(s, h, n)
      OBVIOUS
    <3>1. \E h \in HeaderLengths, n \in 0 .. view.len : IsIpv4(s, h, n)
      BY <1>1, <2>3, Ipv4Meant
    <3>2. QED BY <1>2, <3>1
  <2>5. ASSUME NEW h \in HeaderLengths, NEW n \in 0 .. Len(s), IsIpv4(s, h, n)
        PROVE  /\ ipv4.valid
               /\ t = SubSeq(s, h + 1, h + n)
               /\ ipv4.src_ip = SubSeq(s, 13, 16) /\ ipv4.dst_ip = SubSeq(s, 17, 20)
               /\ ipv4.protocol = s[10]
               /\ ipv4_is_unfragmented(ipv4) <=> s[7] \in {0, 64, 128, 192} /\ s[8] = 0
    BY <2>2, <2>5, Zenon DEF Ipv4ReadAs
  <2>6. ASSUME NEW h \in HeaderLengths, NEW n \in 0 .. Len(s), IsIpv4(s, h, n)
        PROVE  ipv4.valid
    BY <2>5, <2>6
  <2> HIDE DEF s, t
  <2>7. ipv4.valid <=> \E h \in HeaderLengths, n \in 0 .. Len(s) : IsIpv4(s, h, n)
    BY <2>4, <2>6
  <2>8. QED BY <2>5, <2>7, Zenon
<1>4. ASSUME read > 1
      PROVE  /\ udp.valid <=> \E n \in 0 .. Len(t) : IsUdp(t, n)
             /\ \A n \in 0 .. Len(t) : IsUdp(t, n) =>
                  /\ Content(udp.payload_view) = SubSeq(t, 9, 8 + n)
                  /\ udp.src_port = Word(t, 1) /\ udp.dst_port = Word(t, 3)
  <2>1. udp = parse_udp_view(bytes, w)
    BY <1>4 DEF ReadInv
  <2>2. udp.valid <=> ~(w.len < UDP_HEADER_BYTES) /\ UdpLength(bytes, w)
    BY <2>1 DEF parse_udp_view, NoUdp
  <2>3. udp.valid <=> \E n \in 0 .. Len(t) : IsUdp(t, n)
    BY <1>1, <1>2, <2>2, UdpAccepted
  <2>4. ASSUME NEW n \in 0 .. Len(t), IsUdp(t, n)
        PROVE  /\ Content(udp.payload_view) = SubSeq(t, 9, 8 + n)
               /\ udp.src_port = Word(t, 1) /\ udp.dst_port = Word(t, 3)
    <3>1. n \in Nat
      BY <1>2
    <3>2. QED BY <1>1, <2>1, <2>4, <3>1, UdpIsRead
  <2>5. QED BY <2>3, <2>4
<1> HIDE DEF s, t, w
<1>5. QED BY <1>3, <1>4 DEF DatagramIsRead, HeaderLengths, s, t, w

\* Both parsers return what the sender of the bytes meant, or nothing
\* (packet_views.h:41-119), for every content of the buffer and every view.
THEOREM DatagramReadAsMeant == DatagramSpec => []DatagramIsRead
<1>1. DatagramInit => ReadInv
  BY NestInit DEF DatagramInit, ReadInv
<1>2. QED BY <1>1, ReadStep, ReadIsMeant, PTL DEF DatagramSpec
=============================================================================
