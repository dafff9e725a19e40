----------------------------- MODULE WireFormat -----------------------------
(***************************************************************************)
(* The bytes a frame consists of on the wire, as the test bench builds and *)
(* checks them (tx_frame_from_request, append_eth_fcs, assert_fcs): the    *)
(* reference the transmit path is compared with.                           *)
(***************************************************************************)
EXTENDS Crc32, Sequences

CONSTANTS
  MIN_ETH_FRAME_BODY_BYTES, \* 60
  PreambleBytes             \* 7

NibblesOf(bytes) ==
  [n \in 1 .. 2 * Len(bytes) |->
     LET byte == bytes[(n + 1) \div 2]
     IN  IF n % 2 = 1 THEN byte % 16 ELSE byte \div 16]

Pad(body) ==
  LET missing == MIN_ETH_FRAME_BODY_BYTES - Len(body)
  IN  IF missing > 0 THEN body \o [i \in 1 .. missing |-> 0] ELSE body

\* The set has TLC evaluate the register before it takes the next byte.
NextCrc(crc, byte) ==
  CHOOSE next \in { crc32_next_byte(c, byte) : c \in {crc} } : TRUE

\* The register after each number of bytes.
CrcAfter(bytes) ==
  LET crc[n \in 0 .. Len(bytes)] ==
        IF n = 0 THEN CrcInit ELSE NextCrc(crc[n - 1], bytes[n])
  IN  crc

FcsOf(bytes) ==
  LET fcs == Complement(CrcAfter(bytes)[Len(bytes)])
  IN  [k \in 1 .. 4 |-> WordByte(fcs, k - 1)]

WireFrame(body) ==
  [i \in 1 .. PreambleBytes |-> 85] \o << 213 >> \o Pad(body) \o FcsOf(Pad(body))
=============================================================================
