----------------------------- MODULE Crc32Check -----------------------------
(***************************************************************************)
(* The CRC register fed with byte strings, against the textbook definition *)
(* of the Ethernet FCS: the remainder of polynomial division over GF(2).   *)
(***************************************************************************)
EXTENDS Crc32, Sequences

CONSTANTS
  MessageBytes,  \* the values a byte of a message takes
  MaxMessage     \* bound on the length of a message

VARIABLES
  message,       \* the bytes fed so far
  message_crc    \* the register

messageVars == << message, message_crc >>

MessageInit == message = << >> /\ message_crc = CrcInit

Feed(byte) ==
  /\ Len(message) < MaxMessage
  /\ message' = Append(message, byte)
  /\ message_crc' = crc32_next_byte(message_crc, byte)

MessageNext == \E byte \in MessageBytes : Feed(byte)

MessageSpec == MessageInit /\ [][MessageNext]_messageVars

----------------------------------------------------------------------------
(* The reference.  A polynomial is the set of its exponents.               *)

\* x^32 + x^26 + x^23 + ... + x + 1, IEEE 802.3 clause 3.2.9.
Generator == {32, 26, 23, 22, 16, 12, 11, 10, 8, 7, 5, 4, 2, 1, 0}

TimesX(p, n) == { e + n : e \in p }

\* Long division: row k has nothing left above x^(n + 31 - k).
CancelTerm(p, e) == IF e \in p THEN Xor(p, TimesX(Generator, e - 32)) ELSE p

DivisionRow(p, n) ==
  LET row[k \in 0 .. n] == IF k = 0 THEN p ELSE CancelTerm(row[k - 1], n + 32 - k)
  IN  row

\* Of a polynomial of degree n + 31 at most.
RemainderOf(p, n) == DivisionRow(p, n)[n]

\* The message as sent: first byte first, least significant bit first, the
\* first bit being the coefficient of the highest power.
MessagePolynomial(bytes) ==
  LET n == 8 * Len(bytes)
  IN  { n - 1 - k : k \in { j \in 0 .. n - 1 :
                              (j % 8) \in BitsOf(bytes[j \div 8 + 1]) } }

\* What is divided: the first 32 bits are complemented.
Dividend(bytes) ==
  Xor(TimesX(MessagePolynomial(bytes), 32), TimesX(0 .. 31, 8 * Len(bytes)))

\* The remainder is complemented too.
ReferenceFcs(bytes) == Complement(RemainderOf(Dividend(bytes), 8 * Len(bytes)))

\* The FCS bytes as the framer transmits them.
FcsBytesOf(word) == [k \in 1 .. 4 |-> WordByte(Complement(word), k - 1)]

\* The FCS on the wire, in the order of its bits: x^31 first.
FcsPolynomial(bytes) ==
  { 31 - j : j \in { i \in 0 .. 31 : (i % 8) \in BitsOf(bytes[i \div 8 + 1]) } }

\* What the register holds after message and FCS: 0xDEBB20E3.
Residue ==
  {0, 1, 5, 6, 7, 13, 16, 17, 19, 20, 21, 23, 25, 26, 27, 28, 30, 31}

----------------------------------------------------------------------------
(* Properties. *)

\* The four bytes the framer would send after this message, in its order,
\* are the FCS IEEE 802.3 defines for it (ethernet_framer.h:19-31, 144-156).
FcsIsRemainder == FcsPolynomial(FcsBytesOf(message_crc)) = ReferenceFcs(message)

\* A receiver that runs the register over message and FCS ends with the
\* residue every Ethernet receiver looks for.
FcsLeavesResidue ==
  LET fcs == FcsBytesOf(message_crc)
  IN  crc32_next_byte(crc32_next_byte(crc32_next_byte(crc32_next_byte(
        message_crc, fcs[1]), fcs[2]), fcs[3]), fcs[4]) = Residue
=============================================================================
