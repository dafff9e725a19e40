------------------------------- MODULE Crc32 -------------------------------
(***************************************************************************)
(* The Ethernet CRC-32 register of ethernet_framer.h.  An ap_uint<32> is   *)
(* the set of its one bits, so that xor is symmetric difference and no     *)
(* operation on bits has to be computed arithmetically.                    *)
(***************************************************************************)
EXTENDS Integers

Word == SUBSET (0 .. 31)

Xor(a, b) == (a \ b) \union (b \ a)

ShiftRight(a) == { i - 1 : i \in a \ {0} }

Complement(a) == (0 .. 31) \ a

\* The bits of an 8-bit value.
BitsOf(byte) == { i \in 0 .. 7 : (byte \div 2 ^ i) % 2 = 1 }

CrcInit == 0 .. 31                                            \* 0xffffffff

\* Seeded fault: the polynomial in the other bit order, 0x04C11DB7.
CrcPolynomial_MsbFirst == {0, 1, 2, 4, 5, 7, 8, 10, 11, 12, 16, 22, 23, 26}

CrcPolynomial ==                                              \* 0xEDB88320
  {5, 8, 9, 15, 19, 20, 21, 23, 24, 26, 27, 29, 30, 31}

\* One turn of the loop: the bit leaving the register meets one data bit.
CrcBit(crc, bits, i) ==
  IF (0 \in crc) # (i \in bits) THEN Xor(ShiftRight(crc), CrcPolynomial)
                                ELSE ShiftRight(crc)

\* The loop is unrolled in the code as well.
crc32_next_byte(crc, byte) ==
  LET bits == BitsOf(byte)
      Turn(c, i) == CrcBit(c, bits, i)
  IN  Turn(Turn(Turn(Turn(Turn(Turn(Turn(Turn(crc, 0), 1), 2), 3), 4), 5), 6), 7)

\* Seeded fault: the most significant byte first.
WordByte_MsbFirst(word, k) ==
  LET bit(i) == IF 8 * (3 - k) + i \in word THEN 2 ^ i ELSE 0
  IN  bit(0) + bit(1) + bit(2) + bit(3) + bit(4) + bit(5) + bit(6) + bit(7)

\* Byte k of a word, the least significant one being byte 0.
WordByte(word, k) ==
  LET bit(i) == IF 8 * k + i \in word THEN 2 ^ i ELSE 0
  IN  bit(0) + bit(1) + bit(2) + bit(3) + bit(4) + bit(5) + bit(6) + bit(7)
=============================================================================
