-------------------------- MODULE DiagnosticsBeacon --------------------------
(***************************************************************************)
(* The text of the beacon, byte for byte, as ethernet_tx_payloads.h lays   *)
(* it out: labels and numbers of fixed width at fixed places.  A 32-bit    *)
(* counter is the integer of the same bits in two's complement, and an     *)
(* address is its bytes.                                                   *)
(***************************************************************************)
EXTENDS Integers, Sequences

CONSTANTS FPGA_MAC, FPGA_IP

Zero == 48
Dot == 46

hex_digit_byte(value) == IF value < 10 THEN Zero + value ELSE 65 + value - 10

\* Seeded fault: the least significant digit comes first.
hex32_byte_LowFirst(value, index) == hex_digit_byte((value \div 16^index) % 16)

hex32_byte(value, index) == hex_digit_byte((value \div 16^(7 - index)) % 16)

hex48_byte(mac, index) ==
  LET byte == mac[(index \div 2) + 1]
  IN  hex_digit_byte(IF index % 2 = 0 THEN byte \div 16 ELSE byte % 16)

\* Seeded fault: leading zeros are left blank.
decimal3_byte_NoZeros(value, index) ==
  IF value < 10^(2 - index) THEN 32 ELSE Zero + ((value \div 10^(2 - index)) % 10)

decimal3_byte(value, index) == Zero + ((value \div 10^(2 - index)) % 10)

ipv4_fixed_byte(ip, index) ==
  IF index % 4 = 3 THEN Dot ELSE decimal3_byte(ip[(index \div 4) + 1], index % 4)

IpAt == 8
MacAt == 28
CountAt == << 44, 57, 70, 83, 96, 109, 121 >>
BEACON_PAYLOAD_BYTES == 129

Labels ==
  { [at |-> 0,   text |-> << 65, 82, 84, 89, 32, 73, 80, 61 >>],  \* ARTY IP=
    [at |-> 23,  text |-> << 32, 77, 65, 67, 61 >>],              \*  MAC=
    [at |-> 40,  text |-> << 32, 82, 88, 61 >>],                  \*  RX=
    [at |-> 52,  text |-> << 32, 82, 88, 81, 61 >>],              \*  RXQ=
    [at |-> 65,  text |-> << 32, 82, 88, 80, 61 >>],              \*  RXP=
    [at |-> 78,  text |-> << 32, 84, 88, 68, 61 >>],              \*  TXD=
    [at |-> 91,  text |-> << 32, 65, 82, 80, 61 >>],              \*  ARP=
    [at |-> 104, text |-> << 32, 85, 68, 80, 61 >>],              \*  UDP=
    [at |-> 117, text |-> << 32, 85, 80, 61 >>] }                 \*  UP=

LiteralByte(index) ==
  LET here == { l \in Labels : index \in l.at .. l.at + Len(l.text) - 1 }
  IN  IF here = {} THEN Zero
      ELSE LET l == CHOOSE l \in here : TRUE IN l.text[index - l.at + 1]

\* counts: RX, RXQ, RXP, TXD, ARP, UDP, UP.
beacon_payload_literal_byte(index, counts) ==
  LET numbers == { k \in 1 .. 7 : index \in CountAt[k] .. CountAt[k] + 7 }
  IN  CASE index \in IpAt .. IpAt + 14   -> ipv4_fixed_byte(FPGA_IP, index - IpAt)
        [] index \in MacAt .. MacAt + 11 -> hex48_byte(FPGA_MAC, index - MacAt)
        [] numbers # {} -> LET k == CHOOSE k \in numbers : TRUE
                           IN  hex32_byte(counts[k], index - CountAt[k])
        [] OTHER -> LiteralByte(index)

BeaconPayload(counts) ==
  [i \in 1 .. BEACON_PAYLOAD_BYTES |-> beacon_payload_literal_byte(i - 1, counts)]
=============================================================================
