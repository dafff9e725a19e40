------------------------------ MODULE MCCrc32 ------------------------------
(* Messages of up to 5 bytes over values with one, several and all bits.   *)
EXTENDS Crc32Check

MCMessageBytes == {0, 1, 85, 128, 255}
=============================================================================
