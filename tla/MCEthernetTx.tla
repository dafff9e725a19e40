---------------------------- MODULE MCEthernetTx ----------------------------
(* A small transmit path: 3 slots of 4 bytes, padding to 3 bytes, one *)
(* preamble byte, a gap of 3 nibbles.                                      *)
EXTENDS EthernetTxWire

\* Empty, of the minimum, one more (a full slot).
MCBodies == { << >>, << 1, 2, 3 >>, << 4, 5, 6, 215 >> }
=============================================================================
