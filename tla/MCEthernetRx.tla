---------------------------- MODULE MCEthernetRx ----------------------------
(* A small receive path: 2 header bytes, 2 payload bytes, 2 FCS bytes, a   *)
(* byte index that wraps at 7 and a preamble counter that saturates at 1.  *)
EXTENDS EthernetRxWire

\* 0x55 is 85, 0xd5 is 213; every other byte tells its position.
MCFrames ==
  { \* preamble longer than the counter, SFD, data long enough to wrap the
    \* index, preamble and SFD values inside the data
    << 85, 85, 213, 1, 2, 85, 213, 5, 6, 7, 8, 9, 10, 11 >>,
    \* no preamble: 0xd5 is the first data byte
    << 213, 17, 85, 19, 20 >>,
    \* preamble without SFD
    << 85, 33, 34, 35, 36 >> }
=============================================================================
