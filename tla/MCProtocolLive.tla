--------------------------- MODULE MCProtocolLive ---------------------------
(* The handler for longer: the intervals are such that QuietBoardIsPunctual *)
(* applies.                                                                 *)
EXTENDS MCProtocolHandler

ASSUME LiveIntervals == IntervalsFit
=============================================================================
