--------------------------- MODULE MCEndpointRate ---------------------------
(* Full line rate: the sizes are such that ReceiverKeepsUp applies.         *)
EXTENDS MCEndpoint

ASSUME RateAssumption == KeepsUp
=============================================================================
