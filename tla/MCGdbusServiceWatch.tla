------------------------- MODULE MCGdbusServiceWatch -------------------------
(* GdbusServiceWatch with two watches on one name.                            *)
EXTENDS GdbusServiceWatch

CONSTANTS w1, w2
=============================================================================
