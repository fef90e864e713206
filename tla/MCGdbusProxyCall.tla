--------------------------- MODULE MCGdbusProxyCall --------------------------
(* GdbusProxyCall for TLC.  *)
EXTENDS GdbusProxyCall
=============================================================================
