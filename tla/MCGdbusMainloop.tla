--------------------------- MODULE MCGdbusMainloop ---------------------------
(* GdbusMainloop for TLC. *)
EXTENDS GdbusMainloop
=============================================================================
