---------------------------- MODULE MCGdbusClient ----------------------------
(* GdbusClient with up to two interfaces, whose properties have up to two     *)
(* values.                                                                    *)
EXTENDS GdbusClient

CONSTANTS n1, n2, v1, v2
=============================================================================
