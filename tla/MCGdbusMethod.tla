---------------------------- MODULE MCGdbusMethod ----------------------------
(* GdbusMethod with each kind of method and each kind of check.             *)
EXTENDS GdbusMethod

MCMethod ==
    [kind : {"plain", "async", "noReply"}, check : Check]
    \union [kind : {"set", "unknown"}, check : {"none"}]
=============================================================================
