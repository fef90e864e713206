---------------------------- MODULE MCGdbusWatch ----------------------------
(* GdbusWatch with two filters for the same signal, one of them bound to a  *)
(* bus name, and the filter that follows the owner of the name.             *)
EXTENDS GdbusWatch

CONSTANTS byName, anySender, nameOwner, changed

MCKey == {byName, anySender, nameOwner}
MCMatchedBy == [m \in {changed} |-> {byName, anySender}]
=============================================================================
