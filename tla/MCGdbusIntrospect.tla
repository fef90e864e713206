-------------------------- MODULE MCGdbusIntrospect --------------------------
(* GdbusObject with GdbusIntrospect for TLC: "/", an object below it, a    *)
(* second one below that, and two interfaces that either object may carry. *)
EXTENDS GdbusIntrospect, TLC

CONSTANTS top, low, a, b

MCPath == {top, low}
MCAbove == (top :> {}) @@ (low :> {top})
MCIface == {a, b}
=============================================================================
