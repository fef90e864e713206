--------------------------- MODULE MCGdbusPending ---------------------------
(* GdbusPending with objects and interfaces that are all alike. *)
EXTENDS GdbusPending, TLC

Symmetry == Permutations(Object) \union Permutations(Interface)
=============================================================================
