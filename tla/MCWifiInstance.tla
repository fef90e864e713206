--------------------------- MODULE MCWifiInstance ---------------------------
(* WifiInstance for TLC: one page, one reply id, a few property changes.   *)
EXTENDS WifiInstance
=============================================================================
