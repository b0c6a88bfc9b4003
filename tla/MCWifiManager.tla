--------------------------- MODULE MCWifiManager ----------------------------
(***************************************************************************)
(* Two networks, one of them out of range.                                 *)
(***************************************************************************)
EXTENDS WifiManager

CONSTANTS home, away
=============================================================================
