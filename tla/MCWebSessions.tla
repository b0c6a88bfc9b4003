--------------------------- MODULE MCWebSessions ----------------------------
(***************************************************************************)
(* A browser of one or two tabs and one or two other browsers, with tables *)
(* that one of them more than fills.                                       *)
(***************************************************************************)
EXTENDS WebSessions

CONSTANTS t1, t2, home, peer, p2
=============================================================================
