------------------------------ MODULE MCAgent -------------------------------
(***************************************************************************)
(* One agent, one client of its stream.                                    *)
(***************************************************************************)
EXTENDS Agent
=============================================================================
