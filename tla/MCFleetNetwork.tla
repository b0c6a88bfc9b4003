--------------------------- MODULE MCFleetNetwork ---------------------------
(***************************************************************************)
(* One agent, at one of two addresses; nobody answers at the other.  An    *)
(* entry has the agent's identity or the provisional one of an address the *)
(* user typed.                                                             *)
(***************************************************************************)
EXTENDS FleetNetwork

CONSTANTS a, p, u, v, b

MCHostOf == [url \in {u, v} |-> IF url = u THEN a ELSE None]
MCEntries == {<<a, u>>, <<p, u>>}
MCEdits == {<<a, u, TRUE>>, <<a, v, TRUE>>, <<a, u, FALSE>>}
MCEntry == {<<a, u>>}
MCOff == {NoSettings}
MCSettings ==
    {[on |-> TRUE, broker |-> b], [on |-> FALSE, broker |-> b],
     [on |-> TRUE, broker |-> None]}
=============================================================================
