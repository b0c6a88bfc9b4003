---------------------------- MODULE MCDashboard -----------------------------
(***************************************************************************)
(* Two machines, and a finger on a card or on the page indicator.          *)
(***************************************************************************)
EXTENDS Dashboard

CONSTANTS a, b

card == [x |-> 240, y |-> 70]
dots == [x |-> 130, y |-> 222]
MCPoints == {card, dots}
MCDots == {dots}
=============================================================================
