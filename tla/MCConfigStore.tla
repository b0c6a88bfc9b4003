--------------------------- MODULE MCConfigStore ---------------------------
(***************************************************************************)
(* Model values and a bound for ConfigStore: the defaults and two documents*)
(* a user may have saved tell an older from a newer one, and three         *)
(* interruptions are one more than the worst run needs.                    *)
(***************************************************************************)
EXTENDS ConfigStore

CONSTANTS blank, d1, d2

MCDocs == {blank, d1, d2}
=============================================================================
