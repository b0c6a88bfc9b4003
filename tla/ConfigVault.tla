---------------------------- MODULE ConfigVault ----------------------------
(***************************************************************************)
(* What the panel's configuration store promises, without files.           *)
(*                                                                         *)
(* `stored' is the document the next boot will load and `running' the one  *)
(* in memory.  A save replaces the stored document in one step, or leaves  *)
(* it alone.  An interruption (power loss, or a rename that fails) may     *)
(* leave the store `fragile': the stored document is still there, but the  *)
(* next step of a save may destroy it, or put an older one in its place,   *)
(* before it has written its own.  ConfigStore implements this             *)
(* specification with three files.                                         *)
(***************************************************************************)
CONSTANTS
    Docs,      \* configuration documents
    Defaults   \* the document a panel without a stored one runs with

VARIABLES
    stored,    \* what the next boot loads
    running,   \* the configuration in memory
    powered,   \* the firmware is running
    fragile,   \* the stored document may not survive a save that fails
    erasing    \* a factory reset is under way

vaultVars == <<stored, running, powered, fragile, erasing>>

VaultInit ==
    /\ stored = Defaults
    /\ running = Defaults
    /\ powered = FALSE
    /\ fragile = TRUE
    /\ erasing = FALSE

PowerOn ==
    /\ ~powered
    /\ powered' = TRUE
    /\ running' = stored
    /\ UNCHANGED <<stored, fragile, erasing>>

\* Losing power keeps the stored document, but may leave it fragile.
PowerOff ==
    /\ powered
    /\ powered' = FALSE
    /\ running' = Defaults
    /\ erasing' = FALSE
    /\ fragile' \in BOOLEAN
    /\ UNCHANGED stored

Change(d) ==
    /\ powered /\ ~erasing
    /\ running' = d
    /\ UNCHANGED <<stored, powered, fragile, erasing>>

Commit ==
    /\ powered /\ ~erasing
    /\ stored' = running
    /\ fragile' = FALSE
    /\ UNCHANGED <<running, powered, erasing>>

\* A save that starts in a fragile store first drops what is stored.
Drop ==
    /\ powered /\ ~erasing /\ fragile
    /\ stored' = Defaults
    /\ UNCHANGED <<running, powered, fragile, erasing>>

\* A save that fails in a fragile store may put an older document back.
Revert ==
    /\ powered /\ ~erasing /\ fragile
    /\ stored' \in Docs
    /\ fragile' = FALSE
    /\ UNCHANGED <<running, powered, erasing>>

\* The end of a save that failed, and the last step before a Commit.
Settle ==
    /\ powered /\ ~erasing
    /\ fragile' \in BOOLEAN
    /\ UNCHANGED <<stored, running, powered, erasing>>

\* A factory reset exposes whatever older document there is, then nothing; what
\* it fails to remove stays, and it ends all the same.
BeginErase ==
    /\ powered /\ ~erasing
    /\ stored' \in Docs
    /\ fragile' \in BOOLEAN
    /\ erasing' = TRUE
    /\ UNCHANGED <<running, powered>>

Erase ==
    /\ powered /\ erasing
    /\ stored' \in {stored, Defaults}
    /\ UNCHANGED <<running, powered, fragile, erasing>>

EndErase ==
    /\ powered /\ erasing
    /\ running' = Defaults
    /\ erasing' = FALSE
    /\ UNCHANGED <<stored, powered, fragile>>

VaultNext ==
    \/ PowerOn \/ PowerOff \/ Commit \/ Drop \/ Revert \/ Settle
    \/ BeginErase \/ Erase \/ EndErase
    \/ \E d \in Docs : Change(d)

VaultSpec == VaultInit /\ [][VaultNext]_vaultVars
=============================================================================
