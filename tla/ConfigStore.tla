---------------------------- MODULE ConfigStore ----------------------------
(***************************************************************************)
(* The panel's persistent configuration: AppState::load, save,             *)
(* writeFileAtomic and factoryReset of firmware/src/app_state.cpp, one     *)
(* flash operation per step, with a power loss possible between any two.   *)
(*                                                                         *)
(* A document is a model value: what matters here is which one is in which *)
(* file.  save() holds the state's mutex for as long as it writes, so the  *)
(* configuration in memory does not change under it and is what it writes. *)
(***************************************************************************)
EXTENDS Naturals

CONSTANTS
    Docs,              \* configuration documents
    Defaults,          \* PanelConfig{}
    NoFile,            \* the file does not exist
    Torn,              \* the file is empty, short or does not parse
    Nothing,           \* no document is promised (a factory reset is incomplete)
    MaxInterruptions   \* bound on the counter of interrupted saves

ASSUME StoreAssumption ==
    /\ Defaults \in Docs
    /\ NoFile \notin Docs /\ Torn \notin Docs /\ Nothing \notin Docs
    /\ NoFile # Torn /\ NoFile # Nothing
    /\ MaxInterruptions \in Nat

VARIABLES
    json,          \* /config.json, the live document
    bak,           \* /config.bak, the one it replaced
    tmp,           \* /config.tmp, the one being written
    config,        \* AppState::config_
    step,          \* how far the task holding the mutex is
    promise,       \* history: what the last save or reset reported as stored
    kept,          \* history: documents the last reset failed to remove
    interruptions  \* history: saves interrupted since the last that succeeded

files == <<json, bak, tmp>>
vars == <<json, bak, tmp, config, step, promise, kept, interruptions>>

Files == Docs \cup {NoFile, Torn}
Saving == {"opened", "written", "bakGone", "rotated"}
Erasing == {"jsonErased", "bakErased"}

TypeOK ==
    /\ json \in Files /\ bak \in Files /\ tmp \in Files
    /\ config \in Docs
    /\ step \in {"off", "idle"} \cup Saving \cup Erasing
    /\ promise \in Docs \cup {NoFile, Nothing}
    /\ kept \subseteq Docs
    /\ interruptions \in 0 .. MaxInterruptions

\* What load() finds: the primary, else the backup, else the defaults.
BootDoc ==
    IF json \in Docs THEN json
    ELSE IF bak \in Docs THEN bak
    ELSE Defaults

Init ==
    /\ json = NoFile /\ bak = NoFile /\ tmp = NoFile
    /\ config = Defaults
    /\ step = "off"
    /\ promise = NoFile /\ kept = {}
    /\ interruptions = 0

\* A mutant of Boot: load() without the fallback to the backup.
BootPrimaryOnly ==
    /\ step = "off"
    /\ step' = "idle"
    /\ config' = json
    /\ UNCHANGED <<json, bak, tmp, promise, kept, interruptions>>

Boot ==
    /\ step = "off"
    /\ step' = "idle"
    /\ config' = BootDoc
    /\ UNCHANGED <<json, bak, tmp, promise, kept, interruptions>>

\* Any handler that changes a setting, with the mutex held.
Mutate(d) ==
    /\ step = "idle"
    /\ config' = d
    /\ UNCHANGED <<json, bak, tmp, step, promise, kept, interruptions>>

(* ------------------------------- save() -------------------------------- *)

\* Opening config.tmp for writing truncates it, at once or when it is synced.
OpenTemp ==
    /\ step = "idle"
    /\ step' = "opened"
    /\ tmp' \in {tmp, Torn}
    /\ UNCHANGED <<json, bak, config, promise, kept, interruptions>>

\* print, flush, close: the whole document or, on a full disk, a part of it.
WriteTemp ==
    /\ step = "opened"
    /\ step' = "written"
    /\ tmp' \in {config, Torn}
    /\ UNCHANGED <<json, bak, config, promise, kept, interruptions>>

\* LittleFS.remove(), whose result no caller looks at.
Remove(file) == {NoFile, file}

\* The short-write and read-back checks: a bad config.tmp is removed.
RejectTemp ==
    /\ step = "written"
    /\ tmp # config
    /\ step' = "idle"
    /\ tmp' \in Remove(tmp)
    /\ UNCHANGED <<json, bak, config, promise, kept, interruptions>>

\* A mutant of RemoveBackup: no read-back of config.tmp.
RemoveBackupUnverified ==
    /\ step = "written"
    /\ step' = "bakGone"
    /\ bak' = NoFile
    /\ UNCHANGED <<json, tmp, config, promise, kept, interruptions>>

RemoveBackup ==
    /\ step = "written"
    /\ tmp = config
    /\ step' = "bakGone"
    /\ bak' \in Remove(bak)
    /\ UNCHANGED <<json, tmp, config, promise, kept, interruptions>>

\* config.json -> config.bak, if there is one.  Its result is not looked at, and
\* it replaces a backup that could not be removed.
Rotate ==
    /\ step = "bakGone"
    /\ step' = "rotated"
    /\ \/ /\ json # NoFile
          /\ bak' = json
          /\ json' = NoFile
          /\ UNCHANGED interruptions
       \/ /\ json = NoFile
          /\ UNCHANGED <<json, bak, interruptions>>
       \/ /\ json # NoFile
          /\ interruptions < MaxInterruptions
          /\ interruptions' = interruptions + 1
          /\ UNCHANGED <<json, bak>>
    /\ UNCHANGED <<tmp, config, promise, kept>>

\* config.tmp -> config.json, which replaces one that could not be rotated.
Install ==
    /\ step = "rotated"
    /\ step' = "idle"
    /\ json' = tmp
    /\ tmp' = NoFile
    /\ promise' = config /\ kept' = {}
    /\ interruptions' = 0
    /\ UNCHANGED <<bak, config>>

\* A mutant of InstallFails: it does not put the backup back.
InstallFailsUnrestored ==
    /\ step = "rotated"
    /\ interruptions < MaxInterruptions
    /\ step' = "idle"
    /\ interruptions' = interruptions + 1
    /\ bak' = NoFile
    /\ UNCHANGED <<json, tmp, config, promise, kept>>

\* The rename fails: the backup is renamed back, unless that fails as well.
InstallFails ==
    /\ step = "rotated"
    /\ interruptions < MaxInterruptions
    /\ step' = "idle"
    /\ interruptions' = interruptions + 1
    /\ \/ /\ bak # NoFile
          /\ json' = bak
          /\ bak' = NoFile
       \/ UNCHANGED <<json, bak>>
    /\ UNCHANGED <<tmp, config, promise, kept>>

(* ---------------------------- factoryReset() --------------------------- *)

\* A removal that fails leaves its document, and the reset goes on.
Erased(file, left) == IF file' = NoFile THEN left ELSE left \cup {file}

EraseJson ==
    /\ step = "idle"
    /\ step' = "jsonErased"
    /\ json' \in Remove(json)
    /\ kept' = Erased(json, {})
    /\ promise' = Nothing
    /\ UNCHANGED <<bak, tmp, config, interruptions>>

\* A mutant of EraseBackup: a reset that forgets the second copy.
EraseBackupSkipped ==
    /\ step = "jsonErased"
    /\ step' = "bakErased"
    /\ UNCHANGED <<json, bak, tmp, config, promise, kept, interruptions>>

EraseBackup ==
    /\ step = "jsonErased"
    /\ step' = "bakErased"
    /\ bak' \in Remove(bak)
    /\ kept' = Erased(bak, kept)
    /\ UNCHANGED <<json, tmp, config, promise, interruptions>>

\* The reset is reported complete, whatever the three removals did.
EraseTemp ==
    /\ step = "bakErased"
    /\ step' = "idle"
    /\ tmp' \in Remove(tmp)
    /\ config' = Defaults
    /\ promise' = NoFile
    /\ interruptions' = 0
    /\ UNCHANGED <<json, bak, kept>>

(* ------------------------------ power ---------------------------------- *)

\* Losing power in the middle of a save interrupts it; otherwise it is free.
PowerLoss ==
    /\ step # "off"
    /\ step' = "off"
    /\ config' = Defaults
    /\ IF step \in Saving
       THEN /\ interruptions < MaxInterruptions
            /\ interruptions' = interruptions + 1
       ELSE UNCHANGED interruptions
    /\ UNCHANGED <<json, bak, tmp, promise, kept>>

Next ==
    \/ Boot
    \/ \E d \in Docs : Mutate(d)
    \/ OpenTemp \/ WriteTemp \/ RejectTemp \/ RemoveBackup
    \/ Rotate \/ Install \/ InstallFails
    \/ EraseJson \/ EraseBackup \/ EraseTemp
    \/ PowerLoss

Spec == Init /\ [][Next]_vars

(* ----------------------------- properties ------------------------------ *)

\* Atomic saving, as far as the code has it: a boot after at most one
\* interruption since the last successful save finds the document that save
\* reported as stored.  Neither the window between the two renames
\* (app_state.cpp:213-215) nor any earlier step can lose it.
SavedSurvivesOneInterruption ==
    step \in {"off", "idle"} /\ interruptions <= 1 /\ promise \in Docs
        => BootDoc = promise

\* A completed factory reset leaves nothing behind that a later boot could load
\* but a document that one of its own removals failed on (app_state.cpp:300-302
\* looks at no result), even when the first save after it is interrupted any
\* number of times.
ResetForgets == promise = NoFile => BootDoc \in {Defaults} \cup kept

\* The store implements ConfigVault: what the next boot finds changes only
\* by a save that completes, by a factory reset, or by a save that starts
\* after an interruption left the live document out of config.json.
Vault == INSTANCE ConfigVault WITH
    stored <- BootDoc,
    running <- config,
    powered <- step # "off",
    fragile <- IF step = "rotated" THEN json \in Docs /\ bak \in Docs
               ELSE json \notin Docs,
    erasing <- step \in Erasing

ImplementsVault == Vault!VaultSpec
=============================================================================
