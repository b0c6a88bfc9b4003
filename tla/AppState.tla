------------------------------ MODULE AppState ------------------------------
(***************************************************************************)
(* app::AppState: the configuration in memory, the device registry beside  *)
(* it, the document on flash and a client that reads the configuration and *)
(* writes it back.  config_.devices is a copy of the registry that is only *)
(* refreshed by save() and backup(), and the registry is rebuilt from it by*)
(* boot, restore and PUT /api/config.                                      *)
(*                                                                         *)
(* Every handler holds the mutex, so each is one step; a save is one step  *)
(* because ConfigStore implements ConfigVault (no save is interrupted twice*)
(* in a row).  The settings other than the device list are one value.      *)
(***************************************************************************)
EXTENDS Registry

CONSTANTS
    Settings,     \* values of the settings, 0 the defaults
    AutoAdding,   \* those with discovery.auto_add
    Oversized,    \* those whose document exceeds kMaxConfigBytes
    Ids,          \* device identities
    Adverts,      \* devices as discovery describes them
    Manuals,      \* devices as POST /api/devices describes them
    Edits,        \* <<id, field, value>> of a PUT /api/devices/{id}
    AgentNames,   \* names agents report in their samples
    OldDocuments  \* documents earlier firmware left on flash

DeviceLists == ListsOf(Ids)
Stored == [version : {1, 2}, settings : Settings, devices : DeviceLists]
NoDocument == [version |-> 0]
Redacted == 99   \* the text that stands for a secret in a plain document
TokensKnown(list) == \A i \in DOMAIN list : list[i].token # Redacted

\* deviceFromJson() takes no redacted token for a token, discovery knows none.
ASSUME AppAssumption ==
    /\ 0 \in Settings /\ AutoAdding \cup Oversized \subseteq Settings
    /\ Adverts \cup Manuals \subseteq ConfigsOf(Ids)
    /\ \A device \in Adverts \cup Manuals : device.token # Redacted
    /\ Edits \subseteq
         (Ids \X {"name", "alias", "baseUrl", "auth", "order"} \X Nat)
             \cup (Ids \X {"token"} \X (Nat \ {Redacted}))
             \cup (Ids \X {"shown"} \X BOOLEAN)
    /\ AgentNames \subseteq Nat
    /\ \A document \in OldDocuments : /\ document \in Stored /\ document.version = 1
                                     /\ TokensKnown(document.devices)

VARIABLES
    flash,        \* the stored document, or NoDocument
    storage,      \* AppState::storageReady_
    powered,
    settings,     \* config_, but for its devices
    cfgDevices,   \* config_.devices
    devices,      \* devices_
    pending,      \* devices_.pending_
    saveAt,       \* saveRequestedAtMs_: "none", "fresh" or "settled" (1.5 s old)
    copy,         \* the document a client holds, or NoDocument
    failed,       \* history: the last save, or the removals of a reset, failed
    wiped         \* history: nobody has added a device since the factory reset

memory == <<settings, cfgDevices, devices, pending>>
vars == <<flash, storage, powered, memory, saveAt, copy, failed, wiped>>

Document(setting, list) == [version |-> 2, settings |-> setting, devices |-> list]
Registered == [devices |-> devices, pending |-> pending, ok |-> TRUE]

Redact(list) ==
    [i \in DOMAIN list |->
        [list[i] EXCEPT !.token = IF @ = NoText THEN NoText ELSE Redacted]]

\* A mutant of ApplyDevices: the redacted token is taken for a token.
ApplyDevicesVerbatim(list, current) == list

\* applyDevices(): a redacted token is the one the current list has.
ApplyDevices(list, current) ==
    [i \in DOMAIN list |->
        [list[i] EXCEPT !.token =
            IF @ # Redacted THEN @
            ELSE IF Has(current, list[i].id)
            THEN current[Position(current, list[i].id)].token
            ELSE NoText]]

Init ==
    /\ flash \in {NoDocument} \cup OldDocuments
    /\ storage = FALSE /\ powered = FALSE
    /\ settings = 0
    /\ cfgDevices = << >> /\ devices = << >> /\ pending = << >>
    /\ saveAt = "none"
    /\ copy = NoDocument
    /\ failed = FALSE
    /\ wiped = FALSE

(* ------------------------------- saving -------------------------------- *)

\* save() of what is in memory: config_.devices is refreshed, and a write
\* that succeeds or fails withdraws the request.  An oversized document is
\* refused before that, and leaves the request standing.
Save(setting, list, request) ==
    /\ cfgDevices' = list
    /\ IF setting \in Oversized
       THEN /\ saveAt' = request
            /\ failed' = TRUE
            /\ UNCHANGED flash
       ELSE /\ saveAt' = "none"
            /\ \/ /\ flash' = Document(setting, list)
                  /\ failed' = FALSE
               \/ /\ failed' = TRUE
                  /\ UNCHANGED flash

\* A mutant of Flush: the write happens without refreshing config_.devices.
FlushUnsynced ==
    /\ powered /\ storage
    /\ saveAt = "settled"
    /\ Save(settings, cfgDevices, saveAt)
    /\ UNCHANGED <<storage, powered, settings, devices, pending, copy, wiped>>

\* Another mutant of Flush: after a failure it does not try again.
FlushGivingUp ==
    /\ powered /\ storage /\ ~failed
    /\ saveAt = "settled"
    /\ Save(settings, devices, saveAt)
    /\ UNCHANGED <<storage, powered, settings, devices, pending, copy, wiped>>

\* flushPendingSave(), from the network task.
Flush ==
    /\ powered /\ storage
    /\ saveAt = "settled"
    /\ Save(settings, devices, saveAt)
    /\ UNCHANGED <<storage, powered, settings, devices, pending, copy, wiped>>

\* The settling time passes without another request.
Settle ==
    /\ powered
    /\ saveAt = "fresh"
    /\ saveAt' = "settled"
    /\ UNCHANGED <<flash, storage, powered, memory, copy, failed, wiped>>

(* -------------------------------- power -------------------------------- *)

\* begin() and load(): a document of an earlier version is saved at once,
\* from a registry that is still empty.
Boot ==
    /\ ~powered
    /\ powered' = TRUE
    /\ storage' = TRUE
    /\ \/ /\ flash = NoDocument
          /\ settings' = 0
          /\ cfgDevices' = << >>
          /\ UNCHANGED <<flash, saveAt, failed>>
       \/ /\ flash.version = 2
          /\ settings' = flash.settings
          /\ cfgDevices' = flash.devices
          /\ UNCHANGED <<flash, saveAt, failed>>
       \/ /\ flash.version = 1
          /\ settings' = flash.settings
          /\ Save(flash.settings, << >>, saveAt)
    /\ devices' = cfgDevices'
    /\ UNCHANGED <<pending, copy, wiped>>

\* begin() when the file system does not mount.
BootUnmounted ==
    /\ ~powered
    /\ powered' = TRUE
    /\ UNCHANGED <<flash, storage, memory, saveAt, copy, failed, wiped>>

\* A restart or a power loss: the memory goes, with the save it was to make.
PowerOff ==
    /\ powered
    /\ powered' = FALSE
    /\ storage' = FALSE
    /\ settings' = 0
    /\ cfgDevices' = << >> /\ devices' = << >> /\ pending' = << >>
    /\ saveAt' = "none"
    /\ failed' = FALSE
    /\ UNCHANGED <<flash, copy, wiped>>

(* ------------------------------- handlers ------------------------------ *)

\* What the handlers of the registry do when its method returns `reg'.
Update(reg) ==
    /\ powered
    /\ reg.ok
    /\ devices' = reg.devices
    /\ pending' = reg.pending
    /\ saveAt' = "fresh"
    /\ UNCHANGED <<flash, storage, powered, settings, cfgDevices, copy, failed>>

Discover(advert) ==
    /\ Update(UpsertDiscovered(Registered, advert, settings \in AutoAdding))
    /\ wiped' = (wiped /\ settings \notin AutoAdding)

AddManual(incoming) ==
    /\ Update(UpsertManual(Registered, incoming))
    /\ wiped' = FALSE

\* handlePostDevice() when nothing but the source changes: the request is
\* refused as if the list were full, and the change is not announced.
AddManualRefused(incoming) ==
    LET reg == UpsertManual(Registered, incoming)
    IN /\ powered
       /\ ~reg.ok
       /\ devices' = reg.devices
       /\ UNCHANGED <<flash, storage, powered, settings, cfgDevices, pending,
                      saveAt, copy, failed, wiped>>

Approve(id) ==
    /\ Update(Approved(Registered, id))
    /\ wiped' = FALSE

\* A mutant of Edit: the handler forgets to ask for a save.
EditUnsaved(id, field, value) ==
    LET reg == Edited(Registered, id, field, value)
    IN /\ powered /\ reg.ok
       /\ devices' = reg.devices
       /\ UNCHANGED <<flash, storage, powered, settings, cfgDevices, pending,
                      saveAt, copy, failed, wiped>>

Edit(id, field, value) ==
    /\ Update(Edited(Registered, id, field, value))
    /\ UNCHANGED wiped

Delete(id) ==
    LET removed == Removed(Registered, id)
    IN /\ Update(IF removed.ok THEN removed ELSE Rejected(Registered, id))
       /\ UNCHANGED wiped

Reorder(ids) ==
    /\ Update(Reordered(Registered, ids))
    /\ UNCHANGED wiped

\* A sample may rename a device, which is not worth a save.
Sample(id, agentName) ==
    /\ powered
    /\ devices' = Sampled(Registered, id, agentName).devices
    /\ UNCHANGED <<flash, storage, powered, settings, cfgDevices, pending,
                   saveAt, copy, failed, wiped>>

\* A setting changed on the touch screen, by the Wi-Fi manager or by a web
\* request of its own.
ChangeSetting(setting) ==
    /\ powered
    /\ settings' = setting
    /\ saveAt' = "fresh"
    /\ UNCHANGED <<flash, storage, powered, cfgDevices, devices, pending, copy,
                   failed, wiped>>

\* setAdminPassword() saves at once.
SetAdminPassword(setting) ==
    /\ powered
    /\ settings' = setting
    /\ IF storage THEN Save(setting, devices, saveAt)
       ELSE /\ failed' = TRUE
            /\ UNCHANGED <<flash, cfgDevices, saveAt>>
    /\ UNCHANGED <<storage, powered, devices, pending, copy, wiped>>

\* A patch: `list' are the devices it names, or those config_ has already.
PutConfig(setting, list) ==
    /\ powered
    /\ settings' = setting
    /\ cfgDevices' = list
    /\ devices' = Loaded(Registered, list).devices
    /\ saveAt' = "fresh"
    /\ UNCHANGED <<flash, storage, powered, pending, copy, failed>>

\* handlePutConfig() with a document that has no "devices" key.
PutSetting(setting) ==
    /\ PutConfig(setting, cfgDevices)
    /\ UNCHANGED wiped

\* handlePutConfig() with the document the client got.
PutCopy ==
    /\ copy # NoDocument
    /\ PutConfig(copy.settings, ApplyDevices(copy.devices, cfgDevices))
    /\ wiped' = FALSE

\* handleGetConfig() and handleBackup() without or with secrets.
Backup(secrets) ==
    /\ powered
    /\ cfgDevices' = devices
    /\ copy' = Document(settings, IF secrets THEN devices ELSE Redact(devices))
    /\ UNCHANGED <<flash, storage, powered, settings, devices, pending, saveAt,
                   failed, wiped>>

\* handleRestore(): in memory first, then saved; pending_ stays as it is.
Restore ==
    LET list == ApplyDevices(copy.devices, << >>)
        loaded == Loaded(Registered, list).devices
    IN /\ powered
       /\ copy # NoDocument
       /\ settings' = copy.settings
       /\ devices' = loaded
       /\ IF storage THEN Save(copy.settings, loaded, saveAt)
          ELSE /\ cfgDevices' = list
               /\ failed' = TRUE
               /\ UNCHANGED <<flash, saveAt>>
       /\ wiped' = FALSE
       /\ UNCHANGED <<storage, powered, pending, copy>>

\* A mutant of FactoryReset: it leaves the registry as it is.
FactoryResetKeepingDevices ==
    /\ powered
    /\ flash' \in {flash} \cup (IF storage THEN {NoDocument} ELSE {})
    /\ settings' = 0
    /\ cfgDevices' = << >>
    /\ failed' = (flash' # NoDocument)
    /\ wiped' = (storage /\ ~failed')
    /\ UNCHANGED <<storage, powered, devices, pending, saveAt, copy>>

\* factoryReset().  A save that was asked for before is still made after it; a
\* removal that fails leaves the document, and its result is not looked at (an
\* older document, from the backup: ConfigStore).
FactoryReset ==
    /\ powered
    /\ flash' \in {flash} \cup (IF storage THEN {NoDocument} ELSE {})
    /\ settings' = 0
    /\ cfgDevices' = << >> /\ devices' = << >> /\ pending' = << >>
    /\ failed' = (flash' # NoDocument)
    /\ wiped' = (storage /\ ~failed')
    /\ UNCHANGED <<storage, powered, saveAt, copy>>

Next ==
    \/ Flush \/ Settle
    \/ Boot \/ BootUnmounted \/ PowerOff
    \/ \E advert \in Adverts : Discover(advert)
    \/ \E incoming \in Manuals : AddManual(incoming) \/ AddManualRefused(incoming)
    \/ \E id \in Ids : Approve(id) \/ Delete(id) \/ Reorder(<<id>>)
    \/ \E id \in Ids, name \in AgentNames : Sample(id, name)
    \/ \E edit \in Edits : Edit(edit[1], edit[2], edit[3])
    \/ \E setting \in Settings :
          ChangeSetting(setting) \/ SetAdminPassword(setting) \/ PutSetting(setting)
    \/ \E secrets \in BOOLEAN : Backup(secrets)
    \/ PutCopy \/ Restore \/ FactoryReset

\* The network task runs for as long as the panel is powered.
Fairness == WF_vars(Settle) /\ WF_vars(Flush)

Spec == Init /\ [][Next]_vars /\ Fairness

(* ----------------------------- properties ------------------------------ *)

\* The state has its types; no secret ever becomes the word for a secret.
TypeOK ==
    /\ flash \in Stored \cup {NoDocument}
    /\ copy \in Stored \cup {NoDocument}
    /\ storage \in BOOLEAN /\ powered \in BOOLEAN
    /\ settings \in Settings
    /\ cfgDevices \in DeviceLists /\ devices \in DeviceLists
    /\ pending \in DeviceLists
    /\ saveAt \in {"none", "fresh", "settled"}
    /\ failed \in BOOLEAN /\ wiped \in BOOLEAN
    /\ TokensKnown(devices)

\* What the user set in a device list: a sample may have changed the name and
\* a refused POST the source, without asking for a save.
View(list) ==
    [i \in DOMAIN list |-> [list[i] EXCEPT !.name = NoText, !.source = "manual"]]

OnFlash ==
    IF flash = NoDocument THEN <<0, << >> >>
    ELSE <<flash.settings, View(flash.devices)>>

\* What is in memory and not yet on flash has a save coming, whichever of the
\* twelve handlers changed it, or the last save (or reset) failed: a restart
\* after the save loses nothing.
NothingForgotten ==
    powered /\ storage /\ saveAt = "none" /\ ~failed
        => OnFlash = <<settings, View(devices)>>

\* Once changes have been saved, the copy of the registry that a patch
\* without devices is merged into is the registry: such a patch is safe then.
CopyFreshOnceSaved ==
    powered /\ storage /\ saveAt = "none" => View(cfgDevices) = View(devices)

\* No device survives a factory reset whose removals succeed, in memory or on
\* flash, not even through the save that was pending when it happened.
ResetForgotten ==
    wiped => devices = << >> /\ cfgDevices = << >> /\ OnFlash[2] = << >>

\* A change is written once the user stops making changes, unless its
\* document is too large: no order of requests and saves loses the request.
QuietMeansSaved ==
    <>[][saveAt' # "fresh"]_vars =>
        (saveAt = "fresh"
            ~> saveAt = "none" \/ ~storage \/ settings \in Oversized)

\* A document of earlier firmware still loads (fp_config.cpp:71-72), so the
\* devices it lists are there after the boot that migrates it.
MigrationKeepsDevices ==
    [][Boot /\ flash # NoDocument => View(devices') = View(flash.devices)]_vars
=============================================================================
