--------------------------- MODULE DeviceRegistry ---------------------------
(***************************************************************************)
(* The panel's device registry under everything that changes it: discovery *)
(* (mDNS scans and retained MQTT meta messages), samples, and the user's   *)
(* requests over the web API and the touch screen.  Every handler holds the*)
(* AppState mutex while it works, so each is one step.                     *)
(***************************************************************************)
EXTENDS Registry

CONSTANTS
    Ids,         \* device identities
    Adverts,     \* devices as a scan or a meta message describes them
    Manuals,     \* devices as POST /api/devices describes them
    Edits,       \* <<field, value>> of a PUT /api/devices/{id}
    AgentNames,  \* names agents report in their samples
    Documents,   \* device lists of a restored or patched configuration
    MaxListed    \* longest list a reorder request names

Configs == ConfigsOf(Ids)

\* Discovery never reports a manual device; a PUT leaves the id and the source.
ASSUME RegistryAssumption ==
    /\ Adverts \cup Manuals \subseteq Configs
    /\ \A advert \in Adverts : advert.source # "manual"
    /\ Edits \subseteq
         ({"name", "alias", "baseUrl", "auth", "token", "order"} \X Nat)
             \cup ({"shown"} \X BOOLEAN)
    /\ AgentNames \subseteq Nat
    /\ Documents \subseteq Seq(Configs)
    /\ MaxListed \in Nat

VARIABLES
    devices,     \* DeviceRegistry::devices_, the configuration of each
    pending,     \* DeviceRegistry::pending_
    autoAdd,     \* config.discovery.autoAdd
    typed,       \* history: the address the user typed for a device, or NoText
    heard,       \* history: what discovery last said of a device that waits
    missed,      \* history: waiting devices whose last advert found no room
    dismissed,   \* history: devices deleted and not accepted again
    overlapped   \* history: an id has been active and pending at once

vars == <<devices, pending, autoAdd, typed, heard, missed, dismissed, overlapped>>

Registered == [devices |-> devices, pending |-> pending, ok |-> TRUE]
Silent == [heard |-> FALSE]
IdsOf(list) == {list[i].id : i \in DOMAIN list}
Distinct(list) ==
    \A i, j \in DOMAIN list : list[i].id = list[j].id => i = j

\* The step a handler takes, once the registry's method has returned `reg'.
Become(reg) ==
    /\ devices' = reg.devices
    /\ pending' = reg.pending
    /\ overlapped' =
         (overlapped \/ IdsOf(reg.devices) \cap IdsOf(reg.pending) # {})
    /\ dismissed' = dismissed \ (IdsOf(reg.devices) \ IdsOf(devices))

\* The histories forget a device that left the list they are about.
StillHeard(hearing, reg) ==
    [id \in Ids |-> IF Has(reg.pending, id) THEN hearing[id] ELSE Silent]
StillTyped(typing, reg) ==
    [id \in Ids |-> IF Has(reg.devices, id) THEN typing[id] ELSE NoText]

Init ==
    /\ devices = << >> /\ pending = << >>
    /\ autoAdd = FALSE
    /\ typed = [id \in Ids |-> NoText]
    /\ heard = [id \in Ids |-> Silent]
    /\ missed = {}
    /\ dismissed = {}
    /\ overlapped = FALSE

\* applyDiscovery() and onMqttMeta().  With auto-add on and no room among the
\* active devices the advert is dropped, and an entry that waits stays as it is.
Discover(advert) ==
    LET reg == UpsertDiscovered(Registered, advert, autoAdd)
        id == advert.id
        dropped == autoAdd /\ ~Has(devices, id) /\ Full(Registered)
    IN /\ Become(reg)
       /\ heard' = StillHeard([heard EXCEPT ![id] = advert], reg)
       /\ missed' = IF dropped /\ Has(pending, id) THEN missed \cup {id}
                    ELSE missed \ {id}
       /\ UNCHANGED <<autoAdd, typed>>

\* onMqttSample() and the end of pollOneDevice().
Sample(id, agentName) ==
    /\ Become(Sampled(Registered, id, agentName))
    /\ UNCHANGED <<autoAdd, typed, heard, missed>>

\* handlePostDevice().
AddManual(incoming) ==
    LET reg == UpsertManual(Registered, incoming)
    IN /\ Become(reg)
       /\ typed' = StillTyped([typed EXCEPT ![incoming.id] = incoming.baseUrl], reg)
       /\ heard' = StillHeard(heard, reg)
       /\ UNCHANGED <<autoAdd, missed>>

\* handlePutDevice().
Edit(id, field, value) ==
    /\ Has(devices, id)
    /\ Become(Edited(Registered, id, field, value))
    /\ typed' = IF field = "baseUrl" THEN [typed EXCEPT ![id] = value]
                ELSE typed
    /\ UNCHANGED <<autoAdd, heard, missed>>

\* handleDeleteDevice(): an active device, or else a pending one.
Delete(id) ==
    LET removed == Removed(Registered, id)
        reg == IF removed.ok THEN removed ELSE Rejected(Registered, id)
    IN /\ reg.ok
       /\ devices' = reg.devices
       /\ pending' = reg.pending
       /\ typed' = StillTyped(typed, reg)
       /\ heard' = StillHeard(heard, reg)
       /\ dismissed' = dismissed \cup {id}
       /\ UNCHANGED <<autoAdd, missed, overlapped>>

\* handleApproveDevice() and the screen's onApproveDiscovered().
Approve(id) ==
    LET reg == Approved(Registered, id)
    IN /\ reg.ok
       /\ Become(reg)
       /\ heard' = StillHeard(heard, reg)
       /\ UNCHANGED <<autoAdd, typed, missed>>

\* handleReorder().
Reorder(ids) ==
    /\ Become(Reordered(Registered, ids))
    /\ UNCHANGED <<autoAdd, typed, heard, missed>>

\* discovery.auto_add of a patched configuration.
ToggleAutoAdd ==
    /\ autoAdd' = ~autoAdd
    /\ UNCHANGED <<devices, pending, typed, heard, missed, dismissed, overlapped>>

\* A restore or a patch with a device list.  It leaves pending_ as it is.
Load(document) ==
    LET reg == Loaded(Registered, document)
        IsManual(id) == \E i \in DOMAIN reg.devices :
                            reg.devices[i].id = id /\ reg.devices[i].source = "manual"
    IN /\ Become(reg)
       /\ typed' = [id \in Ids |->
             IF IsManual(id)
             THEN reg.devices[Position(reg.devices, id)].baseUrl
             ELSE NoText]
       /\ UNCHANGED <<autoAdd, heard, missed>>

\* The registry's part of factoryReset().
FactoryReset ==
    LET reg == [Loaded(Registered, << >>) EXCEPT !.pending = << >>]
    IN /\ Become(reg)
       /\ autoAdd' = FALSE
       /\ typed' = StillTyped(typed, reg)
       /\ heard' = StillHeard(heard, reg)
       /\ UNCHANGED missed

Orders == UNION {[1 .. n -> Ids] : n \in 0 .. MaxListed}

Next ==
    \/ \E advert \in Adverts : Discover(advert)
    \/ \E id \in Ids, name \in AgentNames : Sample(id, name)
    \/ \E incoming \in Manuals : AddManual(incoming)
    \/ \E id \in Ids, edit \in Edits : Edit(id, edit[1], edit[2])
    \/ \E id \in Ids : Delete(id) \/ Approve(id)
    \/ \E ids \in Orders : Reorder(ids)
    \/ ToggleAutoAdd
    \/ \E document \in Documents : Load(document)
    \/ FactoryReset

Spec == Init /\ [][Next]_vars

(* ----------------------------- properties ------------------------------ *)

\* Both lists hold device configurations and neither outgrows kMaxDevices,
\* whichever of the six ways in a device takes.
TypeOK ==
    /\ devices \in ListsOf(Ids) /\ pending \in ListsOf(Ids)
    /\ autoAdd \in BOOLEAN
    /\ typed \in [Ids -> Nat]
    /\ heard \in [Ids -> Configs \cup {Silent}]
    /\ missed \subseteq Ids
    /\ dismissed \subseteq Ids
    /\ overlapped \in BOOLEAN

\* A physical machine has one entry, whichever way it was found, as long as
\* it was never active and pending at once (fp_devices.h:3-6; upsertManual
\* withdraws the pending entry, upsertDiscovered looks for the active one).
UniqueUnlessOverlap ==
    ~overlapped => Distinct(devices) /\ Distinct(pending)

\* Approving a pending device uses the address discovery last reported, as
\* the comment at fp_devices.cpp:231 wants: nothing leaves an old one behind,
\* except that an advert auto-add found no room for is not noted at all, and
\* the address stays old until discovery speaks with auto-add off
\* (fp_devices.cpp:228, 245-247).
PendingIsLatestHeard ==
    ~overlapped => \A i \in DOMAIN pending :
        pending[i].id \in missed \/ pending[i] = heard[pending[i].id]

\* The address of a device the user entered by hand is the one he typed,
\* whatever discovery, samples, merges and later edits did to the entry.
ManualAddressKept ==
    \A i \in DOMAIN devices :
        LET d == devices[i]
        IN d.source = "manual" /\ typed[d.id] # NoText
               => d.baseUrl = typed[d.id]

\* A deleted device does not come back by itself: only the user (by adding,
\* approving or restoring it) or an auto-add he turned on can bring it back.
DismissedStaysOut ==
    [][\A id \in dismissed :
          Has(devices', id) =>
              autoAdd \/ (\E incoming \in Manuals : AddManual(incoming))
                      \/ Approve(id)
                      \/ (\E document \in Documents : Load(document))]_vars

LastMention(ids, id) == SelectLastInSeq(ids, LAMBDA e : e = id)

\* Whenever a reorder comes, it leaves the listed devices first on the
\* dashboard and in the order the request named them, whatever numbers earlier
\* removals, additions and edits had left.
ReorderShowsListedFirst ==
    Distinct(devices) =>
        \A ids \in Orders :
            LET after == Reordered(Registered, ids).devices
                dashboard == VisibleOrder(after)
                IdAt(k) == after[dashboard[k]].id
            IN \A j, k \in DOMAIN dashboard :
                  Contains(ids, IdAt(k)) /\ j < k =>
                      /\ Contains(ids, IdAt(j))
                      /\ LastMention(ids, IdAt(j)) < LastMention(ids, IdAt(k))
=============================================================================
