------------------------------ MODULE Registry ------------------------------
(***************************************************************************)
(* fp::DeviceRegistry of firmware/lib/fleet_core/fp_devices.cpp as         *)
(* operators: each takes a registry and returns the one the method leaves, *)
(* with the value the method returns in its `ok' field.                    *)
(*                                                                         *)
(* A text field is a natural number and NoText the empty string; numbers   *)
(* keep the order labels are sorted in.  `shown' stands for enabled and    *)
(* not hidden; path follows the rules of baseUrl and auth, platform those  *)
(* of name, carousel those of shown, so they are left out.                 *)
(***************************************************************************)
EXTENDS Naturals, Sequences, FiniteSets, SequencesExt

CONSTANT MaxDevices   \* kMaxDevices

ASSUME CapacityAssumption == MaxDevices \in Nat \ {0}

NoText == 0

\* A DeviceConfig, and a list of them that fits.
ConfigsOf(ids) ==
    [id : ids, name : Nat, alias : Nat, baseUrl : Nat, auth : Nat, token : Nat,
     source : {"mdns", "mqtt", "manual"}, shown : BOOLEAN, order : Nat]
ListsOf(ids) == {list \in Seq(ConfigsOf(ids)) : Len(list) <= MaxDevices}

Has(list, id) == \E i \in DOMAIN list : list[i].id = id
Position(list, id) == SelectInSeq(list, LAMBDA d : d.id = id)

\* remove_if() and erase(): what stands at the positions in `keep'.
Kept(list, keep) ==
    LET upTo[n \in 0 .. Len(list)] ==
          IF n = 0 THEN << >>
          ELSE IF n \in keep THEN Append(upTo[n - 1], list[n])
          ELSE upTo[n - 1]
    IN upTo[Len(list)]

Without(list, id) == Kept(list, {i \in DOMAIN list : list[i].id # id})

\* A mutant of MergeInto: the exception for a typed address forgotten.
MergeIntoAnyAddress(current, incoming, fromDiscovery) ==
    [current EXCEPT !.baseUrl = incoming.baseUrl, !.auth = incoming.auth]

\* Merging what was learnt about a device into its entry.
MergeInto(current, incoming, fromDiscovery) ==
    LET mayReplaceTransport ==
            \/ ~fromDiscovery
            \/ current.source # "manual"
            \/ current.baseUrl = NoText
        Filled(new, old) == IF new # NoText THEN new ELSE old
        learnt ==
            [current EXCEPT
                !.name = Filled(incoming.name, @),
                !.baseUrl = IF mayReplaceTransport
                            THEN Filled(incoming.baseUrl, @) ELSE @,
                !.auth = IF mayReplaceTransport THEN incoming.auth ELSE @,
                !.token = Filled(incoming.token, @)]
    IN IF fromDiscovery THEN learnt
       ELSE [learnt EXCEPT
                !.alias = incoming.alias,
                !.shown = incoming.shown,
                !.source = IF incoming.source = "manual" THEN "manual" ELSE @]

Refused(reg) == [reg EXCEPT !.ok = FALSE]
\* A mutant of Full: an off-by-one.
FullOffByOne(reg) == Len(reg.devices) > MaxDevices

Full(reg) == Len(reg.devices) >= MaxDevices

\* A new entry takes the next number as its place on the dashboard.
Added(reg, device) ==
    [reg EXCEPT
        !.devices = Append(@, [device EXCEPT !.order = Len(reg.devices)]),
        !.ok = TRUE]

\* mergeInto() reports a change of any field but the source.
Merged(reg, incoming, fromDiscovery) ==
    LET i == Position(reg.devices, incoming.id)
        old == reg.devices[i]
        new == MergeInto(old, incoming, fromDiscovery)
    IN [reg EXCEPT
          !.devices[i] = new,
          !.ok = [new EXCEPT !.source = old.source] # old]

\* A mutant of Queued: an entry that is already there is not refreshed.
QueuedOnce(reg, incoming) ==
    IF Has(reg.pending, incoming.id) \/ Len(reg.pending) >= MaxDevices
    THEN Refused(reg)
    ELSE [reg EXCEPT !.pending = Append(@, incoming), !.ok = TRUE]

\* The pending half of upsertDiscovered: refresh an entry or queue a new one.
Queued(reg, incoming) ==
    LET i == Position(reg.pending, incoming.id)
    IN IF i # 0
       THEN [reg EXCEPT
               !.pending[i] = incoming,
               !.ok = \/ reg.pending[i].baseUrl # incoming.baseUrl
                      \/ reg.pending[i].name # incoming.name]
       ELSE IF Len(reg.pending) >= MaxDevices THEN Refused(reg)
       ELSE [reg EXCEPT !.pending = Append(@, incoming), !.ok = TRUE]

\* A mutant of UpsertDiscovered: the user is not asked.
UpsertDiscoveredUnasked(reg, incoming, autoApprove) ==
    IF Has(reg.devices, incoming.id) THEN Merged(reg, incoming, TRUE)
    ELSE IF Full(reg) THEN Refused(reg) ELSE Added(reg, incoming)

UpsertDiscovered(reg, incoming, autoApprove) ==
    IF Has(reg.devices, incoming.id) THEN Merged(reg, incoming, TRUE)
    ELSE IF ~autoApprove THEN Queued(reg, incoming)
    ELSE IF Full(reg) THEN Refused(reg)
    ELSE Added(reg, incoming)

\* A mutant of UpsertManual: it does not look for the device first.
UpsertManualUnmerged(reg, incoming) ==
    IF Full(reg) THEN Refused(reg)
    ELSE [Added(reg, [incoming EXCEPT !.source = "manual"])
            EXCEPT !.pending = Without(@, incoming.id)]

UpsertManual(reg, incoming) ==
    IF Has(reg.devices, incoming.id) THEN Merged(reg, incoming, FALSE)
    ELSE IF Full(reg) THEN Refused(reg)
    ELSE [Added(reg, [incoming EXCEPT !.source = "manual"])
            EXCEPT !.pending = Without(@, incoming.id)]

Removed(reg, id) ==
    [reg EXCEPT !.devices = Without(@, id), !.ok = Has(reg.devices, id)]

Rejected(reg, id) ==
    [reg EXCEPT !.pending = Without(@, id), !.ok = Has(reg.pending, id)]

\* approve() does not look for the id among the active devices.
Approved(reg, id) ==
    LET i == Position(reg.pending, id)
    IN IF i = 0 \/ Full(reg) THEN Refused(reg)
       ELSE [Added(reg, reg.pending[i]) EXCEPT !.pending = RemoveAt(@, i)]

\* Mutant of UnlistedOrder: a device the caller did not list keeps its number.
UnlistedOrderKept(devices, ids, i) == devices[i].order

Known(devices, ids) == Kept(ids, {i \in DOMAIN ids : Has(devices, ids[i])})

\* How many places a uint8_t tells apart.
Places == 256

\* Unlisted devices are numbered after the listed ones, as they are stored; the
\* last place is all that is left for those after it.
UnlistedOrder(devices, ids, i) ==
    LET next == (Len(Known(devices, ids)) % Places)
                  + Cardinality({j \in 1 .. i - 1 : ~Contains(ids, devices[j].id)})
    IN IF next < Places THEN next ELSE Places - 1

\* Listed devices are numbered from 0 in the order listed; an id that is
\* listed twice keeps its last number, and of two devices with one id only
\* the first is numbered.
Reordered(reg, ids) ==
    LET devices == reg.devices
        NewOrder(i) ==
            IF ~Contains(ids, devices[i].id) THEN UnlistedOrder(devices, ids, i)
            ELSE IF Position(devices, devices[i].id) = i
            THEN (SelectLastInSeq(Known(devices, ids),
                                  LAMBDA id : id = devices[i].id) - 1) % Places
            ELSE devices[i].order
    IN [reg EXCEPT !.devices =
          [i \in DOMAIN devices |-> [devices[i] EXCEPT !.order = NewOrder(i)]]]

Label(device) == IF device.alias # NoText THEN device.alias ELSE device.name

\* The comparison of visibleOrder(): by order, then label; the sort is stable, so
\* then by position.
Before(devices, i, j) ==
    \/ devices[i].order < devices[j].order
    \/ /\ devices[i].order = devices[j].order
       /\ \/ Label(devices[i]) < Label(devices[j])
          \/ Label(devices[i]) = Label(devices[j]) /\ i < j

Shown(devices) == {i \in DOMAIN devices : devices[i].shown}
Rank(devices, i) == Cardinality({j \in Shown(devices) : Before(devices, j, i)})

\* visibleOrder(): the positions of the shown devices, sorted.
VisibleOrder(devices) ==
    [k \in 1 .. Cardinality(Shown(devices)) |->
        CHOOSE i \in Shown(devices) : Rank(devices, i) = k - 1]

\* loadConfigs(): every entry (each has an id), up to the capacity.
Loaded(reg, configs) ==
    [reg EXCEPT !.devices =
        SubSeq(configs, 1, IF Len(configs) < MaxDevices
                           THEN Len(configs) ELSE MaxDevices)]

\* applySample(): without an alias the panel adopts the agent's own name.
Sampled(reg, id, agentName) ==
    LET i == Position(reg.devices, id)
    IN IF i = 0 \/ agentName = NoText \/ reg.devices[i].alias # NoText THEN reg
       ELSE [reg EXCEPT !.devices[i].name = agentName]

\* handlePutDevice(): one field of one device; the id and the source stay.
Edited(reg, id, field, value) ==
    LET i == Position(reg.devices, id)
    IN IF i = 0 THEN Refused(reg)
       ELSE [reg EXCEPT !.devices[i] = [@ EXCEPT ![field] = value], !.ok = TRUE]
=============================================================================
