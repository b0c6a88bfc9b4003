------------------------ MODULE DeviceRegistryProofs ------------------------
(***************************************************************************)
(* What DeviceRegistry promises, for any set of machines, any list length  *)
(* and whatever discovery and the user say.                                *)
(***************************************************************************)
EXTENDS DeviceRegistry, RegistryLemmas

(* -------------------------------- types -------------------------------- *)

\* The two lists are what the registry's operators take.
LEMMA RegisteredType ==
    ASSUME TypeOK
    PROVE  Registered \in Registries(Ids)
BY DEF TypeOK, Registered, Registries

\* What the constants are.
LEMMA InputTypes ==
    /\ \A advert \in Adverts : /\ advert \in ConfigsOf(Ids) /\ advert.id \in Ids
                               /\ advert.source # "manual"
    /\ \A incoming \in Manuals : /\ incoming \in ConfigsOf(Ids) /\ incoming.id \in Ids
                                 /\ incoming.baseUrl \in Nat
    /\ \A document \in Documents : document \in Seq(ConfigsOf(Ids))
    /\ Orders \subseteq Seq(Ids)
<1>1. \A d \in ConfigsOf(Ids) : d.id \in Ids /\ d.baseUrl \in Nat
  BY DEF ConfigsOf
<1>2. Orders \subseteq Seq(Ids)
  <2>1. \A n \in Nat : [1 .. n -> Ids] \subseteq Seq(Ids)
    BY IsASeq
  <2>2. 0 .. MaxListed \subseteq Nat
    BY RegistryAssumption
  <2> QED
    BY <2>1, <2>2 DEF Orders
<1> QED
  BY <1>1, <1>2, RegistryAssumption DEF Configs

\* Whatever a method returned, the lists and the histories Become keeps have
\* their types.
LEMMA BecomeType ==
    ASSUME TypeOK, NEW reg \in Registries(Ids), Become(reg)
    PROVE  /\ devices' \in ListsOf(Ids) /\ pending' \in ListsOf(Ids)
           /\ dismissed' \subseteq Ids /\ overlapped' \in BOOLEAN
BY DEF TypeOK, Become, Registries

\* The histories keep their types when they forget.
LEMMA StillTypes ==
    ASSUME NEW reg
    PROVE  /\ \A hearing \in [Ids -> Configs \cup {Silent}] :
                 StillHeard(hearing, reg) \in [Ids -> Configs \cup {Silent}]
           /\ \A typing \in [Ids -> Nat] : StillTyped(typing, reg) \in [Ids -> Nat]
BY DEF StillHeard, StillTyped, NoText

\* One step keeps the types.
LEMMA TypeStep ==
    ASSUME TypeOK, [Next]_vars
    PROVE  TypeOK'
<1>1. Registered \in Registries(Ids)
  BY RegisteredType
<1>2. /\ autoAdd \in BOOLEAN /\ typed \in [Ids -> Nat]
      /\ heard \in [Ids -> Configs \cup {Silent}] /\ missed \subseteq Ids
      /\ dismissed \subseteq Ids /\ overlapped \in BOOLEAN
  BY DEF TypeOK
<1>3. CASE \E advert \in Adverts : Discover(advert)
  <2>1. PICK advert \in Adverts : Discover(advert)
    BY <1>3
  <2> DEFINE reg == UpsertDiscovered(Registered, advert, autoAdd)
             hearing == [heard EXCEPT ![advert.id] = advert]
  <2>2. advert \in ConfigsOf(Ids) /\ advert.id \in Ids
    BY InputTypes
  <2>3. reg \in Registries(Ids)
    BY <1>1, <1>2, <2>2, UpsertDiscoveredType
  <2>4. hearing \in [Ids -> Configs \cup {Silent}]
    BY <1>2, <2>2 DEF Configs
  <2>5. /\ Become(reg) /\ autoAdd' = autoAdd /\ typed' = typed
        /\ heard' = StillHeard(hearing, reg)
        /\ missed' \subseteq missed \cup {advert.id}
    BY <2>1, Zenon DEF Discover
  <2> HIDE DEF reg, hearing
  <2>6. heard' \in [Ids -> Configs \cup {Silent}]
    BY <1>2, <2>4, <2>5, StillTypes
  <2>7. missed' \subseteq Ids
    BY <1>2, <2>2, <2>5
  <2> QED
    BY <1>2, <2>3, <2>5, <2>6, <2>7, BecomeType DEF TypeOK
<1>4. CASE \E id \in Ids, name \in AgentNames : Sample(id, name)
  <2>1. PICK id \in Ids, name \in AgentNames : Sample(id, name)
    BY <1>4
  <2>2. Sampled(Registered, id, name) \in Registries(Ids)
    BY <1>1, RegistryAssumption, SampledFacts
  <2> QED
    BY <1>2, <2>1, <2>2, BecomeType DEF TypeOK, Sample
<1>5. CASE \E incoming \in Manuals : AddManual(incoming)
  <2>1. PICK incoming \in Manuals : AddManual(incoming)
    BY <1>5
  <2> DEFINE reg == UpsertManual(Registered, incoming)
             typing == [typed EXCEPT ![incoming.id] = incoming.baseUrl]
  <2>2. /\ incoming \in ConfigsOf(Ids) /\ incoming.id \in Ids
        /\ incoming.baseUrl \in Nat
    BY InputTypes
  <2>3. reg \in Registries(Ids)
    BY <1>1, <2>2, UpsertManualFacts
  <2>4. typing \in [Ids -> Nat]
    BY <1>2, <2>2
  <2>5. /\ Become(reg) /\ autoAdd' = autoAdd
        /\ typed' = StillTyped(typing, reg) /\ heard' = StillHeard(heard, reg)
        /\ missed' = missed
    BY <2>1 DEF AddManual
  <2> HIDE DEF reg, typing
  <2>6. typed' \in [Ids -> Nat] /\ heard' \in [Ids -> Configs \cup {Silent}]
    BY <1>2, <2>4, <2>5, StillTypes
  <2> QED
    BY <1>2, <2>3, <2>5, <2>6, BecomeType DEF TypeOK
<1>6. CASE \E id \in Ids, edit \in Edits : Edit(id, edit[1], edit[2])
  <2>1. PICK id \in Ids, edit \in Edits : Edit(id, edit[1], edit[2])
    BY <1>6
  <2> DEFINE field == edit[1]
             value == edit[2]
             reg == Edited(Registered, id, field, value)
  <2>2. \/ /\ field \in {"name", "alias", "baseUrl", "auth", "token", "order"}
           /\ value \in Nat
        \/ field = "shown" /\ value \in BOOLEAN
    BY RegistryAssumption
  <2>3. /\ Has(devices, id) /\ Become(reg) /\ autoAdd' = autoAdd /\ heard' = heard
        /\ missed' = missed
        /\ typed' = IF field = "baseUrl" THEN [typed EXCEPT ![id] = value] ELSE typed
    BY <2>1 DEF Edit
  <2> HIDE DEF field, value
  <2>4. reg \in Registries(Ids)
    BY <1>1, <2>2, <2>3, EditedFacts DEF Registered
  <2>5. typed' \in [Ids -> Nat]
    BY <1>2, <2>2, <2>3
  <2> HIDE DEF reg
  <2> QED
    BY <1>2, <2>3, <2>4, <2>5, BecomeType DEF TypeOK
<1>7. CASE \E id \in Ids : Delete(id)
  <2>1. PICK id \in Ids : Delete(id)
    BY <1>7
  <2> DEFINE removed == Removed(Registered, id)
             reg == IF removed.ok THEN removed ELSE Rejected(Registered, id)
  <2>2. reg \in Registries(Ids)
    BY <1>1, RemovedType
  <2>3. /\ devices' = reg.devices /\ pending' = reg.pending
        /\ typed' = StillTyped(typed, reg) /\ heard' = StillHeard(heard, reg)
        /\ dismissed' = dismissed \cup {id}
        /\ autoAdd' = autoAdd /\ overlapped' = overlapped /\ missed' = missed
    BY <2>1 DEF Delete
  <2> HIDE DEF reg
  <2>4. typed' \in [Ids -> Nat] /\ heard' \in [Ids -> Configs \cup {Silent}]
    BY <1>2, <2>3, StillTypes
  <2> QED
    BY <1>2, <2>2, <2>3, <2>4 DEF TypeOK, Registries
<1>8. CASE \E id \in Ids : Approve(id)
  <2>1. PICK id \in Ids : Approve(id)
    BY <1>8
  <2> DEFINE reg == Approved(Registered, id)
  <2>2. reg \in Registries(Ids)
    BY <1>1, ApprovedFacts
  <2>3. /\ Become(reg) /\ heard' = StillHeard(heard, reg)
        /\ autoAdd' = autoAdd /\ typed' = typed /\ missed' = missed
    BY <2>1 DEF Approve
  <2> HIDE DEF reg
  <2>4. heard' \in [Ids -> Configs \cup {Silent}]
    BY <1>2, <2>3, StillTypes
  <2> QED
    BY <1>2, <2>2, <2>3, <2>4, BecomeType DEF TypeOK
<1>9. CASE \E ids \in Orders : Reorder(ids)
  <2>1. PICK ids \in Orders : Reorder(ids)
    BY <1>9
  <2>2. Reordered(Registered, ids) \in Registries(Ids)
    BY <1>1, InputTypes, ReorderedFacts
  <2> QED
    BY <1>2, <2>1, <2>2, BecomeType DEF TypeOK, Reorder
<1>10. CASE ToggleAutoAdd
  BY <1>10 DEF TypeOK, ToggleAutoAdd
<1>11. CASE \E document \in Documents : Load(document)
  <2>1. PICK document \in Documents : Load(document)
    BY <1>11
  <2> DEFINE reg == Loaded(Registered, document)
             IsManual(id) == \E i \in DOMAIN reg.devices :
                               reg.devices[i].id = id /\ reg.devices[i].source = "manual"
  <2>2. reg \in Registries(Ids)
    BY <1>1, InputTypes, LoadedFacts
  <2>3. /\ Become(reg) /\ autoAdd' = autoAdd /\ heard' = heard /\ missed' = missed
        /\ typed' = [id \in Ids |->
                       IF IsManual(id)
                       THEN reg.devices[Position(reg.devices, id)].baseUrl
                       ELSE NoText]
    BY <2>1 DEF Load
  <2>4. ASSUME NEW id \in Ids, IsManual(id)
        PROVE  reg.devices[Position(reg.devices, id)].baseUrl \in Nat
    <3>1. /\ reg.devices \in ListsOf(Ids) /\ reg.devices \in Seq(ConfigsOf(Ids))
          /\ \A i \in DOMAIN reg.devices : reg.devices[i] \in ConfigsOf(Ids)
      BY <2>2, ListsOfFacts DEF Registries
    <3>2. Has(reg.devices, id)
      BY <2>4 DEF Has
    <3>3. Position(reg.devices, id) \in DOMAIN reg.devices
      BY <3>1, <3>2, PositionFacts
    <3> QED
      BY <3>1, <3>3 DEF ConfigsOf
  <2>5. typed' \in [Ids -> Nat]
    <3> HIDE DEF reg, IsManual
    <3> QED
      BY <2>3, <2>4 DEF NoText
  <2> HIDE DEF reg
  <2> QED
    BY <1>2, <2>2, <2>3, <2>5, BecomeType DEF TypeOK
<1>12. CASE FactoryReset
  <2> DEFINE reg == [Loaded(Registered, << >>) EXCEPT !.pending = << >>]
  <2>1. << >> \in Seq(ConfigsOf(Ids)) /\ << >> \in ListsOf(Ids)
    BY EmptyFits, ListsOfFacts
  <2>2. Loaded(Registered, << >>) \in Registries(Ids)
    BY <1>1, <2>1, LoadedFacts
  <2>3. reg \in Registries(Ids)
    BY <2>1, <2>2 DEF Registries
  <2>4. /\ Become(reg) /\ autoAdd' = FALSE /\ missed' = missed
        /\ typed' = StillTyped(typed, reg) /\ heard' = StillHeard(heard, reg)
    BY <1>12 DEF FactoryReset
  <2> HIDE DEF reg
  <2>5. typed' \in [Ids -> Nat] /\ heard' \in [Ids -> Configs \cup {Silent}]
    BY <1>2, <2>4, StillTypes
  <2> QED
    BY <1>2, <2>3, <2>4, <2>5, BecomeType DEF TypeOK
<1>13. CASE UNCHANGED vars
  BY <1>13 DEF TypeOK, vars
<1> QED
  BY <1>3, <1>4, <1>5, <1>6, <1>7, <1>8, <1>9, <1>10, <1>11, <1>12, <1>13 DEF Next

\* Neither list outgrows kMaxDevices, and every entry is a device's, whatever
\* way it came in: discovery, samples, the user's requests, a document.
THEOREM RegistryTypes == Spec => []TypeOK
<1>1. ASSUME Init
      PROVE  TypeOK
  <2>1. devices \in ListsOf(Ids) /\ pending \in ListsOf(Ids)
    BY <1>1, EmptyFits, Zenon DEF Init
  <2>2. typed \in [Ids -> Nat]
    BY <1>1 DEF Init, NoText
  <2>3. heard \in [Ids -> Configs \cup {Silent}]
    BY <1>1 DEF Init
  <2> QED
    BY <1>1, <2>1, <2>2, <2>3 DEF Init, TypeOK
<1>2. TypeOK /\ [Next]_vars => TypeOK'
  BY TypeStep
<1> QED
  BY <1>1, <1>2, PTL DEF Spec

(* ----------------------- what a step does to the lists ----------------- *)

\* The entries of r are the devices of `list', with their source and address.
SameAddresses(r, list) ==
    /\ SameIds(r, list)
    /\ \A i \in DOMAIN list : /\ r[i].source = list[i].source
                              /\ r[i].baseUrl = list[i].baseUrl

\* The histories keep what they say of a device that is still on its list.
LEMMA StillRemembered ==
    ASSUME NEW reg, NEW id \in Ids
    PROVE  /\ \A hearing : Has(reg.pending, id) => StillHeard(hearing, reg)[id] = hearing[id]
           /\ \A typing : Has(reg.devices, id) => StillTyped(typing, reg)[id] = typing[id]
BY DEF StillHeard, StillTyped

\* The mark of an overlap stays, and without it the lists are disjoint.
LEMMA OverlapSeen ==
    ASSUME NEW reg, Become(reg)
    PROVE  /\ overlapped => overlapped'
           /\ ~overlapped' => \A id \in Ids : ~(Has(devices', id) /\ Has(pending', id))
<1>1. \A id \in Ids : Has(devices', id) => id \in IdsOf(reg.devices)
  BY DEF Become, Has, IdsOf
<1>2. \A id \in Ids : Has(pending', id) => id \in IdsOf(reg.pending)
  BY DEF Become, Has, IdsOf
<1> QED
  BY <1>1, <1>2 DEF Become

\* Discovery merges into the entry of the device, adds one, or queues it.
LEMMA DiscoverStep ==
    ASSUME TypeOK, NEW advert \in Adverts, Discover(advert)
    PROVE  LET id == advert.id
               i == Position(devices, id)
               k == Position(pending, id)
           IN  \/ /\ Has(devices, id) /\ SameIds(devices', devices)
                  /\ \A j \in DOMAIN devices :
                        /\ devices'[j].source = devices[j].source
                        /\ \/ devices'[j].baseUrl = devices[j].baseUrl
                           \/ devices[j].source # "manual"
                           \/ devices[j].baseUrl = NoText
                  /\ pending' = pending
               \/ /\ ~Has(devices, id) /\ autoAdd
                  /\ \E new \in Configs :
                        /\ devices' = Append(devices, new)
                        /\ new.id = id /\ new.source # "manual"
                  /\ pending' = pending
               \/ /\ ~Has(devices, id) /\ devices' = devices
                  /\ \/ /\ pending' = pending
                        /\ (autoAdd /\ Full(Registered)) \/ ~Has(pending, id)
                     \/ /\ ~autoAdd /\ Has(pending, id) /\ k \in DOMAIN pending
                        /\ SameIds(pending', pending) /\ pending'[k] = advert
                        /\ \A j \in DOMAIN pending :
                              j # k => pending'[j] = pending[j]
                     \/ /\ ~autoAdd /\ ~Has(pending, id)
                        /\ pending' = Append(pending, advert)
<1> DEFINE reg == UpsertDiscovered(Registered, advert, autoAdd)
           id == advert.id
           i == Position(devices, id)
<1>1. /\ Registered \in Registries(Ids) /\ Registered.devices = devices
      /\ Registered.pending = pending /\ devices \in ListsOf(Ids) /\ autoAdd \in BOOLEAN
  BY RegisteredType DEF Registered, TypeOK
<1>2. advert \in ConfigsOf(Ids) /\ advert.source # "manual"
  BY InputTypes
<1>3. devices' = reg.devices /\ pending' = reg.pending
  BY DEF Discover, Become
<1>4. CASE Has(devices, id)
  <2> DEFINE old == devices[i]
             new == MergeInto(old, advert, TRUE)
  <2>1. reg = Merged(Registered, advert, TRUE)
    BY <1>1, <1>4 DEF UpsertDiscovered
  <2>2. i \in DOMAIN devices /\ old \in ConfigsOf(Ids)
    BY <1>1, <1>4, ListsOfFacts, PositionFacts
  <2> HIDE DEF reg, old
  <2>3. /\ reg.pending = pending /\ SameIds(reg.devices, devices)
        /\ reg.devices[i] = new
        /\ \A j \in DOMAIN devices : j # i => reg.devices[j] = devices[j]
    BY <1>1, <1>2, <1>4, <2>1, MergedFromDiscovery DEF old
  <2>4. /\ new.source = old.source
        /\ old.source = "manual" /\ old.baseUrl # NoText => new.baseUrl = old.baseUrl
    BY <1>2, <2>2, MergeDiscovered
  <2> HIDE DEF new, i
  <2>5. ASSUME NEW j \in DOMAIN devices
        PROVE  /\ devices'[j].source = devices[j].source
               /\ \/ devices'[j].baseUrl = devices[j].baseUrl
                  \/ devices[j].source # "manual"
                  \/ devices[j].baseUrl = NoText
    <3>1. CASE j = i
      BY <1>3, <2>3, <2>4, <3>1 DEF old
    <3>2. CASE j # i
      BY <1>3, <2>3, <3>2
    <3> QED
      BY <3>1, <3>2
  <2> QED
    BY <1>3, <1>4, <2>3, <2>5
<1>5. CASE ~Has(devices, id) /\ ~autoAdd
  <2>1. reg = Queued(Registered, advert)
    BY <1>1, <1>5 DEF UpsertDiscovered
  <2> HIDE DEF reg
  <2> QED
    BY <1>1, <1>2, <1>3, <1>5, <2>1, QueuedFacts
<1>6. CASE ~Has(devices, id) /\ autoAdd /\ Full(Registered)
  <2>1. reg = Refused(Registered)
    BY <1>1, <1>6 DEF UpsertDiscovered
  <2> HIDE DEF reg
  <2> QED
    BY <1>1, <1>3, <1>6, <2>1, RefusedFacts
<1>7. CASE ~Has(devices, id) /\ autoAdd /\ ~Full(Registered)
  <2>1. reg = Added(Registered, advert)
    BY <1>1, <1>7 DEF UpsertDiscovered
  <2> HIDE DEF reg
  <2>2. /\ reg.pending = pending
        /\ \E new \in Configs : /\ reg.devices = Append(devices, new)
                                /\ new.id = id /\ new.source = advert.source
    BY <1>1, <1>2, <1>7, <2>1, AddedFacts DEF Configs
  <2> QED
    BY <1>2, <1>3, <1>7, <2>2
<1> QED
  BY <1>4, <1>5, <1>6, <1>7

\* The user's device is merged into its entry, or added and not pending any
\* more, or refused; the address he typed is remembered while it is listed.
LEMMA AddManualStep ==
    ASSUME TypeOK, NEW incoming \in Manuals, AddManual(incoming)
    PROVE  LET id == incoming.id
               i == Position(devices, id)
           IN  /\ \A other \in Ids : Has(devices', other) =>
                     typed'[other] = IF other = id THEN incoming.baseUrl ELSE typed[other]
               /\ \A other \in Ids : Has(pending', other) => heard'[other] = heard[other]
               /\ \/ /\ Has(devices, id) /\ SameIds(devices', devices)
                     /\ incoming.baseUrl # NoText =>
                           devices'[i].baseUrl = incoming.baseUrl
                     /\ \A j \in DOMAIN devices : j # i => devices'[j] = devices[j]
                     /\ pending' = pending
                  \/ /\ ~Has(devices, id) /\ devices' = devices /\ pending' = pending
                  \/ /\ ~Has(devices, id)
                     /\ \E new \in Configs :
                           /\ devices' = Append(devices, new) /\ new.id = id
                           /\ new.baseUrl = incoming.baseUrl
                     /\ Selects(pending', pending)
<1> DEFINE reg == UpsertManual(Registered, incoming)
           id == incoming.id
           i == Position(devices, id)
           typing == [typed EXCEPT ![id] = incoming.baseUrl]
<1>1. /\ Registered \in Registries(Ids) /\ Registered.devices = devices
      /\ Registered.pending = pending /\ devices \in ListsOf(Ids)
      /\ pending \in ListsOf(Ids) /\ typed \in [Ids -> Nat]
  BY RegisteredType DEF Registered, TypeOK
<1>2. incoming \in ConfigsOf(Ids) /\ id \in Ids
  BY InputTypes
<1>3. /\ devices' = reg.devices /\ pending' = reg.pending
      /\ typed' = StillTyped(typing, reg) /\ heard' = StillHeard(heard, reg)
  BY DEF AddManual, Become
<1>4. \/ Has(devices, id) /\ reg = Merged(Registered, incoming, FALSE)
      \/ ~Has(devices, id) /\ reg = Refused(Registered)
      \/ /\ ~Has(devices, id)
         /\ \E new \in ConfigsOf(Ids) :
               /\ reg.devices = Append(devices, new)
               /\ new.id = id /\ new.source = "manual"
               /\ new.baseUrl = incoming.baseUrl /\ new.token = incoming.token
         /\ reg.pending = Without(pending, id)
  BY <1>1, <1>2, UpsertManualFacts
<1> HIDE DEF reg
<1>5. \A other \in Ids : Has(devices', other) =>
         typed'[other] = IF other = id THEN incoming.baseUrl ELSE typed[other]
  <2>1. \A other \in Ids : Has(devices', other) => typed'[other] = typing[other]
    <3> HIDE DEF typing
    <3> QED
      BY <1>3, StillRemembered
  <2> QED
    BY <1>1, <2>1
<1>6. \A other \in Ids : Has(pending', other) => heard'[other] = heard[other]
  BY <1>3, StillRemembered
<1>7. CASE Has(devices, id) /\ reg = Merged(Registered, incoming, FALSE)
  <2> DEFINE old == devices[i]
             new == MergeInto(old, incoming, FALSE)
  <2>1. i \in DOMAIN devices /\ old \in ConfigsOf(Ids)
    BY <1>1, <1>7, ListsOfFacts, PositionFacts
  <2> HIDE DEF old
  <2>2. /\ reg.pending = pending /\ SameIds(reg.devices, devices)
        /\ reg.devices[i] = new
        /\ \A j \in DOMAIN devices : j # i => reg.devices[j] = devices[j]
    BY <1>1, <1>2, <1>7, MergedFromUser DEF old
  <2>3. incoming.baseUrl # NoText => new.baseUrl = incoming.baseUrl
    BY <1>2, <2>1, MergeTyped
  <2> HIDE DEF new, i
  <2> QED
    BY <1>3, <1>5, <1>6, <1>7, <2>2, <2>3 DEF i
<1>8. CASE ~Has(devices, id) /\ reg = Refused(Registered)
  BY <1>1, <1>3, <1>5, <1>6, <1>8, RefusedFacts
<1>9. CASE /\ ~Has(devices, id)
           /\ \E new \in ConfigsOf(Ids) :
                 /\ reg.devices = Append(devices, new)
                 /\ new.id = id /\ new.source = "manual"
                 /\ new.baseUrl = incoming.baseUrl /\ new.token = incoming.token
           /\ reg.pending = Without(pending, id)
  <2>1. Selects(pending', pending)
    BY <1>1, <1>3, <1>9, WithoutFits
  <2>2. \E new \in Configs : /\ devices' = Append(devices, new) /\ new.id = id
                             /\ new.baseUrl = incoming.baseUrl
    BY <1>3, <1>9 DEF Configs
  <2> QED
    BY <1>5, <1>6, <1>9, <2>1, <2>2
<1> QED
  BY <1>4, <1>7, <1>8, <1>9

\* A sample leaves every entry with its source and address.
LEMMA SampleStep ==
    ASSUME TypeOK, NEW id \in Ids, NEW name \in AgentNames, Sample(id, name)
    PROVE  SameAddresses(devices', devices) /\ pending' = pending
<1> DEFINE reg == Sampled(Registered, id, name)
<1>1. /\ Registered \in Registries(Ids) /\ Registered.devices = devices
      /\ Registered.pending = pending /\ name \in Nat
      /\ \A k \in DOMAIN devices : devices[k] \in ConfigsOf(Ids)
  BY RegisteredType, RegistryAssumption, ListsOfFacts DEF Registered, TypeOK
<1>2. devices' = reg.devices /\ pending' = reg.pending
  BY DEF Sample, Become
<1> HIDE DEF reg
<1>3. reg.pending = pending /\ SameIds(reg.devices, devices)
  BY <1>1, SampledFacts DEF reg
<1>4. \A k \in DOMAIN devices :
         \E n \in Nat : reg.devices[k] = [devices[k] EXCEPT !.name = n]
  BY <1>1, SampledFacts DEF reg
<1>5. \A k \in DOMAIN devices : /\ reg.devices[k].source = devices[k].source
                                /\ reg.devices[k].baseUrl = devices[k].baseUrl
  BY <1>1, <1>4 DEF ConfigsOf
<1> QED
  BY <1>2, <1>3, <1>5 DEF SameAddresses

\* So does a reorder: only the places change.
LEMMA ReorderStep ==
    ASSUME TypeOK, NEW ids \in Orders, Reorder(ids)
    PROVE  SameAddresses(devices', devices) /\ pending' = pending
<1> DEFINE reg == Reordered(Registered, ids)
<1>1. /\ Registered \in Registries(Ids) /\ Registered.devices = devices
      /\ Registered.pending = pending /\ ids \in Seq(Ids)
      /\ \A k \in DOMAIN devices : devices[k] \in ConfigsOf(Ids)
  BY RegisteredType, InputTypes, ListsOfFacts DEF Registered, TypeOK
<1>2. devices' = reg.devices /\ pending' = reg.pending
  BY DEF Reorder, Become
<1> HIDE DEF reg
<1>3. reg.pending = pending /\ DOMAIN reg.devices = DOMAIN devices
  BY <1>1, ReorderedFacts DEF reg
<1>4. \A k \in DOMAIN devices :
         \E n \in Nat : reg.devices[k] = [devices[k] EXCEPT !.order = n]
  BY <1>1, ReorderedFacts DEF reg
<1>5. \A k \in DOMAIN devices : /\ reg.devices[k].id = devices[k].id
                                /\ reg.devices[k].source = devices[k].source
                                /\ reg.devices[k].baseUrl = devices[k].baseUrl
  BY <1>1, <1>4 DEF ConfigsOf
<1> QED
  BY <1>2, <1>3, <1>5 DEF SameAddresses, SameIds

\* A PUT changes the first entry with the id; an address it sets is typed.
LEMMA EditStep ==
    ASSUME TypeOK, NEW id \in Ids, NEW edit \in Edits, Edit(id, edit[1], edit[2])
    PROVE  LET i == Position(devices, id)
           IN  /\ Has(devices, id) /\ SameIds(devices', devices)
               /\ \A j \in DOMAIN devices : j # i => devices'[j] = devices[j]
               /\ devices'[i].source = devices[i].source
               /\ \/ devices'[i].baseUrl = devices[i].baseUrl /\ typed' = typed
                  \/ typed' = [typed EXCEPT ![id] = devices'[i].baseUrl]
               /\ pending' = pending
<1> DEFINE field == edit[1]
           value == edit[2]
           reg == Edited(Registered, id, field, value)
<1>1. /\ Registered \in Registries(Ids) /\ Registered.devices = devices
      /\ Registered.pending = pending
  BY RegisteredType DEF Registered
<1>2. \/ /\ field \in {"name", "alias", "baseUrl", "auth", "token", "order"}
         /\ value \in Nat
      \/ field = "shown" /\ value \in BOOLEAN
  BY RegistryAssumption
<1>3. /\ Has(devices, id) /\ devices' = reg.devices /\ pending' = reg.pending
      /\ typed' = IF field = "baseUrl" THEN [typed EXCEPT ![id] = value] ELSE typed
  BY DEF Edit, Become
<1> DEFINE i == Position(devices, id)
<1> HIDE DEF field, value, reg
<1>4. /\ reg.pending = pending /\ SameIds(reg.devices, devices)
      /\ \A j \in DOMAIN devices : j # i => reg.devices[j] = devices[j]
      /\ reg.devices[i].source = devices[i].source
      /\ reg.devices[i].baseUrl = IF field = "baseUrl" THEN value ELSE devices[i].baseUrl
  BY <1>1, <1>2, <1>3, EditedFacts DEF reg
<1> HIDE DEF i
<1> QED
  BY <1>3, <1>4 DEF i

\* A deleted device leaves the active list, or else the pending one.
LEMMA DeleteStep ==
    ASSUME TypeOK, NEW id \in Ids, Delete(id)
    PROVE  /\ ~Has(devices', id)
           /\ Selects(devices', devices) \/ devices' = devices
           /\ Selects(pending', pending) \/ pending' = pending
           /\ \A other \in Ids : Has(devices', other) => typed'[other] = typed[other]
           /\ \A other \in Ids : Has(pending', other) => heard'[other] = heard[other]
<1> DEFINE removed == Removed(Registered, id)
           reg == IF removed.ok THEN removed ELSE Rejected(Registered, id)
<1>1. /\ Registered \in Registries(Ids) /\ Registered.devices = devices
      /\ Registered.pending = pending
      /\ devices \in ListsOf(Ids) /\ pending \in ListsOf(Ids)
  BY RegisteredType DEF Registered, TypeOK
<1>2. /\ devices' = reg.devices /\ pending' = reg.pending
      /\ typed' = StillTyped(typed, reg) /\ heard' = StillHeard(heard, reg)
  BY DEF Delete
<1>3. \/ Has(devices, id) /\ reg.devices = Without(devices, id) /\ reg.pending = pending
      \/ ~Has(devices, id) /\ reg.devices = devices /\ reg.pending = Without(pending, id)
  BY <1>1, RemovedType
<1> HIDE DEF reg
<1>4. /\ ~Has(devices', id)
      /\ Selects(devices', devices) \/ devices' = devices
      /\ Selects(pending', pending) \/ pending' = pending
  BY <1>1, <1>2, <1>3, WithoutFits
<1>5. /\ \A other \in Ids : Has(devices', other) => typed'[other] = typed[other]
      /\ \A other \in Ids : Has(pending', other) => heard'[other] = heard[other]
  BY <1>2, StillRemembered
<1> QED
  BY <1>4, <1>5

\* An approved device moves to the end of the active list.
LEMMA ApproveStep ==
    ASSUME TypeOK, NEW id \in Ids, Approve(id)
    PROVE  /\ Has(pending, id)
           /\ \E new \in Configs :
                 /\ devices' = Append(devices, new) /\ new.id = id
                 /\ \E k \in DOMAIN pending : new.source = pending[k].source
           /\ Selects(pending', pending)
           /\ \A other \in Ids : Has(pending', other) => heard'[other] = heard[other]
<1> DEFINE reg == Approved(Registered, id)
           i == Position(pending, id)
<1>1. /\ Registered \in Registries(Ids) /\ Registered.devices = devices
      /\ Registered.pending = pending /\ pending \in Seq(ConfigsOf(Ids))
  BY RegisteredType, ListsOfFacts DEF Registered, TypeOK
<1>2. /\ devices' = reg.devices /\ pending' = reg.pending /\ reg.ok
      /\ heard' = StillHeard(heard, reg)
  BY DEF Approve, Become
<1>3. /\ Has(pending, id) /\ i \in DOMAIN pending
      /\ reg.pending = RemoveAt(pending, i)
      /\ \E new \in ConfigsOf(Ids) :
            /\ reg.devices = Append(devices, new)
            /\ new.id = id /\ new.source = pending[i].source
  <2> HIDE DEF reg
  <2>1. reg # Refused(Registered)
    BY <1>1, <1>2, RefusedFacts
  <2> QED
    BY <1>1, <2>1, ApprovedFacts DEF reg
<1> HIDE DEF reg, i
<1>4. Selects(pending', pending)
  BY <1>1, <1>2, <1>3, RemoveAtFacts
<1>5. \A other \in Ids : Has(pending', other) => heard'[other] = heard[other]
  BY <1>2, StillRemembered
<1> QED
  BY <1>2, <1>3, <1>4, <1>5 DEF Configs

\* A document replaces the active list and the typed addresses.
LEMMA LoadStep ==
    ASSUME TypeOK, NEW document \in Documents, Load(document)
    PROVE  /\ Selects(devices', document) /\ pending' = pending
           /\ \A i \in DOMAIN devices' :
                 devices'[i].source = "manual" /\ devices'[i].id \in Ids =>
                    typed'[devices'[i].id] =
                       devices'[Position(devices', devices'[i].id)].baseUrl
<1> DEFINE reg == Loaded(Registered, document)
<1>1. /\ Registered \in Registries(Ids) /\ Registered.pending = pending
      /\ document \in Seq(ConfigsOf(Ids))
  BY RegisteredType, InputTypes DEF Registered
<1>2. /\ devices' = reg.devices /\ pending' = reg.pending
      /\ typed' = [id \in Ids |->
            IF \E i \in DOMAIN reg.devices :
                  reg.devices[i].id = id /\ reg.devices[i].source = "manual"
            THEN reg.devices[Position(reg.devices, id)].baseUrl
            ELSE NoText]
  BY DEF Load, Become
<1> HIDE DEF reg
<1>3. reg.pending = pending /\ Selects(reg.devices, document)
  BY <1>1, LoadedFacts DEF reg
<1> QED
  BY <1>2, <1>3

\* A factory reset leaves nothing.
LEMMA ResetStep ==
    ASSUME TypeOK, FactoryReset
    PROVE  DOMAIN devices' = {} /\ DOMAIN pending' = {}
<1> DEFINE empty == Loaded(Registered, << >>)
           reg == [empty EXCEPT !.pending = << >>]
<1>1. Registered \in Registries(Ids) /\ << >> \in Seq(ConfigsOf(Ids)) /\ DOMAIN << >> = {}
  BY RegisteredType, EmptyFits, ListsOfFacts
<1>2. devices' = reg.devices /\ pending' = reg.pending
  BY DEF FactoryReset, Become
<1> HIDE DEF empty
<1>3. empty \in Registries(Ids) /\ Selects(empty.devices, << >>)
  BY <1>1, LoadedFacts DEF empty
<1>4. reg.devices = empty.devices /\ reg.pending = << >>
  BY <1>3 DEF Registries
<1>5. DOMAIN empty.devices = {}
  BY <1>1, <1>3 DEF Selects
<1> QED
  BY <1>1, <1>2, <1>4, <1>5

(* ------------------------ one entry for a machine ---------------------- *)

\* Every document names a device once.  The property needs it: a restore takes
\* the list of the document as it is.
DistinctDocuments == \A document \in Documents : Distinct(document)

\* The invariant: as long as no id was active and pending at once, none is in
\* either list twice, and none is in both now.
SingleEntry ==
    ~overlapped =>
        /\ Distinct(devices) /\ Distinct(pending)
        /\ \A id \in Ids : ~(Has(devices, id) /\ Has(pending, id))

\* Removing, rewriting and adding a new device keep a list free of duplicates.
LEMMA DistinctShapes ==
    ASSUME NEW S, NEW list \in Seq(S), Distinct(list)
    PROVE  /\ \A r \in Seq(S) : Selects(r, list) => Distinct(r)
           /\ \A r : SameIds(r, list) => Distinct(r)
           /\ \A d \in S : ~Has(list, d.id) => Distinct(Append(list, d))
<1>1. ASSUME NEW r \in Seq(S), Selects(r, list)
      PROVE  Distinct(r)
  <2>1. PICK g \in [DOMAIN r -> DOMAIN list] :
           /\ \A i \in DOMAIN r : r[i] = list[g[i]]
           /\ \A i, j \in DOMAIN r : i < j => g[i] < g[j]
    BY <1>1 DEF Selects
  <2>2. DOMAIN r \subseteq Nat /\ DOMAIN list \subseteq Nat
    BY LenProperties
  <2> SUFFICES ASSUME NEW i \in DOMAIN r, NEW j \in DOMAIN r, r[i].id = r[j].id
               PROVE  i = j
    BY DEF Distinct
  <2>3. g[i] = g[j]
    BY <2>1 DEF Distinct
  <2>4. g[i] \in Nat /\ g[j] \in Nat
    BY <2>1, <2>2
  <2>5. ~(i < j) /\ ~(j < i)
    BY <2>1, <2>3, <2>4
  <2> QED
    BY <2>2, <2>5
<1>2. ASSUME NEW r, SameIds(r, list)
      PROVE  Distinct(r)
  BY <1>2 DEF SameIds, Distinct
<1>3. ASSUME NEW d \in S, ~Has(list, d.id)
      PROVE  Distinct(Append(list, d))
  <2> DEFINE r == Append(list, d)
  <2>1. /\ DOMAIN r = DOMAIN list \cup {Len(list) + 1}
        /\ \A i \in DOMAIN list : r[i] = list[i] /\ r[Len(list) + 1] = d
    BY AppendFacts
  <2>2. r[Len(list) + 1] = d
    BY AppendFacts
  <2> HIDE DEF r
  <2>3. \A i \in DOMAIN list : r[i].id # d.id
    BY <1>3, <2>1 DEF Has
  <2> SUFFICES ASSUME NEW i \in DOMAIN r, NEW j \in DOMAIN r, r[i].id = r[j].id
               PROVE  i = j
    BY DEF Distinct, r
  <2> QED
    BY <2>1, <2>2, <2>3 DEF Distinct
<1> QED
  BY <1>1, <1>2, <1>3

\* Unless an overlap is marked, the lists are disjoint after every step.
LEMMA OverlapStep ==
    ASSUME TypeOK, SingleEntry, [Next]_vars, ~overlapped'
    PROVE  /\ ~overlapped
           /\ \A id \in Ids : ~(Has(devices', id) /\ Has(pending', id))
<1>1. CASE \E reg : Become(reg)
  BY <1>1, OverlapSeen
<1>2. CASE \E id \in Ids : Delete(id)
  <2>1. PICK id \in Ids : Delete(id)
    BY <1>2
  <2>2. ~overlapped
    BY <2>1 DEF Delete
  <2>3. \A other \in Ids : /\ Has(devices', other) => Has(devices, other)
                           /\ Has(pending', other) => Has(pending, other)
    BY <2>1, DeleteStep, ShapesHave
  <2> QED
    BY <2>2, <2>3 DEF SingleEntry
<1>3. CASE ToggleAutoAdd \/ UNCHANGED vars
  BY <1>3 DEF ToggleAutoAdd, vars, SingleEntry, Has
<1>4. \/ \E reg : Become(reg)
      \/ \E id \in Ids : Delete(id)
      \/ ToggleAutoAdd \/ UNCHANGED vars
  BY DEF Next, Discover, Sample, AddManual, Edit, Approve, Reorder, Load, FactoryReset
<1> QED
  BY <1>1, <1>2, <1>3, <1>4

\* One step keeps the invariant.
LEMMA SingleStep ==
    ASSUME DistinctDocuments, TypeOK, TypeOK', SingleEntry, [Next]_vars
    PROVE  SingleEntry'
<1> SUFFICES ASSUME ~overlapped'
             PROVE  Distinct(devices') /\ Distinct(pending')
  BY OverlapStep DEF SingleEntry
<1>1. /\ Distinct(devices) /\ Distinct(pending)
      /\ \A id \in Ids : ~(Has(devices, id) /\ Has(pending, id))
  BY OverlapStep DEF SingleEntry
<1>2. /\ devices \in Seq(Configs) /\ pending \in Seq(Configs)
      /\ devices' \in Seq(Configs) /\ pending' \in Seq(Configs)
  BY DEF TypeOK, ListsOf, Configs
<1>3. CASE \E advert \in Adverts : Discover(advert)
  <2>1. PICK advert \in Adverts : Discover(advert)
    BY <1>3
  <2>2. advert \in Configs
    BY InputTypes DEF Configs
  <2>3. \/ SameIds(devices', devices) \/ devices' = devices
        \/ \E new \in Configs : /\ devices' = Append(devices, new)
                                /\ ~Has(devices, new.id)
    BY <2>1, DiscoverStep
  <2>4. \/ SameIds(pending', pending) \/ pending' = pending
        \/ pending' = Append(pending, advert) /\ ~Has(pending, advert.id)
    BY <2>1, DiscoverStep
  <2> QED
    BY <1>1, <1>2, <2>2, <2>3, <2>4, DistinctShapes
<1>4. CASE \E id \in Ids, name \in AgentNames : Sample(id, name)
  BY <1>1, <1>2, <1>4, SampleStep, DistinctShapes DEF SameAddresses
<1>5. CASE \E incoming \in Manuals : AddManual(incoming)
  <2>1. PICK incoming \in Manuals : AddManual(incoming)
    BY <1>5
  <2>2. \/ SameIds(devices', devices) \/ devices' = devices
        \/ \E new \in Configs : /\ devices' = Append(devices, new)
                                /\ ~Has(devices, new.id)
    BY <2>1, AddManualStep
  <2>3. Selects(pending', pending) \/ pending' = pending
    BY <2>1, AddManualStep
  <2> QED
    BY <1>1, <1>2, <2>2, <2>3, DistinctShapes
<1>6. CASE \E id \in Ids, edit \in Edits : Edit(id, edit[1], edit[2])
  <2>1. SameIds(devices', devices) /\ pending' = pending
    BY <1>6, EditStep
  <2> QED
    BY <1>1, <1>2, <2>1, DistinctShapes
<1>7. CASE \E id \in Ids : Delete(id)
  <2>1. /\ Selects(devices', devices) \/ devices' = devices
        /\ Selects(pending', pending) \/ pending' = pending
    BY <1>7, DeleteStep
  <2> QED
    BY <1>1, <1>2, <2>1, DistinctShapes
<1>8. CASE \E id \in Ids : Approve(id)
  <2>1. /\ \E new \in Configs : /\ devices' = Append(devices, new)
                                /\ ~Has(devices, new.id)
        /\ Selects(pending', pending)
    BY <1>1, <1>8, ApproveStep
  <2> QED
    BY <1>1, <1>2, <2>1, DistinctShapes
<1>9. CASE \E ids \in Orders : Reorder(ids)
  BY <1>1, <1>2, <1>9, ReorderStep, DistinctShapes DEF SameAddresses
<1>10. CASE ToggleAutoAdd \/ UNCHANGED vars
  BY <1>1, <1>10 DEF ToggleAutoAdd, vars
<1>11. CASE \E document \in Documents : Load(document)
  <2>1. PICK document \in Documents : Load(document)
    BY <1>11
  <2>2. document \in Seq(Configs) /\ Distinct(document)
    BY InputTypes DEF Configs, DistinctDocuments
  <2>3. Selects(devices', document) /\ pending' = pending
    BY <2>1, LoadStep
  <2> QED
    BY <1>1, <1>2, <2>2, <2>3, DistinctShapes
<1>12. CASE FactoryReset
  BY <1>12, ResetStep DEF Distinct
<1> QED
  BY <1>3, <1>4, <1>5, <1>6, <1>7, <1>8, <1>9, <1>10, <1>11, <1>12 DEF Next

\* A machine has one entry, whichever ways it was found, unless it was active
\* and pending at once (which a restore, or discovery once auto-add is on, may
\* bring about while the device waits for approval).
THEOREM OneEntryPerMachine ==
    ASSUME DistinctDocuments
    PROVE  Spec => []UniqueUnlessOverlap
<1>1. Init => SingleEntry
  BY EmptyFits DEF Init, SingleEntry, Distinct, Has
<1>2. TypeOK /\ TypeOK' /\ SingleEntry /\ [Next]_vars => SingleEntry'
  BY SingleStep
<1>3. SingleEntry => UniqueUnlessOverlap
  BY DEF SingleEntry, UniqueUnlessOverlap
<1> QED
  BY <1>1, <1>2, <1>3, RegistryTypes, PTL DEF Spec

(* -------------------------- what was heard last ------------------------ *)

\* An entry of the pending list is the last thing heard of its device, or an
\* entry whose last advert was dropped, or one that was there before, with what
\* was heard of it.
HeardStill(i) ==
    \/ heard'[pending'[i].id] = pending'[i]
    \/ pending'[i].id \in missed'
    \/ \E k \in DOMAIN pending : /\ pending'[i] = pending[k]
                                 /\ heard'[pending[k].id] = heard[pending[k].id]
                                 /\ pending[k].id \in missed => pending[k].id \in missed'

\* Every step that leaves the lists apart is of that kind.
LEMMA HeardStep ==
    ASSUME TypeOK, TypeOK', SingleEntry, ~overlapped', [Next]_vars,
           NEW i \in DOMAIN pending'
    PROVE  HeardStill(i)
<1>1. /\ Distinct(pending) /\ pending \in Seq(Configs)
      /\ \A id \in Ids : ~(Has(devices, id) /\ Has(pending, id))
      /\ heard \in [Ids -> Configs \cup {Silent}]
      /\ \A k \in DOMAIN pending : pending[k].id \in Ids
      /\ pending'[i].id \in Ids /\ Has(pending', pending'[i].id)
  <2>1. /\ \A k \in DOMAIN pending : pending[k] \in ConfigsOf(Ids)
        /\ pending'[i] \in ConfigsOf(Ids)
    BY ListsOfFacts DEF TypeOK
  <2> QED
    BY <2>1, OverlapStep DEF SingleEntry, TypeOK, ListsOf, Configs, ConfigsOf, Has
<1>2. ASSUME pending' = pending, heard' = heard, missed' = missed
      PROVE  HeardStill(i)
  BY <1>2 DEF HeardStill
<1>3. ASSUME Selects(pending', pending) \/ pending' = pending,
             \A other \in Ids : Has(pending', other) => heard'[other] = heard[other],
             missed' = missed
      PROVE  HeardStill(i)
  <2>1. \E k \in DOMAIN pending : pending'[i] = pending[k]
    BY <1>3 DEF Selects
  <2> QED
    BY <1>1, <1>3, <2>1 DEF HeardStill
<1>4. CASE \E advert \in Adverts : Discover(advert)
  <2>1. PICK advert \in Adverts : Discover(advert)
    BY <1>4
  <2> DEFINE id == advert.id
             reg == UpsertDiscovered(Registered, advert, autoAdd)
             hearing == [heard EXCEPT ![id] = advert]
  <2>2. advert \in Configs /\ id \in Ids
    BY InputTypes DEF Configs
  <2>3. /\ pending' = reg.pending
        /\ heard' = StillHeard(hearing, reg)
        /\ \A other \in missed : other # id => other \in missed'
        /\ autoAdd /\ ~Has(devices, id) /\ Full(Registered) /\ Has(pending, id)
              => id \in missed'
    BY <2>1, Zenon DEF Discover, Become
  <2> HIDE DEF reg
  <2>4. \A other \in Ids : other # id /\ Has(pending', other) =>
           heard'[other] = heard[other]
    <3>1. \A other \in Ids : other # id => hearing[other] = heard[other]
      BY <1>1
    <3> HIDE DEF hearing
    <3> QED
      BY <2>3, <3>1, StillRemembered
  <2>5. Has(pending', id) => heard'[id] = advert
    <3>1. hearing[id] = advert
      BY <1>1, <2>2
    <3> HIDE DEF hearing
    <3> QED
      BY <2>2, <2>3, <3>1, StillRemembered
  <2> HIDE DEF id
  <2>6. \/ /\ autoAdd /\ Full(Registered) /\ ~Has(devices, id)
           /\ Has(pending, id) /\ pending' = pending
        \/ pending' = pending /\ ~Has(pending, id)
        \/ /\ ~autoAdd /\ Has(pending, id) /\ Position(pending, id) \in DOMAIN pending
           /\ SameIds(pending', pending) /\ pending'[Position(pending, id)] = advert
           /\ \A j \in DOMAIN pending :
                 j # Position(pending, id) => pending'[j] = pending[j]
        \/ ~autoAdd /\ ~Has(pending, id) /\ pending' = Append(pending, advert)
    <3>1. \A other \in Ids : ~(Has(devices', other) /\ Has(pending', other))
      BY OverlapStep
    <3>2. \A new \in Configs :
             devices' = Append(devices, new) /\ new.id = id => Has(devices', id)
      <4>1. devices \in Seq(Configs)
        BY DEF TypeOK, ListsOf, Configs
      <4>2. \A new \in Configs :
               devices' = Append(devices, new) =>
                  /\ Len(devices) + 1 \in DOMAIN devices'
                  /\ devices'[Len(devices) + 1] = new
        BY <4>1, AppendFacts
      <4> QED
        BY <4>2 DEF Has
    <3>3. CASE Has(devices, id)
      <4>1. pending' = pending
        BY <2>1, <3>3, DiscoverStep DEF id
      <4> QED
        BY <1>1, <2>2, <3>3, <4>1
    <3> QED
      BY <1>1, <2>1, <2>2, <3>1, <3>2, <3>3, DiscoverStep DEF id
  <2>7. CASE /\ autoAdd /\ Full(Registered) /\ ~Has(devices, id)
             /\ Has(pending, id) /\ pending' = pending
    <3>1. CASE pending[i].id = id
      BY <2>3, <2>7, <3>1 DEF HeardStill
    <3>2. CASE pending[i].id # id
      BY <1>1, <2>3, <2>4, <2>7, <3>2 DEF HeardStill
    <3> QED
      BY <3>1, <3>2
  <2>8. CASE pending' = pending /\ ~Has(pending, id)
    <3>1. pending[i].id # id /\ i \in DOMAIN pending
      BY <2>8 DEF Has
    <3> QED
      BY <1>1, <2>3, <2>4, <2>8, <3>1 DEF HeardStill
  <2>9. CASE /\ ~autoAdd /\ Has(pending, id) /\ Position(pending, id) \in DOMAIN pending
             /\ SameIds(pending', pending) /\ pending'[Position(pending, id)] = advert
             /\ \A j \in DOMAIN pending :
                   j # Position(pending, id) => pending'[j] = pending[j]
    <3>1. Has(pending', id) /\ i \in DOMAIN pending
      BY <2>9, ShapesHave DEF SameIds
    <3>2. CASE i = Position(pending, id)
      BY <2>5, <2>9, <3>1, <3>2 DEF HeardStill, id
    <3>3. CASE i # Position(pending, id)
      <4>1. pending[Position(pending, id)].id = id
        BY <1>1, <2>9, PositionFacts
      <4>2. pending'[i] = pending[i] /\ pending[i].id # id
        BY <1>1, <2>9, <3>1, <3>3, <4>1 DEF Distinct
      <4> QED
        BY <1>1, <2>3, <2>4, <3>1, <4>2 DEF HeardStill
    <3> QED
      BY <3>2, <3>3
  <2>10. CASE ~autoAdd /\ ~Has(pending, id) /\ pending' = Append(pending, advert)
    <3>1. /\ DOMAIN pending' = DOMAIN pending \cup {Len(pending) + 1}
          /\ \A j \in DOMAIN pending : pending'[j] = pending[j]
          /\ pending'[Len(pending) + 1] = advert
      BY <1>1, <2>2, <2>10, AppendFacts
    <3>2. CASE pending'[i] = advert
      BY <1>1, <2>5, <2>10, <3>2 DEF HeardStill, id
    <3>3. CASE i \in DOMAIN pending
      <4>1. pending[i].id # id
        BY <2>10, <3>3 DEF Has
      <4> QED
        BY <1>1, <2>3, <2>4, <3>1, <3>3, <4>1 DEF HeardStill
    <3> QED
      BY <3>1, <3>2, <3>3
  <2> QED
    BY <2>6, <2>7, <2>8, <2>9, <2>10
<1>5. CASE \E id \in Ids, name \in AgentNames : Sample(id, name)
  <2>1. pending' = pending /\ heard' = heard /\ missed' = missed
    BY <1>5, SampleStep DEF Sample
  <2> QED
    BY <1>2, <2>1
<1>6. CASE \E incoming \in Manuals : AddManual(incoming)
  <2>1. PICK incoming \in Manuals : AddManual(incoming)
    BY <1>6
  <2>2. /\ Selects(pending', pending) \/ pending' = pending
        /\ \A other \in Ids : Has(pending', other) => heard'[other] = heard[other]
        /\ missed' = missed
    BY <2>1, AddManualStep DEF AddManual
  <2> QED
    BY <1>3, <2>2
<1>7. CASE \E id \in Ids, edit \in Edits : Edit(id, edit[1], edit[2])
  <2>1. pending' = pending /\ heard' = heard /\ missed' = missed
    BY <1>7, EditStep DEF Edit
  <2> QED
    BY <1>2, <2>1
<1>8. CASE \E id \in Ids : Delete(id)
  BY <1>3, <1>8, DeleteStep DEF Delete
<1>9. CASE \E id \in Ids : Approve(id)
  BY <1>3, <1>9, ApproveStep DEF Approve
<1>10. CASE \E ids \in Orders : Reorder(ids)
  <2>1. pending' = pending /\ heard' = heard /\ missed' = missed
    BY <1>10, ReorderStep DEF Reorder
  <2> QED
    BY <1>2, <2>1
<1>11. CASE ToggleAutoAdd \/ UNCHANGED vars
  BY <1>2, <1>11 DEF ToggleAutoAdd, vars
<1>12. CASE \E document \in Documents : Load(document)
  <2>1. pending' = pending /\ heard' = heard /\ missed' = missed
    BY <1>12, LoadStep DEF Load
  <2> QED
    BY <1>2, <2>1
<1>13. CASE FactoryReset
  BY <1>13, ResetStep
<1> QED
  BY <1>4, <1>5, <1>6, <1>7, <1>8, <1>9, <1>10, <1>11, <1>12, <1>13 DEF Next

\* What the user is asked to approve is what discovery said last, unless its
\* last advert came with auto-add on and the list of active devices full.
THEOREM PendingIsWhatWasHeard ==
    ASSUME DistinctDocuments
    PROVE  Spec => []PendingIsLatestHeard
<1>1. Init => SingleEntry /\ PendingIsLatestHeard
  BY EmptyFits DEF Init, SingleEntry, Distinct, Has, PendingIsLatestHeard
<1>2. TypeOK /\ TypeOK' /\ SingleEntry /\ PendingIsLatestHeard /\ [Next]_vars
         => SingleEntry' /\ PendingIsLatestHeard'
  <2> SUFFICES ASSUME TypeOK, TypeOK', SingleEntry, PendingIsLatestHeard, [Next]_vars
               PROVE  SingleEntry' /\ PendingIsLatestHeard'
    OBVIOUS
  <2>1. SingleEntry'
    BY SingleStep
  <2>2. ASSUME ~overlapped', NEW i \in DOMAIN pending'
        PROVE  pending'[i].id \in missed' \/ pending'[i] = heard'[pending'[i].id]
    <3>1. ~overlapped
      BY <2>2, OverlapStep
    <3>2. HeardStill(i)
      BY <2>2, HeardStep
    <3> QED
      BY <3>1, <3>2 DEF HeardStill, PendingIsLatestHeard
  <2> QED
    BY <2>1, <2>2 DEF PendingIsLatestHeard
<1> QED
  BY <1>1, <1>2, RegistryTypes, PTL DEF Spec

(* -------------------------- deleted devices ---------------------------- *)

\* The invariant: a deleted device that nobody accepted again is not active.
DismissedAbsent == \A id \in dismissed : ~Has(devices, id)

\* A device that becomes active is not dismissed any more.
LEMMA AcceptedAgain ==
    ASSUME NEW reg, Become(reg), DismissedAbsent
    PROVE  DismissedAbsent'
<1> SUFFICES ASSUME NEW id \in dismissed', Has(devices', id)
             PROVE  FALSE
  BY DEF DismissedAbsent
<1>1. id \in IdsOf(reg.devices)
  BY DEF Become, Has, IdsOf
<1>2. id \in dismissed /\ id \in IdsOf(devices)
  BY <1>1 DEF Become
<1> QED
  BY <1>2 DEF DismissedAbsent, Has, IdsOf

\* Only the user, or an auto-add he turned on, makes a dismissed device active.
LEMMA DismissedStep ==
    ASSUME TypeOK, DismissedAbsent, [Next]_vars
    PROVE  /\ DismissedAbsent'
           /\ \A id \in dismissed :
                 Has(devices', id) =>
                     autoAdd \/ (\E incoming \in Manuals : AddManual(incoming))
                             \/ Approve(id)
                             \/ (\E document \in Documents : Load(document))
<1>1. CASE \E advert \in Adverts : Discover(advert)
  <2>1. PICK advert \in Adverts : Discover(advert)
    BY <1>1
  <2>2. autoAdd \/ SameIds(devices', devices) \/ devices' = devices
    BY <2>1, DiscoverStep
  <2>3. \A id : Has(devices', id) => autoAdd \/ Has(devices, id)
    BY <2>2, ShapesHave
  <2> QED
    BY <2>1, <2>3, AcceptedAgain DEF Discover, DismissedAbsent
<1>2. CASE \E id \in Ids, name \in AgentNames : Sample(id, name)
  <2>1. \A id : Has(devices', id) => Has(devices, id)
    BY <1>2, SampleStep, ShapesHave DEF SameAddresses
  <2> QED
    BY <1>2, <2>1, AcceptedAgain DEF Sample, DismissedAbsent
<1>3. CASE \E incoming \in Manuals : AddManual(incoming)
  BY <1>3, AcceptedAgain DEF AddManual
<1>4. CASE \E id \in Ids, edit \in Edits : Edit(id, edit[1], edit[2])
  <2>1. \A id : Has(devices', id) => Has(devices, id)
    BY <1>4, EditStep, ShapesHave
  <2> QED
    BY <1>4, <2>1, AcceptedAgain DEF Edit, DismissedAbsent
<1>5. CASE \E id \in Ids : Delete(id)
  <2>1. PICK id \in Ids : Delete(id)
    BY <1>5
  <2>2. ~Has(devices', id) /\ \A other : Has(devices', other) => Has(devices, other)
    BY <2>1, DeleteStep, ShapesHave
  <2>3. dismissed' = dismissed \cup {id}
    BY <2>1 DEF Delete
  <2> QED
    BY <2>2, <2>3 DEF DismissedAbsent
<1>6. CASE \E id \in Ids : Approve(id)
  <2>1. PICK id \in Ids : Approve(id)
    BY <1>6
  <2>2. \A other : Has(devices', other) => other = id \/ Has(devices, other)
    <3>1. devices \in Seq(Configs)
      BY DEF TypeOK, ListsOf, Configs
    <3> QED
      BY <2>1, <3>1, ApproveStep, AppendFacts DEF Has
  <2> QED
    BY <2>1, <2>2, AcceptedAgain DEF Approve, DismissedAbsent
<1>7. CASE \E ids \in Orders : Reorder(ids)
  <2>1. \A id : Has(devices', id) => Has(devices, id)
    BY <1>7, ReorderStep, ShapesHave DEF SameAddresses
  <2> QED
    BY <1>7, <2>1, AcceptedAgain DEF Reorder, DismissedAbsent
<1>8. CASE ToggleAutoAdd \/ UNCHANGED vars
  BY <1>8 DEF ToggleAutoAdd, vars, DismissedAbsent, Has
<1>9. CASE \E document \in Documents : Load(document)
  BY <1>9, AcceptedAgain DEF Load
<1>10. CASE FactoryReset
  BY <1>10, ResetStep DEF DismissedAbsent, Has
<1> QED
  BY <1>1, <1>2, <1>3, <1>4, <1>5, <1>6, <1>7, <1>8, <1>9, <1>10 DEF Next

\* A deleted device comes back only by the user's own request or by the
\* auto-add he turned on, whatever discovery goes on saying.
THEOREM DeletedStaysOut == Spec => DismissedStaysOut
<1>1. Init => DismissedAbsent
  BY DEF Init, DismissedAbsent
<1>2. TypeOK /\ DismissedAbsent /\ [Next]_vars
         => /\ DismissedAbsent'
            /\ [\A id \in dismissed :
                   Has(devices', id) =>
                       autoAdd \/ (\E incoming \in Manuals : AddManual(incoming))
                               \/ Approve(id)
                               \/ (\E document \in Documents : Load(document))]_vars
  BY DismissedStep
<1> QED
  BY <1>1, <1>2, RegistryTypes, PTL DEF Spec, DismissedStaysOut

(* ------------------------- the address he typed ------------------------ *)

\* A device that waits for approval was found, not entered.
PendingDiscovered == \A i \in DOMAIN pending : pending[i].source # "manual"

\* A manual entry is the first with its id, the one that requests find.
ManualFirst(list) ==
    \A i, j \in DOMAIN list :
        list[i].id = list[j].id /\ list[j].source = "manual" => j <= i

\* A manual entry of `list' has the address that `typing' remembers.
AddressAsTyped(list, typing) ==
    \A i \in DOMAIN list :
        list[i].source = "manual" /\ typing[list[i].id] # NoText
            => list[i].baseUrl = typing[list[i].id]

\* The invariant that keeps a typed address.
ManualInv ==
    PendingDiscovered /\ ManualFirst(devices) /\ AddressAsTyped(devices, typed)

\* Entries that stay as they are, in their order, keep all that.
LEMMA ManualShapes ==
    ASSUME NEW list, DOMAIN list \subseteq Nat, NEW typing,
           ManualFirst(list), AddressAsTyped(list, typing),
           NEW r, DOMAIN r \subseteq Nat, NEW typing2,
           \A i \in DOMAIN r : typing2[r[i].id] \in {typing[r[i].id], NoText}
    PROVE  /\ SameAddresses(r, list) => ManualFirst(r) /\ AddressAsTyped(r, typing2)
           /\ Selects(r, list) => ManualFirst(r) /\ AddressAsTyped(r, typing2)
<1>1. SameAddresses(r, list) => ManualFirst(r) /\ AddressAsTyped(r, typing2)
  BY DEF SameAddresses, SameIds, ManualFirst, AddressAsTyped
<1>2. ASSUME Selects(r, list)
      PROVE  ManualFirst(r) /\ AddressAsTyped(r, typing2)
  <2>1. PICK g \in [DOMAIN r -> DOMAIN list] :
           /\ \A i \in DOMAIN r : r[i] = list[g[i]]
           /\ \A i, j \in DOMAIN r : i < j => g[i] < g[j]
    BY <1>2 DEF Selects
  <2>2. ASSUME NEW i \in DOMAIN r, NEW j \in DOMAIN r,
               r[i].id = r[j].id, r[j].source = "manual"
        PROVE  j <= i
    <3>1. g[i] \in Nat /\ g[j] \in Nat /\ g[j] <= g[i]
      BY <2>1, <2>2 DEF ManualFirst
    <3>2. ~(i < j)
      BY <2>1, <3>1
    <3> QED
      BY <3>2
  <2>3. AddressAsTyped(r, typing2)
    BY <2>1 DEF AddressAsTyped
  <2> QED
    BY <2>2, <2>3 DEF ManualFirst
<1> QED
  BY <1>1, <1>2

\* So does one entry more that was found, or that is the first of its device.
LEMMA ManualAppend ==
    ASSUME NEW S, NEW list \in Seq(S), NEW d \in S, NEW typing, NEW typing2,
           ManualFirst(list), AddressAsTyped(list, typing),
           \A i \in DOMAIN list :
              list[i].id # d.id => typing2[list[i].id] = typing[list[i].id],
           \/ d.source # "manual" /\ typing2[d.id] = typing[d.id]
           \/ ~Has(list, d.id) /\ d.baseUrl = typing2[d.id]
    PROVE  /\ ManualFirst(Append(list, d))
           /\ AddressAsTyped(Append(list, d), typing2)
<1> DEFINE r == Append(list, d)
           n == Len(list) + 1
<1>1. /\ DOMAIN r = DOMAIN list \cup {n} /\ n \in Nat
      /\ DOMAIN list \subseteq Nat /\ \A i \in DOMAIN list : i < n
      /\ \A i \in DOMAIN list : r[i] = list[i]
      /\ r[n] = d
  BY AppendFacts, LenProperties
<1> HIDE DEF r, n
<1>2. ManualFirst(r)
  <2> SUFFICES ASSUME NEW i \in DOMAIN r, NEW j \in DOMAIN r,
                      r[i].id = r[j].id, r[j].source = "manual"
               PROVE  j <= i
    BY DEF ManualFirst
  <2>1. CASE i = n
    BY <1>1, <2>1
  <2>2. CASE i \in DOMAIN list /\ j = n
    BY <1>1, <2>2 DEF Has
  <2>3. CASE i \in DOMAIN list /\ j \in DOMAIN list
    BY <1>1, <2>3 DEF ManualFirst
  <2> QED
    BY <1>1, <2>1, <2>2, <2>3
<1>3. AddressAsTyped(r, typing2)
  <2> SUFFICES ASSUME NEW i \in DOMAIN r, r[i].source = "manual",
                      typing2[r[i].id] # NoText
               PROVE  r[i].baseUrl = typing2[r[i].id]
    BY DEF AddressAsTyped
  <2>1. CASE i = n
    BY <1>1, <2>1
  <2>2. CASE i \in DOMAIN list /\ list[i].id # d.id
    BY <1>1, <2>2 DEF AddressAsTyped
  <2>3. CASE i \in DOMAIN list /\ list[i].id = d.id
    BY <1>1, <2>3 DEF AddressAsTyped, Has
  <2> QED
    BY <1>1, <2>1, <2>2, <2>3
<1> QED
  BY <1>2, <1>3 DEF r

\* A request changes the first entry of a device, and no other manual entry has
\* its id.
LEMMA ManualRewritten ==
    ASSUME NEW S, NEW list \in Seq(S), NEW id, Has(list, id),
           NEW typing, NEW r, NEW typing2,
           ManualFirst(list), AddressAsTyped(list, typing), SameIds(r, list),
           \A j \in DOMAIN list : j # Position(list, id) => r[j] = list[j],
           \A j \in DOMAIN list :
              list[j].id # id => typing2[list[j].id] = typing[list[j].id],
           typing2[id] # NoText /\ r[Position(list, id)].source = "manual"
              => r[Position(list, id)].baseUrl = typing2[id]
    PROVE  ManualFirst(r) /\ AddressAsTyped(r, typing2)
<1> DEFINE i == Position(list, id)
<1>1. /\ i \in DOMAIN list /\ list[i].id = id
      /\ \A j \in DOMAIN list : list[j].id = id => i <= j
      /\ DOMAIN list \subseteq Nat
  BY PositionFacts, LenProperties
<1> HIDE DEF i
<1>2. \A j \in DOMAIN list : j # i /\ list[j].id = id => list[j].source # "manual"
  <2> SUFFICES ASSUME NEW j \in DOMAIN list, j # i, list[j].id = id,
                      list[j].source = "manual"
               PROVE  FALSE
    OBVIOUS
  <2>1. j <= i /\ i <= j
    BY <1>1 DEF ManualFirst
  <2> QED
    BY <1>1, <2>1
<1>3. \A j \in DOMAIN list : j # i => r[j] = list[j]
  BY DEF i
<1>4. ManualFirst(r)
  <2> SUFFICES ASSUME NEW k \in DOMAIN list, NEW j \in DOMAIN list,
                      list[k].id = list[j].id, r[j].source = "manual"
               PROVE  j <= k
    BY DEF ManualFirst, SameIds
  <2>1. CASE j = i
    BY <1>1, <2>1
  <2>2. CASE j # i
    BY <1>3, <2>2 DEF ManualFirst
  <2> QED
    BY <2>1, <2>2
<1>5. AddressAsTyped(r, typing2)
  <2> SUFFICES ASSUME NEW j \in DOMAIN list, r[j].source = "manual",
                      typing2[list[j].id] # NoText
               PROVE  r[j].baseUrl = typing2[list[j].id]
    BY DEF AddressAsTyped, SameIds
  <2>1. CASE j = i
    BY <1>1, <2>1 DEF i
  <2>2. CASE j # i
    BY <1>2, <1>3, <2>2 DEF AddressAsTyped
  <2> QED
    BY <2>1, <2>2
<1> QED
  BY <1>4, <1>5

\* One step keeps the invariant.
LEMMA ManualStep ==
    ASSUME DistinctDocuments, TypeOK, TypeOK', ManualInv, [Next]_vars
    PROVE  ManualInv'
<1>1. /\ devices \in Seq(Configs) /\ devices' \in Seq(Configs)
      /\ DOMAIN devices \subseteq Nat /\ DOMAIN devices' \subseteq Nat
      /\ pending \in Seq(Configs)
      /\ \A i \in DOMAIN devices : devices[i].id \in Ids /\ Has(devices, devices[i].id)
      /\ \A i \in DOMAIN devices' : devices'[i].id \in Ids /\ Has(devices', devices'[i].id)
      /\ typed \in [Ids -> Nat]
  <2>1. /\ \A i \in DOMAIN devices : devices[i] \in ConfigsOf(Ids)
        /\ \A i \in DOMAIN devices' : devices'[i] \in ConfigsOf(Ids)
        /\ DOMAIN devices \subseteq Nat /\ DOMAIN devices' \subseteq Nat
    BY ListsOfFacts DEF TypeOK
  <2> QED
    BY <2>1 DEF TypeOK, ListsOf, Configs, ConfigsOf, Has
<1>2. PendingDiscovered /\ ManualFirst(devices) /\ AddressAsTyped(devices, typed)
  BY DEF ManualInv
<1>3. ASSUME Selects(pending', pending) \/ pending' = pending
      PROVE  PendingDiscovered'
  BY <1>2, <1>3 DEF PendingDiscovered, Selects
<1>4. ASSUME SameAddresses(devices', devices) \/ Selects(devices', devices),
             \A id \in Ids : Has(devices', id) => typed'[id] \in {typed[id], NoText},
             Selects(pending', pending) \/ pending' = pending
      PROVE  ManualInv'
  <2>1. ManualFirst(devices') /\ AddressAsTyped(devices', typed')
    BY <1>1, <1>2, <1>4, ManualShapes
  <2> QED
    BY <1>3, <1>4, <2>1 DEF ManualInv
<1>5. devices' = devices => SameAddresses(devices', devices)
  BY DEF SameAddresses, SameIds
<1>6. CASE \E advert \in Adverts : Discover(advert)
  <2>1. PICK advert \in Adverts : Discover(advert)
    BY <1>6
  <2>2. advert \in Configs /\ advert.source # "manual"
    BY InputTypes DEF Configs
  <2>3. typed' = typed
    BY <2>1 DEF Discover
  <2>4. \/ pending' = pending
        \/ /\ SameIds(pending', pending)
           /\ \A j \in DOMAIN pending : pending'[j] \in {pending[j], advert}
        \/ pending' = Append(pending, advert)
    BY <2>1, DiscoverStep
  <2>5. PendingDiscovered'
    <3>1. CASE /\ SameIds(pending', pending)
               /\ \A j \in DOMAIN pending : pending'[j] \in {pending[j], advert}
      BY <1>2, <2>2, <3>1 DEF PendingDiscovered, SameIds
    <3>2. CASE pending' = Append(pending, advert)
      <4>1. /\ DOMAIN pending' = DOMAIN pending \cup {Len(pending) + 1}
            /\ \A j \in DOMAIN pending : pending'[j] = pending[j]
            /\ pending'[Len(pending) + 1] = advert
        BY <1>1, <2>2, <3>2, AppendFacts
      <4> QED
        BY <1>2, <2>2, <4>1 DEF PendingDiscovered
    <3> QED
      BY <1>3, <2>4, <3>1, <3>2
  <2>6. \/ /\ SameIds(devices', devices)
           /\ \A j \in DOMAIN devices :
                 /\ devices'[j].source = devices[j].source
                 /\ \/ devices'[j].baseUrl = devices[j].baseUrl
                    \/ devices[j].source # "manual"
                    \/ devices[j].baseUrl = NoText
        \/ \E new \in Configs : devices' = Append(devices, new) /\ new.source # "manual"
        \/ devices' = devices
    BY <2>1, DiscoverStep
  <2>7. CASE /\ SameIds(devices', devices)
             /\ \A j \in DOMAIN devices :
                   /\ devices'[j].source = devices[j].source
                   /\ \/ devices'[j].baseUrl = devices[j].baseUrl
                      \/ devices[j].source # "manual"
                      \/ devices[j].baseUrl = NoText
    <3>1. ManualFirst(devices')
      BY <1>2, <2>7 DEF ManualFirst, SameIds
    <3>2. AddressAsTyped(devices', typed')
      BY <1>2, <2>3, <2>7 DEF AddressAsTyped, SameIds
    <3> QED
      BY <2>5, <3>1, <3>2 DEF ManualInv
  <2>8. CASE \E new \in Configs : devices' = Append(devices, new) /\ new.source # "manual"
    <3>1. ManualFirst(devices') /\ AddressAsTyped(devices', typed')
      BY <1>1, <1>2, <2>3, <2>8, ManualAppend
    <3> QED
      BY <2>5, <3>1 DEF ManualInv
  <2>9. CASE devices' = devices
    BY <1>2, <2>3, <2>5, <2>9 DEF ManualInv
  <2> QED
    BY <2>6, <2>7, <2>8, <2>9
<1>7. CASE \E id \in Ids, name \in AgentNames : Sample(id, name)
  BY <1>4, <1>7, SampleStep DEF Sample
<1>8. CASE \E incoming \in Manuals : AddManual(incoming)
  <2>1. PICK incoming \in Manuals : AddManual(incoming)
    BY <1>8
  <2> DEFINE id == incoming.id
             i == Position(devices, id)
  <2>2. id \in Ids
    BY InputTypes
  <2>3. /\ \A other \in Ids : Has(devices', other) =>
              typed'[other] = IF other = id THEN incoming.baseUrl ELSE typed[other]
        /\ Selects(pending', pending) \/ pending' = pending
    BY <2>1, AddManualStep
  <2>4. \/ /\ Has(devices, id) /\ SameIds(devices', devices)
           /\ incoming.baseUrl # NoText => devices'[i].baseUrl = incoming.baseUrl
           /\ \A j \in DOMAIN devices : j # i => devices'[j] = devices[j]
        \/ ~Has(devices, id) /\ devices' = devices
        \/ /\ ~Has(devices, id)
           /\ \E new \in Configs : /\ devices' = Append(devices, new) /\ new.id = id
                                   /\ new.baseUrl = incoming.baseUrl
    BY <2>1, AddManualStep
  <2> HIDE DEF id
  <2>5. CASE /\ Has(devices, id) /\ SameIds(devices', devices)
             /\ incoming.baseUrl # NoText => devices'[i].baseUrl = incoming.baseUrl
             /\ \A j \in DOMAIN devices : j # i => devices'[j] = devices[j]
    <3>1. \A other \in Ids : Has(devices', other) <=> Has(devices, other)
      BY <2>5, ShapesHave
    <3>2. /\ typed'[id] = incoming.baseUrl
          /\ \A j \in DOMAIN devices :
                devices[j].id # id => typed'[devices[j].id] = typed[devices[j].id]
      BY <1>1, <2>2, <2>3, <2>5, <3>1
    <3>3. /\ devices \in Seq(Configs) /\ Has(devices, id) /\ SameIds(devices', devices)
          /\ ManualFirst(devices) /\ AddressAsTyped(devices, typed)
          /\ \A j \in DOMAIN devices :
                j # Position(devices, id) => devices'[j] = devices[j]
          /\ \A j \in DOMAIN devices :
                devices[j].id # id => typed'[devices[j].id] = typed[devices[j].id]
          /\ typed'[id] # NoText /\ devices'[Position(devices, id)].source = "manual"
                => devices'[Position(devices, id)].baseUrl = typed'[id]
      BY <1>1, <1>2, <2>5, <3>2
    <3>4. ManualFirst(devices') /\ AddressAsTyped(devices', typed')
      BY <3>3, ManualRewritten
    <3> QED
      BY <1>3, <2>3, <3>4 DEF ManualInv
  <2>6. CASE ~Has(devices, id) /\ devices' = devices
    <3>1. \A other \in Ids : Has(devices', other) => typed'[other] = typed[other]
      BY <2>3, <2>6
    <3> QED
      BY <1>4, <1>5, <2>3, <2>6, <3>1
  <2>7. CASE /\ ~Has(devices, id)
             /\ \E new \in Configs : /\ devices' = Append(devices, new) /\ new.id = id
                                     /\ new.baseUrl = incoming.baseUrl
    <3>1. PICK new \in Configs : /\ devices' = Append(devices, new) /\ new.id = id
                                 /\ new.baseUrl = incoming.baseUrl
      BY <2>7
    <3>2. /\ Has(devices', id)
          /\ \A j \in DOMAIN devices : Has(devices', devices[j].id)
      BY <1>1, <3>1, AppendFacts DEF Has
    <3>3. /\ typed'[id] = new.baseUrl
          /\ \A j \in DOMAIN devices :
                devices[j].id # id => typed'[devices[j].id] = typed[devices[j].id]
      BY <1>1, <2>2, <2>3, <3>1, <3>2
    <3>4. /\ devices \in Seq(Configs) /\ new \in Configs
          /\ ManualFirst(devices) /\ AddressAsTyped(devices, typed)
          /\ \A j \in DOMAIN devices :
                devices[j].id # new.id => typed'[devices[j].id] = typed[devices[j].id]
          /\ ~Has(devices, new.id) /\ new.baseUrl = typed'[new.id]
      BY <1>1, <1>2, <2>7, <3>1, <3>3
    <3>5. /\ ManualFirst(Append(devices, new))
          /\ AddressAsTyped(Append(devices, new), typed')
      BY <3>4, ManualAppend
    <3>6. devices' = Append(devices, new)
      BY <3>1
    <3>7. ManualFirst(devices') /\ AddressAsTyped(devices', typed')
      BY <3>5, <3>6 DEF ManualFirst, AddressAsTyped
    <3> QED
      BY <1>3, <2>3, <3>7 DEF ManualInv
  <2> QED
    BY <2>4, <2>5, <2>6, <2>7
<1>9. CASE \E id \in Ids, edit \in Edits : Edit(id, edit[1], edit[2])
  <2>1. PICK id \in Ids, edit \in Edits : Edit(id, edit[1], edit[2])
    BY <1>9
  <2> DEFINE i == Position(devices, id)
  <2>2. /\ Has(devices, id) /\ SameIds(devices', devices)
        /\ \A j \in DOMAIN devices : j # i => devices'[j] = devices[j]
        /\ devices'[i].source = devices[i].source
        /\ \/ devices'[i].baseUrl = devices[i].baseUrl /\ typed' = typed
           \/ typed' = [typed EXCEPT ![id] = devices'[i].baseUrl]
        /\ pending' = pending
    BY <2>1, EditStep
  <2>3. i \in DOMAIN devices /\ devices[i].id = id
    BY <1>1, <2>2, PositionFacts
  <2> HIDE DEF i
  <2>4. \A other \in Ids : other # id => typed'[other] = typed[other]
    BY <1>1, <2>2
  <2>5. typed'[id] # NoText /\ devices'[i].source = "manual"
           => devices'[i].baseUrl = typed'[id]
    <3>1. CASE devices'[i].baseUrl = devices[i].baseUrl /\ typed' = typed
      BY <1>2, <2>2, <2>3, <3>1 DEF AddressAsTyped
    <3>2. CASE typed' = [typed EXCEPT ![id] = devices'[i].baseUrl]
      BY <1>1, <3>2
    <3> QED
      BY <2>2, <3>1, <3>2
  <2>6. ManualFirst(devices') /\ AddressAsTyped(devices', typed')
    BY <1>1, <1>2, <2>2, <2>4, <2>5, ManualRewritten DEF i
  <2> QED
    BY <1>3, <2>2, <2>6 DEF ManualInv
<1>10. CASE \E id \in Ids : Delete(id)
  BY <1>4, <1>5, <1>10, DeleteStep
<1>11. CASE \E id \in Ids : Approve(id)
  <2>1. PICK id \in Ids : Approve(id)
    BY <1>11
  <2>2. /\ \E new \in Configs :
              /\ devices' = Append(devices, new)
              /\ \E k \in DOMAIN pending : new.source = pending[k].source
        /\ Selects(pending', pending)
    BY <2>1, ApproveStep
  <2>3. typed' = typed
    BY <2>1 DEF Approve
  <2>4. \E new \in Configs : devices' = Append(devices, new) /\ new.source # "manual"
    BY <1>2, <2>2 DEF PendingDiscovered
  <2>5. ManualFirst(devices') /\ AddressAsTyped(devices', typed')
    BY <1>1, <1>2, <2>3, <2>4, ManualAppend
  <2> QED
    BY <1>3, <2>2, <2>5 DEF ManualInv
<1>12. CASE \E ids \in Orders : Reorder(ids)
  BY <1>4, <1>12, ReorderStep DEF Reorder
<1>13. CASE ToggleAutoAdd \/ UNCHANGED vars
  BY <1>2, <1>13 DEF ToggleAutoAdd, vars, ManualInv, PendingDiscovered
<1>14. CASE \E document \in Documents : Load(document)
  <2>1. PICK document \in Documents : Load(document)
    BY <1>14
  <2>2. document \in Seq(Configs) /\ Distinct(document)
    BY InputTypes DEF Configs, DistinctDocuments
  <2>3. /\ Selects(devices', document) /\ pending' = pending
        /\ \A i \in DOMAIN devices' :
              devices'[i].source = "manual" /\ devices'[i].id \in Ids =>
                 typed'[devices'[i].id] =
                    devices'[Position(devices', devices'[i].id)].baseUrl
    BY <2>1, LoadStep
  <2>4. Distinct(devices')
    BY <1>1, <2>2, <2>3, DistinctShapes
  <2>5. ManualFirst(devices')
    <3> SUFFICES ASSUME NEW i \in DOMAIN devices', NEW j \in DOMAIN devices',
                        devices'[i].id = devices'[j].id
                 PROVE  j <= i
      BY DEF ManualFirst
    <3>1. i = j /\ i \in Nat
      BY <1>1, <2>4 DEF Distinct
    <3> QED
      BY <3>1
  <2>6. \A i \in DOMAIN devices' : Position(devices', devices'[i].id) = i
    BY <1>1, <2>4, PositionFacts DEF Distinct
  <2>7. AddressAsTyped(devices', typed')
    BY <1>1, <2>3, <2>6 DEF AddressAsTyped
  <2> QED
    BY <1>3, <2>3, <2>5, <2>7 DEF ManualInv
<1>15. CASE FactoryReset
  BY <1>15, ResetStep DEF ManualInv, PendingDiscovered, ManualFirst, AddressAsTyped
<1> QED
  BY <1>6, <1>7, <1>8, <1>9, <1>10, <1>11, <1>12, <1>13, <1>14, <1>15 DEF Next

\* The address a user typed for a device survives discovery, samples, merges,
\* reorders and later edits.
THEOREM TypedAddressKept ==
    ASSUME DistinctDocuments
    PROVE  Spec => []ManualAddressKept
<1>1. Init => ManualInv
  BY EmptyFits DEF Init, ManualInv, PendingDiscovered, ManualFirst, AddressAsTyped
<1>2. TypeOK /\ TypeOK' /\ ManualInv /\ [Next]_vars => ManualInv'
  BY ManualStep
<1>3. ManualInv => ManualAddressKept
  BY DEF ManualInv, AddressAsTyped, ManualAddressKept
<1> QED
  BY <1>1, <1>2, <1>3, RegistryTypes, PTL DEF Spec

(* ------------------------------- reorder() ----------------------------- *)

\* After any reorder of any registry the listed devices come first on the
\* dashboard, in the order listed.
LEMMA ListedFirst ==
    ASSUME MaxListed < Places, TypeOK
    PROVE  ReorderShowsListedFirst
<1> SUFFICES ASSUME Distinct(devices), NEW ids \in Orders
             PROVE  LET after == Reordered(Registered, ids).devices
                        dashboard == VisibleOrder(after)
                        IdAt(k) == after[dashboard[k]].id
                    IN \A j, k \in DOMAIN dashboard :
                          Contains(ids, IdAt(k)) /\ j < k =>
                              /\ Contains(ids, IdAt(j))
                              /\ LastMention(ids, IdAt(j)) < LastMention(ids, IdAt(k))
  BY DEF ReorderShowsListedFirst
<1> DEFINE after == Reordered(Registered, ids).devices
           dashboard == VisibleOrder(after)
           IdAt(k) == after[dashboard[k]].id
<1>1. ids \in Seq(Ids) /\ Len(ids) < Places
  <2>1. PICK n \in 0 .. MaxListed : ids \in [1 .. n -> Ids]
    BY DEF Orders
  <2>2. n \in Nat /\ n < Places
    BY RegistryAssumption DEF Places
  <2>3. ids \in Seq(Ids) /\ Len(ids) = n
    BY <2>1, <2>2, IsASeq, LenProperties
  <2> QED
    BY <2>2, <2>3
<1>2. Registered \in Registries(Ids) /\ Registered.devices = devices
  BY RegisteredType DEF Registered
<1>3. /\ Reordered(Registered, ids) \in Registries(Ids)
      /\ DOMAIN after = DOMAIN devices
      /\ \A i \in DOMAIN devices :
            \E n \in Nat : after[i] = [devices[i] EXCEPT !.order = n]
  BY <1>1, <1>2, ReorderedFacts
<1>4. after \in ListsOf(Ids) /\ devices \in ListsOf(Ids)
  BY <1>3 DEF Registries, TypeOK
<1> HIDE DEF after
<1>5. /\ after \in Seq(Configs)
      /\ \A i \in DOMAIN devices : devices[i] \in Configs
      /\ \A i \in DOMAIN after : after[i] \in Configs
  BY <1>4, ListsOfFacts DEF Configs
<1>6. \A i \in DOMAIN after : after[i].id = devices[i].id
  BY <1>3, <1>5 DEF Configs, ConfigsOf
<1>7. /\ \A k \in DOMAIN dashboard : dashboard[k] \in Shown(after)
      /\ \A j, k \in DOMAIN dashboard :
            j < k => Before(after, dashboard[j], dashboard[k])
  BY <1>5, VisibleOrderFacts DEF Configs
<1> HIDE DEF dashboard
<1>8. ASSUME NEW j \in DOMAIN dashboard, NEW k \in DOMAIN dashboard,
             Contains(ids, IdAt(k)), j < k
      PROVE  /\ Contains(ids, IdAt(j))
             /\ LastMention(ids, IdAt(j)) < LastMention(ids, IdAt(k))
  <2> DEFINE x == dashboard[j]
             y == dashboard[k]
  <2>1. /\ x \in DOMAIN devices /\ y \in DOMAIN devices
        /\ IdAt(j) = devices[x].id /\ IdAt(k) = devices[y].id
    BY <1>3, <1>6, <1>7 DEF Shown
  <2>2. Before(after, x, y) /\ x \in Nat /\ y \in Nat
    <3>1. DOMAIN after = 1 .. Len(after) /\ Len(after) \in Nat
      BY <1>5, LenProperties
    <3> QED
      BY <1>3, <1>7, <1>8, <2>1, <3>1
  <2>3. after[x].order \in Nat /\ after[y].order \in Nat
    BY <1>3, <1>5, <2>1 DEF Configs, ConfigsOf
  <2>4. Label(after[x]) \in Nat
    BY <1>3, <1>5, <2>1 DEF Configs, ConfigsOf, Label
  <2> HIDE DEF x, y
  <2>5. x # y /\ after[x].order <= after[y].order
    BY <2>2, <2>3, <2>4 DEF Before
  <2>6. /\ Listed(devices, ids, y)
        /\ \A a, b \in DOMAIN devices : devices[a].id = devices[b].id => a = b
    BY <1>8, <2>1 DEF Listed, Distinct
  <2>7. /\ Listed(devices, ids, x)
        /\ Max(Mentions(ids, devices[x].id)) < Max(Mentions(ids, devices[y].id))
    <3>1. Reordered(Registered, ids).devices[x].order
             <= Reordered(Registered, ids).devices[y].order
      BY <2>5 DEF after
    <3> QED
      BY <1>1, <1>2, <2>1, <2>5, <2>6, <3>1, ReorderedNumbers
  <2>8. /\ LastMention(ids, devices[x].id) = Max(Mentions(ids, devices[x].id))
        /\ LastMention(ids, devices[y].id) = Max(Mentions(ids, devices[y].id))
    BY <1>1, <2>6, <2>7, LastFacts DEF LastMention, Listed
  <2> QED
    BY <2>1, <2>7, <2>8 DEF Listed
<1> QED
  BY <1>8 DEF after, dashboard

\* Whenever a reorder comes, whatever numbers earlier removals, additions and
\* edits have left, the dashboard shows the devices it lists first and in its
\* order, as long as it names no more than a uint8_t can count (a longer list
\* repeats ids, and its numbers start again).
THEOREM ReorderIsShown ==
    ASSUME MaxListed < Places
    PROVE  Spec => []ReorderShowsListedFirst
<1>1. TypeOK => ReorderShowsListedFirst
  BY ListedFirst
<1> QED
  BY <1>1, RegistryTypes, PTL
=============================================================================
