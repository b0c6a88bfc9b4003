--------------------------- MODULE AppStateProofs ---------------------------
(***************************************************************************)
(* What AppState promises, for any settings, devices and requests: no      *)
(* change is forgotten, the copy in config_ is fresh once a save was made, *)
(* and a factory reset stays one.                                          *)
(***************************************************************************)
EXTENDS AppState, RegistryLemmas

(* -------------------------------- types -------------------------------- *)

\* TypeOK is not inductive: the token of a device comes from the copy in
\* config_, from a pending entry or from flash, and nothing is on flash that
\* was not in memory.  There is no file system without power.
TypesHold ==
    /\ TypeOK
    /\ TokensKnown(cfgDevices) /\ TokensKnown(pending)
    /\ flash # NoDocument => TokensKnown(flash.devices)
    /\ storage => powered

\* The registry as its operators take it.
LEMMA RegisteredType ==
    ASSUME TypesHold
    PROVE  /\ Registered \in Registries(Ids)
           /\ Registered.devices = devices /\ Registered.pending = pending
BY DEF TypesHold, TypeOK, DeviceLists, Registered, Registries

\* Nothing is known of the devices of an empty list.
LEMMA NoDevices ==
    /\ << >> \in DeviceLists /\ TokensKnown(<< >>) /\ View(<< >>) = << >>
    /\ \A list \in DeviceLists : DOMAIN list = {} => list = << >>
<1>1. << >> \in DeviceLists /\ DOMAIN << >> = {}
  BY EmptyFits DEF DeviceLists
<1>2. ASSUME NEW S, NEW list \in Seq(S), DOMAIN list = {}
      PROVE  list = << >>
  <2>1. Len(list) \in Nat /\ DOMAIN list = 1 .. Len(list)
    BY LenProperties
  <2>2. Len(list) = 0
    BY <1>2, <2>1
  <2> QED
    BY <2>2, EmptySeq
<1>3. \A list \in DeviceLists : DOMAIN list = {} => list = << >>
  BY <1>2 DEF DeviceLists, ListsOf
<1>4. View(<< >>) = << >>
  <2> DEFINE list == View(<< >>)
  <2>1. DOMAIN list = {} /\ list = [i \in {} |-> list[i]]
    BY <1>1 DEF View
  <2> HIDE DEF list
  <2>2. list \in [1 .. 0 -> {}]
    BY <2>1
  <2>3. list \in Seq({})
    BY <2>2, IsASeq
  <2> QED
    BY <1>2, <2>1, <2>3 DEF list
<1>5. TokensKnown(<< >>)
  BY <1>1 DEF TokensKnown
<1> QED
  BY <1>1, <1>3, <1>4, <1>5

\* The three shapes keep the word for a secret out of a list.
LEMMA ShapesKnown ==
    ASSUME NEW list \in DeviceLists, NEW r, TokensKnown(list)
    PROVE  /\ Selects(r, list) => TokensKnown(r)
           /\ \A d \in ConfigsOf(Ids) :
                 r = Append(list, d) /\ d.token # Redacted => TokensKnown(r)
           /\ \A token \in Nat : /\ token # Redacted
                                 /\ DOMAIN r = DOMAIN list
                                 /\ \A i \in DOMAIN list :
                                       r[i].token \in {list[i].token, token}
                                 => TokensKnown(r)
<1>1. Selects(r, list) => TokensKnown(r)
  BY DEF TokensKnown, Selects
<1>2. ASSUME NEW d \in ConfigsOf(Ids), r = Append(list, d), d.token # Redacted
      PROVE  TokensKnown(r)
  <2>1. list \in Seq(ConfigsOf(Ids))
    BY ListsOfFacts DEF DeviceLists
  <2>2. /\ DOMAIN r = DOMAIN list \cup {Len(list) + 1}
        /\ \A i \in DOMAIN list : r[i] = list[i]
        /\ r[Len(list) + 1] = d
    BY <1>2, <2>1, AppendFacts
  <2> QED
    BY <1>2, <2>2 DEF TokensKnown
<1>3. ASSUME NEW token \in Nat, token # Redacted, DOMAIN r = DOMAIN list,
             \A i \in DOMAIN list : r[i].token \in {list[i].token, token}
      PROVE  TokensKnown(r)
  BY <1>3 DEF TokensKnown
<1> QED
  BY <1>1, <1>2, <1>3

(* --------------------- tokens through the registry ---------------------- *)

KnowsTokens(reg) == TokensKnown(reg.devices) /\ TokensKnown(reg.pending)

\* A list keeps its secrets when one entry gets one of another entry or of
\* the request.
LEMMA OneRewritten ==
    ASSUME NEW list \in DeviceLists, NEW r, NEW i, NEW d \in ConfigsOf(Ids),
           TokensKnown(list), d.token # Redacted, SameIds(r, list),
           r[i].token \in {list[i].token, d.token},
           \A j \in DOMAIN list : j # i => r[j] = list[j]
    PROVE  TokensKnown(r)
<1>1. d.token \in Nat
  BY DEF ConfigsOf
<1>2. DOMAIN r = DOMAIN list
  BY DEF SameIds
<1>3. \A j \in DOMAIN list : r[j].token \in {list[j].token, d.token}
  OBVIOUS
<1> QED
  BY <1>1, <1>2, <1>3, ShapesKnown

\* Discovery brings no redacted token.
LEMMA DiscoveredKnown ==
    ASSUME NEW reg \in Registries(Ids), KnowsTokens(reg),
           NEW d \in ConfigsOf(Ids), d.token # Redacted, NEW autoAdd \in BOOLEAN
    PROVE  KnowsTokens(UpsertDiscovered(reg, d, autoAdd))
<1> DEFINE r == UpsertDiscovered(reg, d, autoAdd)
<1>1. /\ reg.devices \in DeviceLists /\ reg.pending \in DeviceLists
      /\ TokensKnown(reg.devices) /\ TokensKnown(reg.pending)
  BY DEF Registries, DeviceLists, KnowsTokens
<1>2. CASE Has(reg.devices, d.id)
  <2> DEFINE m == Merged(reg, d, TRUE)
             i == Position(reg.devices, d.id)
             old == reg.devices[i]
             new == MergeInto(old, d, TRUE)
  <2>1. /\ m.pending = reg.pending /\ SameIds(m.devices, reg.devices)
        /\ m.devices[i] = new
        /\ \A j \in DOMAIN reg.devices : j # i => m.devices[j] = reg.devices[j]
    BY <1>2, MergedFromDiscovery
  <2>2. new.token \in {old.token, d.token}
    <3>1. old \in ConfigsOf(Ids)
      BY <1>1, <1>2, ListsOfFacts, PositionFacts DEF DeviceLists
    <3> HIDE DEF old
    <3> QED
      BY <3>1, MergeDiscovered
  <2>3. r = m
    BY <1>2 DEF UpsertDiscovered
  <2> HIDE DEF m, i, new, r
  <2>4. m.devices[i].token \in {reg.devices[i].token, d.token}
    BY <2>1, <2>2 DEF old
  <2>5. TokensKnown(m.devices)
    BY <1>1, <2>1, <2>4, OneRewritten
  <2> QED
    BY <1>1, <2>1, <2>3, <2>5 DEF KnowsTokens, r
<1>3. CASE ~Has(reg.devices, d.id) /\ r = Queued(reg, d)
  <2> DEFINE q == Queued(reg, d)
             i == Position(reg.pending, d.id)
  <2>1. /\ q.devices = reg.devices
        /\ \/ /\ SameIds(q.pending, reg.pending) /\ q.pending[i] = d
              /\ \A j \in DOMAIN reg.pending : j # i => q.pending[j] = reg.pending[j]
           \/ q.pending = Append(reg.pending, d)
           \/ q.pending = reg.pending
    BY QueuedFacts
  <2> HIDE DEF q, i, r
  <2>2. CASE /\ SameIds(q.pending, reg.pending) /\ q.pending[i] = d
             /\ \A j \in DOMAIN reg.pending : j # i => q.pending[j] = reg.pending[j]
    <3>1. q.pending[i].token \in {reg.pending[i].token, d.token}
      BY <2>2
    <3>2. TokensKnown(q.pending)
      BY <1>1, <2>2, <3>1, OneRewritten
    <3> QED
      BY <1>1, <1>3, <2>1, <3>2 DEF KnowsTokens, q, r
  <2>3. CASE q.pending = Append(reg.pending, d)
    <3>1. TokensKnown(q.pending)
      BY <1>1, <2>3, ShapesKnown
    <3> QED
      BY <1>1, <1>3, <2>1, <3>1 DEF KnowsTokens, q, r
  <2>4. CASE q.pending = reg.pending
    BY <1>1, <1>3, <2>1, <2>4 DEF KnowsTokens, q, r
  <2> QED
    BY <2>1, <2>2, <2>3, <2>4
<1>4. CASE r = Refused(reg)
  BY <1>1, <1>4, RefusedFacts DEF KnowsTokens
<1>5. CASE ~Full(reg) /\ r = Added(reg, d)
  <2> HIDE DEF r
  <2>1. PICK new \in ConfigsOf(Ids) :
           r.devices = Append(reg.devices, new) /\ new.token = d.token
    BY <1>5, AddedFacts
  <2>2. r.pending = reg.pending
    BY <1>5, AddedFacts
  <2>3. TokensKnown(r.devices)
    BY <1>1, <2>1, ShapesKnown
  <2> QED
    BY <1>1, <2>2, <2>3 DEF KnowsTokens, r
<1> QED
  BY <1>2, <1>3, <1>4, <1>5 DEF UpsertDiscovered

\* Neither does the user, who does not get the tokens either.
LEMMA ManualKnown ==
    ASSUME NEW reg \in Registries(Ids), KnowsTokens(reg),
           NEW d \in ConfigsOf(Ids), d.token # Redacted
    PROVE  KnowsTokens(UpsertManual(reg, d))
<1> DEFINE r == UpsertManual(reg, d)
<1>1. /\ reg.devices \in DeviceLists /\ reg.pending \in DeviceLists
      /\ TokensKnown(reg.devices) /\ TokensKnown(reg.pending)
  BY DEF Registries, DeviceLists, KnowsTokens
<1>2. CASE Has(reg.devices, d.id) /\ r = Merged(reg, d, FALSE)
  <2> DEFINE m == Merged(reg, d, FALSE)
             i == Position(reg.devices, d.id)
             old == reg.devices[i]
             new == MergeInto(old, d, FALSE)
  <2>1. /\ m.pending = reg.pending /\ SameIds(m.devices, reg.devices)
        /\ m.devices[i] = new
        /\ \A j \in DOMAIN reg.devices : j # i => m.devices[j] = reg.devices[j]
    BY <1>2, MergedFromUser
  <2>2. new.token \in {old.token, d.token}
    <3>1. old \in ConfigsOf(Ids)
      BY <1>1, <1>2, ListsOfFacts, PositionFacts DEF DeviceLists
    <3> HIDE DEF old
    <3> QED
      BY <3>1, MergeTyped
  <2> HIDE DEF m, i, new, r
  <2>4. m.devices[i].token \in {reg.devices[i].token, d.token}
    BY <2>1, <2>2 DEF old
  <2>5. TokensKnown(m.devices)
    BY <1>1, <2>1, <2>4, OneRewritten
  <2> QED
    BY <1>1, <1>2, <2>1, <2>5 DEF KnowsTokens, m, r
<1>3. CASE r = Refused(reg)
  BY <1>1, <1>3, RefusedFacts DEF KnowsTokens
<1>4. CASE /\ \E new \in ConfigsOf(Ids) :
                 r.devices = Append(reg.devices, new) /\ new.token = d.token
           /\ r.pending = Without(reg.pending, d.id)
  <2> HIDE DEF r
  <2>1. TokensKnown(r.devices)
    BY <1>1, <1>4, ShapesKnown
  <2>2. TokensKnown(r.pending)
    BY <1>1, <1>4, WithoutFits, ShapesKnown DEF DeviceLists
  <2> QED
    BY <2>1, <2>2 DEF KnowsTokens, r
<1>5. \/ Has(reg.devices, d.id) /\ r = Merged(reg, d, FALSE)
      \/ r = Refused(reg)
      \/ /\ \E new \in ConfigsOf(Ids) :
               r.devices = Append(reg.devices, new) /\ new.token = d.token
         /\ r.pending = Without(reg.pending, d.id)
  BY UpsertManualFacts
<1> QED
  BY <1>2, <1>3, <1>4, <1>5

\* The methods that bring nothing in from outside.
LEMMA OthersKnown ==
    ASSUME NEW reg \in Registries(Ids), KnowsTokens(reg)
    PROVE  /\ \A id : /\ KnowsTokens(Approved(reg, id))
                      /\ KnowsTokens(Removed(reg, id))
                      /\ KnowsTokens(Rejected(reg, id))
           /\ \A order \in Seq(Ids) : KnowsTokens(Reordered(reg, order))
           /\ \A id : \A name \in Nat : KnowsTokens(Sampled(reg, id, name))
           /\ \A list \in Seq(ConfigsOf(Ids)) :
                 TokensKnown(list) => KnowsTokens(Loaded(reg, list))
<1>1. /\ reg.devices \in DeviceLists /\ reg.pending \in DeviceLists
      /\ TokensKnown(reg.devices) /\ TokensKnown(reg.pending)
      /\ reg.devices \in Seq(ConfigsOf(Ids)) /\ reg.pending \in Seq(ConfigsOf(Ids))
      /\ \A i \in DOMAIN reg.devices : reg.devices[i] \in ConfigsOf(Ids)
      /\ \A i \in DOMAIN reg.pending : reg.pending[i] \in ConfigsOf(Ids)
  BY ListsOfFacts DEF Registries, DeviceLists, KnowsTokens
<1>2. ASSUME NEW id
      PROVE  KnowsTokens(Approved(reg, id))
  <2> DEFINE r == Approved(reg, id)
             i == Position(reg.pending, id)
  <2>1. \/ r = Refused(reg)
        \/ /\ i \in DOMAIN reg.pending
           /\ r.pending = RemoveAt(reg.pending, i)
           /\ \E new \in ConfigsOf(Ids) :
                 /\ r.devices = Append(reg.devices, new)
                 /\ new.token = reg.pending[i].token
    BY ApprovedFacts
  <2> HIDE DEF r, i
  <2>2. CASE r = Refused(reg)
    BY <1>1, <2>2, RefusedFacts DEF KnowsTokens, r
  <2>3. CASE /\ i \in DOMAIN reg.pending
             /\ r.pending = RemoveAt(reg.pending, i)
             /\ \E new \in ConfigsOf(Ids) :
                   /\ r.devices = Append(reg.devices, new)
                   /\ new.token = reg.pending[i].token
    <3>1. reg.pending[i].token # Redacted
      BY <1>1, <2>3 DEF TokensKnown
    <3>2. TokensKnown(r.devices)
      BY <1>1, <2>3, <3>1, ShapesKnown
    <3>3. Selects(r.pending, reg.pending)
      BY <1>1, <2>3, RemoveAtFacts
    <3>4. TokensKnown(r.pending)
      BY <1>1, <3>3, ShapesKnown
    <3> QED
      BY <3>2, <3>4 DEF KnowsTokens, r
  <2> QED
    BY <2>1, <2>2, <2>3
<1>3. ASSUME NEW id
      PROVE  KnowsTokens(Removed(reg, id)) /\ KnowsTokens(Rejected(reg, id))
  <2>1. /\ Selects(Without(reg.devices, id), reg.devices)
        /\ Selects(Without(reg.pending, id), reg.pending)
    BY <1>1, WithoutFacts
  <2>2. TokensKnown(Without(reg.devices, id)) /\ TokensKnown(Without(reg.pending, id))
    BY <1>1, <2>1, ShapesKnown
  <2> QED
    BY <1>1, <2>2, RemovedType DEF KnowsTokens
<1>4. ASSUME NEW order \in Seq(Ids)
      PROVE  KnowsTokens(Reordered(reg, order))
  <2> DEFINE r == Reordered(reg, order)
  <2>1. /\ r.pending = reg.pending /\ DOMAIN r.devices = DOMAIN reg.devices
    BY ReorderedFacts
  <2>2. \A i \in DOMAIN reg.devices :
           \E n \in Nat : r.devices[i] = [reg.devices[i] EXCEPT !.order = n]
    BY ReorderedFacts
  <2> HIDE DEF r
  <2>3. \A i \in DOMAIN reg.devices : r.devices[i].token = reg.devices[i].token
    BY <1>1, <2>2 DEF ConfigsOf
  <2> QED
    BY <1>1, <2>1, <2>3 DEF KnowsTokens, TokensKnown, r
<1>5. ASSUME NEW id, NEW name \in Nat
      PROVE  KnowsTokens(Sampled(reg, id, name))
  <2> DEFINE r == Sampled(reg, id, name)
  <2>1. r.pending = reg.pending /\ DOMAIN r.devices = DOMAIN reg.devices
    BY SampledFacts DEF SameIds
  <2>2. \A i \in DOMAIN reg.devices :
           \E n \in Nat : r.devices[i] = [reg.devices[i] EXCEPT !.name = n]
    BY SampledFacts
  <2> HIDE DEF r
  <2>3. \A i \in DOMAIN reg.devices : r.devices[i].token = reg.devices[i].token
    BY <1>1, <2>2 DEF ConfigsOf
  <2> QED
    BY <1>1, <2>1, <2>3 DEF KnowsTokens, TokensKnown, r
<1>6. ASSUME NEW list \in Seq(ConfigsOf(Ids)), TokensKnown(list)
      PROVE  KnowsTokens(Loaded(reg, list))
  <2>1. /\ Loaded(reg, list).pending = reg.pending
        /\ Selects(Loaded(reg, list).devices, list)
    BY LoadedFacts
  <2>2. TokensKnown(Loaded(reg, list).devices)
    BY <1>6, <2>1 DEF Selects, TokensKnown
  <2> QED
    BY <1>1, <2>1, <2>2 DEF KnowsTokens
<1> QED
  BY <1>2, <1>3, <1>4, <1>5, <1>6

\* What a PUT of one field may set.
LEMMA EditTypes ==
    ASSUME NEW edit \in Edits
    PROVE  /\ edit[1] \in Ids
           /\ \/ /\ edit[2] \in {"name", "alias", "baseUrl", "auth", "token", "order"}
                 /\ edit[3] \in Nat
              \/ edit[2] = "shown" /\ edit[3] \in BOOLEAN
           /\ edit[2] = "token" => edit[3] # Redacted
<1>1. CASE edit \in Ids \X {"name", "alias", "baseUrl", "auth", "order"} \X Nat
  BY <1>1
<1>2. CASE edit \in Ids \X {"token"} \X (Nat \ {Redacted})
  BY <1>2
<1>3. CASE edit \in Ids \X {"shown"} \X BOOLEAN
  BY <1>3
<1> QED
  BY <1>1, <1>2, <1>3, AppAssumption

\* A PUT of one field, whose token the user typed.
LEMMA EditedKnown ==
    ASSUME NEW reg \in Registries(Ids), KnowsTokens(reg), NEW edit \in Edits,
           Has(reg.devices, edit[1])
    PROVE  /\ Edited(reg, edit[1], edit[2], edit[3]) \in Registries(Ids)
           /\ KnowsTokens(Edited(reg, edit[1], edit[2], edit[3]))
<1> DEFINE id == edit[1]
           field == edit[2]
           value == edit[3]
           r == Edited(reg, id, field, value)
           i == Position(reg.devices, id)
<1>1. /\ reg.devices \in DeviceLists /\ TokensKnown(reg.devices)
      /\ TokensKnown(reg.pending)
  BY DEF Registries, DeviceLists, KnowsTokens
<1>2. /\ \/ /\ field \in {"name", "alias", "baseUrl", "auth", "token", "order"}
            /\ value \in Nat
         \/ field = "shown" /\ value \in BOOLEAN
      /\ field = "token" => value # Redacted
  BY EditTypes
<1> HIDE DEF field, value, id
<1>3. /\ r \in Registries(Ids) /\ r.pending = reg.pending
      /\ SameIds(r.devices, reg.devices)
      /\ \A j \in DOMAIN reg.devices : j # i => r.devices[j] = reg.devices[j]
      /\ r.devices[i].token =
            IF field = "token" THEN value ELSE reg.devices[i].token
  <2>1. Has(reg.devices, id)
    BY DEF id
  <2> QED
    BY <1>2, <2>1, EditedFacts
<1> HIDE DEF r, i
<1>4. TokensKnown(r.devices)
  BY <1>1, <1>2, <1>3 DEF TokensKnown, SameIds
<1> QED
  BY <1>1, <1>3, <1>4 DEF KnowsTokens, r, id, field, value

(* ------------------- documents, and what saves leave -------------------- *)

\* A list with other tokens is still a list that fits.
LEMMA RetokenedFits ==
    ASSUME NEW list \in DeviceLists, NEW tokens \in [DOMAIN list -> Nat]
    PROVE  LET r == [i \in DOMAIN list |-> [list[i] EXCEPT !.token = tokens[i]]]
           IN  /\ r \in DeviceLists
               /\ \A i \in DOMAIN r : r[i].token = tokens[i]
<1> DEFINE r == [i \in DOMAIN list |-> [list[i] EXCEPT !.token = tokens[i]]]
<1>1. /\ Len(list) \in Nat /\ Len(list) <= MaxDevices
      /\ DOMAIN list = 1 .. Len(list)
      /\ \A i \in DOMAIN list : list[i] \in ConfigsOf(Ids)
  BY ListsOfFacts DEF DeviceLists
<1>2. \A i \in DOMAIN list : /\ r[i] \in ConfigsOf(Ids)
                             /\ r[i].token = tokens[i]
  BY <1>1 DEF ConfigsOf
<1>3. r \in [1 .. Len(list) -> ConfigsOf(Ids)] /\ DOMAIN r = DOMAIN list
  BY <1>1, <1>2
<1> HIDE DEF r
<1>4. r \in Seq(ConfigsOf(Ids)) /\ Len(r) = Len(list)
  BY <1>1, <1>3, IsASeq, LenProperties
<1> QED
  BY <1>1, <1>2, <1>3, <1>4 DEF r, DeviceLists, ListsOf

\* A document without secrets is a document.
LEMMA RedactFits ==
    ASSUME NEW list \in DeviceLists
    PROVE  Redact(list) \in DeviceLists
<1> DEFINE tokens == [i \in DOMAIN list |->
                        IF list[i].token = NoText THEN NoText ELSE Redacted]
           r == [i \in DOMAIN list |-> [list[i] EXCEPT !.token = tokens[i]]]
<1>1. tokens \in [DOMAIN list -> Nat]
  BY DEF NoText, Redacted
<1>2. Redact(list) = r
  BY DEF Redact
<1>3. r \in DeviceLists
  <2> HIDE DEF tokens
  <2> QED
    BY <1>1, RetokenedFits
<1> QED
  BY <1>2, <1>3

\* applyDevices() finds a token for every redacted one.
LEMMA ApplyFits ==
    ASSUME NEW list \in DeviceLists, NEW current \in DeviceLists, TokensKnown(current)
    PROVE  /\ ApplyDevices(list, current) \in DeviceLists
           /\ TokensKnown(ApplyDevices(list, current))
<1> DEFINE tokens == [i \in DOMAIN list |->
                        IF list[i].token # Redacted THEN list[i].token
                        ELSE IF Has(current, list[i].id)
                        THEN current[Position(current, list[i].id)].token
                        ELSE NoText]
           r == [i \in DOMAIN list |-> [list[i] EXCEPT !.token = tokens[i]]]
<1>1. /\ \A i \in DOMAIN list : list[i] \in ConfigsOf(Ids)
      /\ \A i \in DOMAIN current : current[i] \in ConfigsOf(Ids)
      /\ current \in Seq(ConfigsOf(Ids))
  BY ListsOfFacts DEF DeviceLists
<1>2. \A i \in DOMAIN list : tokens[i] \in Nat /\ tokens[i] # Redacted
  <2> SUFFICES ASSUME NEW i \in DOMAIN list
               PROVE  tokens[i] \in Nat /\ tokens[i] # Redacted
    OBVIOUS
  <2>1. CASE list[i].token # Redacted
    BY <1>1, <2>1 DEF ConfigsOf
  <2>2. CASE list[i].token = Redacted /\ Has(current, list[i].id)
    <3>1. Position(current, list[i].id) \in DOMAIN current
      BY <1>1, <2>2, PositionFacts
    <3> QED
      BY <1>1, <2>2, <3>1 DEF ConfigsOf, TokensKnown
  <2>3. CASE list[i].token = Redacted /\ ~Has(current, list[i].id)
    BY <2>3 DEF NoText, Redacted
  <2> QED
    BY <2>1, <2>2, <2>3
<1>3. ApplyDevices(list, current) = r
  BY DEF ApplyDevices
<1>4. tokens \in [DOMAIN list -> Nat]
  BY <1>2
<1>5. r \in DeviceLists /\ \A i \in DOMAIN r : r[i].token = tokens[i]
  <2> HIDE DEF tokens
  <2> QED
    BY <1>4, RetokenedFits
<1>6. DOMAIN r = DOMAIN list
  OBVIOUS
<1> HIDE DEF r, tokens
<1> QED
  BY <1>2, <1>3, <1>5, <1>6 DEF TokensKnown

\* What is on flash or with a client is a document or there is none.
LEMMA DocumentFacts ==
    /\ \A setting \in Settings : \A list \in DeviceLists :
          /\ Document(setting, list) \in Stored /\ Document(setting, list) # NoDocument
          /\ Document(setting, list).settings = setting
          /\ Document(setting, list).devices = list
    /\ \A document \in Stored \cup {NoDocument} : document # NoDocument =>
          /\ document \in Stored /\ document.version \in {1, 2}
          /\ document.settings \in Settings /\ document.devices \in DeviceLists
    /\ NoDocument.version = 0
BY DEF Document, Stored, NoDocument

\* save() writes everything, or fails and says so.
LEMMA SaveFacts ==
    ASSUME NEW setting, NEW list, NEW request, Save(setting, list, request)
    PROVE  /\ cfgDevices' = list
           /\ \/ flash' = flash /\ failed' = TRUE /\ saveAt' \in {request, "none"}
              \/ /\ flash' = Document(setting, list) /\ failed' = FALSE
                 /\ saveAt' = "none"
BY DEF Save

SavedTypes ==
    /\ flash \in Stored \cup {NoDocument}
    /\ flash # NoDocument => TokensKnown(flash.devices)
    /\ cfgDevices \in DeviceLists /\ TokensKnown(cfgDevices)
    /\ saveAt \in {"none", "fresh", "settled"} /\ failed \in BOOLEAN

\* A save leaves documents, whether it succeeds or not.
LEMMA SaveTypes ==
    ASSUME TypesHold, NEW setting \in Settings, NEW list \in DeviceLists,
           TokensKnown(list), NEW request \in {"none", "fresh", "settled"},
           Save(setting, list, request)
    PROVE  SavedTypes'
<1>1. /\ flash \in Stored \cup {NoDocument}
      /\ flash # NoDocument => TokensKnown(flash.devices)
  BY DEF TypesHold, TypeOK
<1>2. /\ Document(setting, list) \in Stored
      /\ Document(setting, list).devices = list
  BY DocumentFacts
<1> QED
  BY <1>1, <1>2, SaveFacts DEF SavedTypes

\* So does every handler of the registry.
LEMMA UpdateTypes ==
    ASSUME TypesHold, NEW reg \in Registries(Ids), KnowsTokens(reg), Update(reg),
           wiped' \in BOOLEAN
    PROVE  TypesHold'
BY DEF TypesHold, TypeOK, Update, Registries, KnowsTokens, DeviceLists

\* One step keeps the types.
LEMMA TypeStep ==
    ASSUME TypesHold, [Next]_vars
    PROVE  TypesHold'
<1>1. /\ flash \in Stored \cup {NoDocument} /\ copy \in Stored \cup {NoDocument}
      /\ storage \in BOOLEAN /\ powered \in BOOLEAN /\ settings \in Settings
      /\ cfgDevices \in DeviceLists /\ devices \in DeviceLists
      /\ pending \in DeviceLists /\ saveAt \in {"none", "fresh", "settled"}
      /\ failed \in BOOLEAN /\ wiped \in BOOLEAN
      /\ TokensKnown(devices) /\ TokensKnown(cfgDevices) /\ TokensKnown(pending)
      /\ flash # NoDocument => TokensKnown(flash.devices)
      /\ storage => powered
  BY DEF TypesHold, TypeOK
<1>2. /\ Registered \in Registries(Ids) /\ KnowsTokens(Registered)
      /\ Registered.devices = devices /\ Registered.pending = pending
  BY <1>1, RegisteredType DEF KnowsTokens
<1>3. 0 \in Settings
  BY AppAssumption
<1>4. << >> \in DeviceLists /\ TokensKnown(<< >>)
  BY NoDevices
<1>5. CASE Flush
  <2>1. /\ Save(settings, devices, saveAt)
        /\ UNCHANGED <<storage, powered, settings, devices, pending, copy, wiped>>
    BY <1>5 DEF Flush
  <2>2. SavedTypes'
    BY <1>1, <2>1, SaveTypes
  <2> QED
    BY <1>1, <2>1, <2>2 DEF TypesHold, TypeOK, SavedTypes
<1>6. CASE Settle
  BY <1>1, <1>6 DEF Settle, memory, TypesHold, TypeOK
<1>7. CASE Boot
  <2>1. /\ powered' = TRUE /\ storage' = TRUE /\ devices' = cfgDevices'
        /\ UNCHANGED <<pending, copy, wiped>>
    BY <1>7 DEF Boot
  <2>2. settings' \in Settings /\ SavedTypes'
    <3>1. CASE flash = NoDocument /\ settings' = 0 /\ cfgDevices' = << >>
               /\ UNCHANGED <<flash, saveAt, failed>>
      BY <1>1, <1>3, <1>4, <3>1 DEF SavedTypes
    <3>2. CASE flash.version = 2 /\ settings' = flash.settings
               /\ cfgDevices' = flash.devices /\ UNCHANGED <<flash, saveAt, failed>>
      <4>1. flash # NoDocument
        BY <3>2, DocumentFacts
      <4> QED
        BY <1>1, <3>2, <4>1, DocumentFacts DEF SavedTypes
    <3>3. CASE flash.version = 1 /\ settings' = flash.settings
               /\ Save(flash.settings, << >>, saveAt)
      <4>1. flash # NoDocument
        BY <3>3, DocumentFacts
      <4>2. flash.settings \in Settings
        BY <1>1, <4>1, DocumentFacts
      <4>3. SavedTypes'
        BY <1>1, <1>4, <3>3, <4>2, SaveTypes
      <4> QED
        BY <3>3, <4>2, <4>3
    <3> QED
      BY <1>7, <3>1, <3>2, <3>3 DEF Boot
  <2> QED
    BY <1>1, <2>1, <2>2 DEF TypesHold, TypeOK, SavedTypes
<1>8. CASE BootUnmounted
  BY <1>1, <1>8 DEF BootUnmounted, memory, TypesHold, TypeOK
<1>9. CASE PowerOff
  BY <1>1, <1>3, <1>4, <1>9 DEF PowerOff, TypesHold, TypeOK
<1>10. CASE \E advert \in Adverts : Discover(advert)
  <2>1. PICK advert \in Adverts : Discover(advert)
    BY <1>10
  <2> DEFINE auto == settings \in AutoAdding
             reg == UpsertDiscovered(Registered, advert, auto)
  <2>2. advert \in ConfigsOf(Ids) /\ advert.token # Redacted /\ auto \in BOOLEAN
    BY AppAssumption
  <2>3. Update(reg) /\ wiped' \in BOOLEAN
    BY <1>1, <2>1 DEF Discover
  <2> HIDE DEF auto
  <2>4. reg \in Registries(Ids) /\ KnowsTokens(reg)
    BY <1>2, <2>2, UpsertDiscoveredType, DiscoveredKnown
  <2> HIDE DEF reg
  <2> QED
    BY <2>3, <2>4, UpdateTypes
<1>11. CASE \E incoming \in Manuals : AddManual(incoming) \/ AddManualRefused(incoming)
  <2>1. PICK incoming \in Manuals : AddManual(incoming) \/ AddManualRefused(incoming)
    BY <1>11
  <2> DEFINE reg == UpsertManual(Registered, incoming)
  <2>2. incoming \in ConfigsOf(Ids) /\ incoming.token # Redacted
    BY AppAssumption
  <2>3. reg \in Registries(Ids) /\ KnowsTokens(reg)
    BY <1>2, <2>2, UpsertManualFacts, ManualKnown
  <2>4. CASE AddManual(incoming)
    <3>1. Update(reg) /\ wiped' \in BOOLEAN
      BY <2>4 DEF AddManual
    <3> HIDE DEF reg
    <3> QED
      BY <2>3, <3>1, UpdateTypes
  <2>5. CASE AddManualRefused(incoming)
    <3>1. /\ devices' = reg.devices
          /\ UNCHANGED <<flash, storage, powered, settings, cfgDevices, pending,
                         saveAt, copy, failed, wiped>>
      BY <2>5 DEF AddManualRefused
    <3> HIDE DEF reg
    <3>2. devices' \in DeviceLists /\ TokensKnown(devices')
      BY <2>3, <3>1 DEF Registries, KnowsTokens, DeviceLists
    <3> QED
      BY <1>1, <3>1, <3>2 DEF TypesHold, TypeOK
  <2> QED
    BY <2>1, <2>4, <2>5
<1>12. CASE \E id \in Ids : Approve(id) \/ Delete(id) \/ Reorder(<<id>>)
  <2>1. PICK id \in Ids : Approve(id) \/ Delete(id) \/ Reorder(<<id>>)
    BY <1>12
  <2> DEFINE removed == Removed(Registered, id)
             gone == IF removed.ok THEN removed ELSE Rejected(Registered, id)
  <2>2. <<id>> \in Seq(Ids)
    OBVIOUS
  <2>3. PICK reg : /\ Update(reg) /\ wiped' \in BOOLEAN
                   /\ reg \in {Approved(Registered, id), gone,
                               Reordered(Registered, <<id>>)}
    BY <1>1, <2>1 DEF Approve, Delete, Reorder
  <2>4. /\ Approved(Registered, id) \in Registries(Ids)
        /\ KnowsTokens(Approved(Registered, id))
    BY <1>2, ApprovedFacts, OthersKnown
  <2>5. gone \in Registries(Ids) /\ KnowsTokens(gone)
    BY <1>2, RemovedType, OthersKnown
  <2>6. /\ Reordered(Registered, <<id>>) \in Registries(Ids)
        /\ KnowsTokens(Reordered(Registered, <<id>>))
    BY <1>2, <2>2, ReorderedFacts, OthersKnown
  <2> HIDE DEF gone
  <2>7. reg \in Registries(Ids) /\ KnowsTokens(reg)
    BY <2>3, <2>4, <2>5, <2>6
  <2> QED
    BY <2>3, <2>7, UpdateTypes
<1>13. CASE \E id \in Ids, name \in AgentNames : Sample(id, name)
  <2>1. PICK id \in Ids, name \in AgentNames : Sample(id, name)
    BY <1>13
  <2> DEFINE reg == Sampled(Registered, id, name)
  <2>2. reg \in Registries(Ids) /\ KnowsTokens(reg)
    BY <1>2, AppAssumption, SampledFacts, OthersKnown
  <2>3. /\ devices' = reg.devices
        /\ UNCHANGED <<flash, storage, powered, settings, cfgDevices, pending,
                       saveAt, copy, failed, wiped>>
    BY <2>1 DEF Sample
  <2> HIDE DEF reg
  <2>4. devices' \in DeviceLists /\ TokensKnown(devices')
    BY <2>2, <2>3 DEF Registries, KnowsTokens, DeviceLists
  <2> QED
    BY <1>1, <2>3, <2>4 DEF TypesHold, TypeOK
<1>14. CASE \E edit \in Edits : Edit(edit[1], edit[2], edit[3])
  <2>1. PICK edit \in Edits : Edit(edit[1], edit[2], edit[3])
    BY <1>14
  <2> DEFINE reg == Edited(Registered, edit[1], edit[2], edit[3])
  <2>2. Update(reg) /\ wiped' \in BOOLEAN /\ reg.ok
    BY <1>1, <2>1 DEF Edit, Update
  <2>3. Has(devices, edit[1])
    <3>1. devices \in Seq(ConfigsOf(Ids))
      BY <1>1, ListsOfFacts DEF DeviceLists
    <3>2. ~Has(devices, edit[1]) => Position(devices, edit[1]) = 0
      BY <3>1, PositionFacts
    <3>3. Position(devices, edit[1]) = 0 => ~reg.ok
      BY <1>2, RefusedFacts DEF Edited
    <3> QED
      BY <2>2, <3>2, <3>3
  <2>4. reg \in Registries(Ids) /\ KnowsTokens(reg)
    BY <1>2, <2>3, EditedKnown
  <2> HIDE DEF reg
  <2> QED
    BY <2>2, <2>4, UpdateTypes
<1>15. CASE \E setting \in Settings : ChangeSetting(setting)
  BY <1>1, <1>15 DEF ChangeSetting, TypesHold, TypeOK
<1>16. CASE \E setting \in Settings : SetAdminPassword(setting)
  <2>1. PICK setting \in Settings : SetAdminPassword(setting)
    BY <1>16
  <2>2. settings' = setting /\ UNCHANGED <<storage, powered, devices, pending, copy, wiped>>
    BY <2>1 DEF SetAdminPassword
  <2>3. SavedTypes'
    <3>1. CASE storage
      BY <1>1, <2>1, <3>1, SaveTypes DEF SetAdminPassword
    <3>2. CASE ~storage
      BY <1>1, <2>1, <3>2 DEF SetAdminPassword, SavedTypes
    <3> QED
      BY <3>1, <3>2
  <2> QED
    BY <1>1, <2>2, <2>3 DEF TypesHold, TypeOK, SavedTypes
<1>17. ASSUME NEW setting \in Settings, NEW list \in DeviceLists, TokensKnown(list),
              PutConfig(setting, list), wiped' \in BOOLEAN
       PROVE  TypesHold'
  <2> DEFINE reg == Loaded(Registered, list)
  <2>1. list \in Seq(ConfigsOf(Ids))
    BY ListsOfFacts DEF DeviceLists
  <2>2. reg \in Registries(Ids) /\ KnowsTokens(reg)
    BY <1>2, <1>17, <2>1, LoadedFacts, OthersKnown
  <2>3. /\ devices' = reg.devices /\ settings' = setting /\ cfgDevices' = list
        /\ saveAt' = "fresh"
        /\ UNCHANGED <<flash, storage, powered, pending, copy, failed>>
    BY <1>17 DEF PutConfig
  <2> HIDE DEF reg
  <2>4. devices' \in DeviceLists /\ TokensKnown(devices')
    BY <2>2, <2>3 DEF Registries, KnowsTokens, DeviceLists
  <2> QED
    BY <1>1, <1>17, <2>3, <2>4 DEF TypesHold, TypeOK
<1>18. CASE \E setting \in Settings : PutSetting(setting)
  BY <1>1, <1>17, <1>18 DEF PutSetting
<1>19. ASSUME copy # NoDocument
       PROVE  /\ copy.settings \in Settings /\ copy.devices \in DeviceLists
              /\ \A list \in DeviceLists : TokensKnown(list) =>
                    /\ ApplyDevices(copy.devices, list) \in DeviceLists
                    /\ TokensKnown(ApplyDevices(copy.devices, list))
  <2>1. copy.settings \in Settings /\ copy.devices \in DeviceLists
    BY <1>1, <1>19, DocumentFacts
  <2> QED
    BY <2>1, ApplyFits
<1>20. CASE PutCopy
  BY <1>1, <1>17, <1>19, <1>20 DEF PutCopy
<1>21. CASE \E secrets \in BOOLEAN : Backup(secrets)
  <2>1. PICK secrets \in BOOLEAN : Backup(secrets)
    BY <1>21
  <2>2. PICK list \in {devices, Redact(devices)} : copy' = Document(settings, list)
    BY <2>1 DEF Backup
  <2>3. list \in DeviceLists
    BY <1>1, <2>2, RedactFits
  <2>4. copy' \in Stored
    BY <1>1, <2>2, <2>3, DocumentFacts
  <2>5. /\ cfgDevices' = devices
        /\ UNCHANGED <<flash, storage, powered, settings, devices, pending, saveAt,
                       failed, wiped>>
    BY <2>1 DEF Backup
  <2> QED
    BY <1>1, <2>4, <2>5 DEF TypesHold, TypeOK
<1>22. CASE Restore
  <2> DEFINE list == ApplyDevices(copy.devices, << >>)
             reg == Loaded(Registered, list)
  <2>1. /\ settings' = copy.settings /\ devices' = reg.devices /\ wiped' = FALSE
        /\ IF storage THEN Save(copy.settings, reg.devices, saveAt)
           ELSE cfgDevices' = list /\ failed' = TRUE /\ UNCHANGED <<flash, saveAt>>
        /\ UNCHANGED <<storage, powered, pending, copy>>
    BY <1>22 DEF Restore
  <2>2. copy.settings \in Settings /\ list \in DeviceLists /\ TokensKnown(list)
    BY <1>4, <1>19, <1>22 DEF Restore
  <2> HIDE DEF list
  <2>3. list \in Seq(ConfigsOf(Ids))
    BY <2>2, ListsOfFacts DEF DeviceLists
  <2>4. reg \in Registries(Ids) /\ KnowsTokens(reg)
    BY <1>2, <2>2, <2>3, LoadedFacts, OthersKnown
  <2> HIDE DEF reg
  <2>5. reg.devices \in DeviceLists /\ TokensKnown(reg.devices)
    BY <2>4 DEF Registries, KnowsTokens, DeviceLists
  <2>6. SavedTypes'
    <3>1. CASE storage
      BY <1>1, <2>1, <2>2, <2>5, <3>1, SaveTypes
    <3>2. CASE ~storage
      BY <1>1, <2>1, <2>2, <3>2 DEF SavedTypes
    <3> QED
      BY <3>1, <3>2
  <2> QED
    BY <1>1, <2>1, <2>2, <2>5, <2>6 DEF TypesHold, TypeOK, SavedTypes
<1>23. CASE FactoryReset
  BY <1>1, <1>3, <1>4, <1>23 DEF FactoryReset, TypesHold, TypeOK
<1>24. CASE UNCHANGED vars
  BY <1>1, <1>24 DEF vars, memory, TypesHold, TypeOK
<1> QED
  BY <1>5, <1>6, <1>7, <1>8, <1>9, <1>10, <1>11, <1>12, <1>13, <1>14, <1>15,
     <1>16, <1>18, <1>20, <1>21, <1>22, <1>23, <1>24 DEF Next

\* Boots, saves, documents of clients and of earlier firmware, the registry's
\* own requests: the state keeps its types, and the word that stands for a
\* secret in a backup never becomes the secret of a device.
THEOREM AppTypes == Spec => [](TypeOK /\ TypesHold)
<1>1. Init => TypesHold
  <2>1. ASSUME Init
        PROVE  TypesHold
    <3>1. << >> \in DeviceLists /\ TokensKnown(<< >>)
      BY NoDevices
    <3>2. /\ flash \in Stored \cup {NoDocument}
          /\ flash # NoDocument => TokensKnown(flash.devices)
      BY <2>1, AppAssumption DEF Init
    <3> QED
      BY <2>1, <3>1, <3>2, AppAssumption DEF Init, TypesHold, TypeOK, NoDocument
  <2> QED
    BY <2>1
<1>2. TypesHold /\ [Next]_vars => TypesHold'
  BY TypeStep
<1>3. TypesHold => TypeOK
  BY DEF TypesHold
<1> QED
  BY <1>1, <1>2, <1>3, PTL DEF Spec

(* ------------------------ no change is forgotten ------------------------ *)

\* Entries that differ in name and source at most.
SameForUser(a, b) ==
    [a EXCEPT !.name = NoText, !.source = "manual"]
        = [b EXCEPT !.name = NoText, !.source = "manual"]

LEMMA SameView ==
    ASSUME NEW r, NEW list, DOMAIN r = DOMAIN list,
           \A i \in DOMAIN list : SameForUser(r[i], list[i])
    PROVE  View(r) = View(list)
BY DEF View, SameForUser

\* A sample changes nothing the user set.
LEMMA SampleView ==
    ASSUME TypesHold, NEW id, NEW name \in AgentNames, Sample(id, name)
    PROVE  View(devices') = View(devices)
<1> DEFINE reg == Sampled(Registered, id, name)
<1>1. /\ Registered \in Registries(Ids) /\ Registered.devices = devices
      /\ name \in Nat /\ \A i \in DOMAIN devices : devices[i] \in ConfigsOf(Ids)
  BY RegisteredType, AppAssumption, ListsOfFacts DEF TypesHold, TypeOK, DeviceLists
<1>2. devices' = reg.devices
  BY DEF Sample
<1>3. DOMAIN reg.devices = DOMAIN devices
  BY <1>1, SampledFacts DEF SameIds
<1>4. \A i \in DOMAIN devices :
         \E n \in Nat : reg.devices[i] = [devices[i] EXCEPT !.name = n]
  BY <1>1, SampledFacts
<1> HIDE DEF reg
<1>5. ASSUME NEW i \in DOMAIN devices
      PROVE  SameForUser(reg.devices[i], devices[i])
  <2>1. PICK n \in Nat : reg.devices[i] = [devices[i] EXCEPT !.name = n]
    BY <1>4
  <2>2. devices[i] \in ConfigsOf(Ids)
    BY <1>1
  <2> QED
    BY <2>1, <2>2 DEF ConfigsOf, SameForUser
<1> QED
  BY <1>2, <1>3, <1>5, SameView

\* Neither does a POST that was refused.
LEMMA RefusedView ==
    ASSUME TypesHold, NEW incoming \in Manuals, AddManualRefused(incoming)
    PROVE  View(devices') = View(devices)
<1> DEFINE reg == UpsertManual(Registered, incoming)
           i == Position(devices, incoming.id)
           old == devices[i]
           new == MergeInto(old, incoming, FALSE)
<1>1. /\ Registered \in Registries(Ids) /\ Registered.devices = devices
      /\ incoming \in ConfigsOf(Ids) /\ devices \in Seq(ConfigsOf(Ids))
      /\ \A j \in DOMAIN devices : devices[j] \in ConfigsOf(Ids)
  BY RegisteredType, AppAssumption, ListsOfFacts DEF TypesHold, TypeOK, DeviceLists
<1>2. devices' = reg.devices /\ ~reg.ok
  BY DEF AddManualRefused
<1>3. \/ Has(devices, incoming.id) /\ reg = Merged(Registered, incoming, FALSE)
      \/ reg = Refused(Registered)
  BY <1>1, <1>2, UpsertManualFacts
<1>4. CASE Has(devices, incoming.id) /\ reg = Merged(Registered, incoming, FALSE)
  <2>1. /\ i \in DOMAIN devices /\ old \in ConfigsOf(Ids)
    BY <1>1, <1>4, PositionFacts
  <2>2. /\ SameIds(reg.devices, devices) /\ reg.devices[i] = new
        /\ \A j \in DOMAIN devices : j # i => reg.devices[j] = devices[j]
    <3> DEFINE m == Merged(Registered, incoming, FALSE)
               k == Position(Registered.devices, incoming.id)
    <3>1. /\ SameIds(m.devices, Registered.devices)
          /\ m.devices[k] = MergeInto(Registered.devices[k], incoming, FALSE)
          /\ \A j \in DOMAIN Registered.devices :
                j # k => m.devices[j] = Registered.devices[j]
      <4>1. Has(Registered.devices, incoming.id)
        BY <1>1, <1>4
      <4> QED
        BY <1>1, <4>1, MergedFromUser
    <3>2. m = reg
      BY <1>4
    <3> HIDE DEF m, reg
    <3> QED
      BY <1>1, <3>1, <3>2
  <2>3. new \in ConfigsOf(Ids)
    <3> HIDE DEF old
    <3> QED
      BY <1>1, <2>1, MergeTyped
  <2>4. [new EXCEPT !.source = old.source] = old
    BY <1>1, <1>2, <1>4, MergedQuietly
  <2> HIDE DEF new, old, i, reg
  <2>5. SameForUser(new, old)
    BY <2>1, <2>3, <2>4 DEF ConfigsOf, SameForUser
  <2>6. \A j \in DOMAIN devices : SameForUser(reg.devices[j], devices[j])
    BY <2>2, <2>5 DEF SameForUser, old
  <2> QED
    BY <1>2, <2>2, <2>6, SameView DEF SameIds
<1>5. CASE reg = Refused(Registered)
  BY <1>1, <1>2, <1>5, RefusedFacts
<1> QED
  BY <1>3, <1>4, <1>5

\* A save that succeeds writes what it was given.
LEMMA SaveWrites ==
    ASSUME TypesHold, NEW setting \in Settings, NEW list \in DeviceLists,
           NEW request, Save(setting, list, request), ~failed'
    PROVE  OnFlash' = <<setting, View(list)>>
<1>1. flash' = Document(setting, list)
  BY SaveFacts
<1>2. OnFlash' = IF flash' = NoDocument THEN <<0, << >> >>
                 ELSE <<flash'.settings, View(flash'.devices)>>
  BY DEF OnFlash
<1> QED
  BY <1>1, <1>2, DocumentFacts

\* Nothing happens to the saved state: an invariant of what stays.
LEMMA QuietStays ==
    ASSUME NothingForgotten, CopyFreshOnceSaved, View(devices') = View(devices),
           UNCHANGED <<flash, storage, powered, settings, cfgDevices, saveAt, failed>>
    PROVE  NothingForgotten' /\ CopyFreshOnceSaved'
<1>1. OnFlash' = OnFlash
  BY DEF OnFlash
<1>2. View(cfgDevices') = View(cfgDevices)
  OBVIOUS
<1> QED
  BY <1>1, <1>2 DEF NothingForgotten, CopyFreshOnceSaved

\* One step keeps both: it asks for a save, makes one of what it leaves in
\* memory, or changes nothing the user set.
LEMMA SavedStep ==
    ASSUME TypesHold, NothingForgotten, CopyFreshOnceSaved, [Next]_vars
    PROVE  NothingForgotten' /\ CopyFreshOnceSaved'
<1>1. /\ flash \in Stored \cup {NoDocument} /\ copy \in Stored \cup {NoDocument}
      /\ settings \in Settings /\ devices \in DeviceLists
      /\ cfgDevices \in DeviceLists /\ storage \in BOOLEAN
      /\ storage => powered
  BY DEF TypesHold, TypeOK
<1>2. saveAt' # "none" \/ ~storage' \/ ~powered' => NothingForgotten' /\ CopyFreshOnceSaved'
  BY DEF NothingForgotten, CopyFreshOnceSaved
<1>3. ASSUME NEW reg, Update(reg)
      PROVE  NothingForgotten' /\ CopyFreshOnceSaved'
  BY <1>2, <1>3 DEF Update
<1>4. ASSUME NEW setting \in Settings, NEW list \in DeviceLists, NEW request,
             Save(setting, list, request), settings' = setting, devices' = list
      PROVE  NothingForgotten' /\ CopyFreshOnceSaved'
  <2>1. cfgDevices' = list
    BY <1>4, SaveFacts
  <2>2. ~failed' => OnFlash' = <<setting, View(list)>>
    BY <1>4, SaveWrites
  <2> QED
    BY <1>4, <2>1, <2>2 DEF NothingForgotten, CopyFreshOnceSaved
<1>5. CASE Flush
  <2>1. Save(settings, devices, saveAt) /\ settings' = settings /\ devices' = devices
    BY <1>5 DEF Flush
  <2> QED
    BY <1>1, <1>4, <2>1
<1>6. CASE Settle
  BY <1>2, <1>6 DEF Settle
<1>7. CASE Boot
  <2>1. devices' = cfgDevices'
    BY <1>7 DEF Boot
  <2>2. CASE flash = NoDocument /\ settings' = 0 /\ cfgDevices' = << >>
             /\ UNCHANGED <<flash, saveAt, failed>>
    <3>1. OnFlash' = <<settings', View(devices')>>
      BY <2>1, <2>2, NoDevices DEF OnFlash
    <3> QED
      BY <2>1, <3>1 DEF NothingForgotten, CopyFreshOnceSaved
  <2>3. CASE flash.version = 2 /\ settings' = flash.settings
             /\ cfgDevices' = flash.devices /\ UNCHANGED <<flash, saveAt, failed>>
    <3>1. flash # NoDocument
      BY <2>3, DocumentFacts
    <3>2. OnFlash' = <<settings', View(devices')>>
      BY <2>1, <2>3, <3>1 DEF OnFlash
    <3> QED
      BY <2>1, <3>2 DEF NothingForgotten, CopyFreshOnceSaved
  <2>4. CASE flash.version = 1 /\ settings' = flash.settings
             /\ Save(flash.settings, << >>, saveAt)
    <3>1. flash # NoDocument
      BY <2>4, DocumentFacts
    <3>2. flash.settings \in Settings /\ << >> \in DeviceLists
      BY <1>1, <3>1, DocumentFacts, NoDevices
    <3>3. devices' = << >>
      BY <2>1, <2>4, SaveFacts
    <3> QED
      BY <1>4, <2>4, <3>2, <3>3
  <2> QED
    BY <1>7, <2>2, <2>3, <2>4 DEF Boot
<1>8. CASE BootUnmounted
  BY <1>1, <1>2, <1>8 DEF BootUnmounted
<1>9. CASE PowerOff
  BY <1>2, <1>9 DEF PowerOff
<1>10. CASE \E advert \in Adverts : Discover(advert)
  BY <1>3, <1>10 DEF Discover
<1>11. CASE \E incoming \in Manuals : AddManual(incoming) \/ AddManualRefused(incoming)
  <2>1. PICK incoming \in Manuals : AddManual(incoming) \/ AddManualRefused(incoming)
    BY <1>11
  <2>2. CASE AddManual(incoming)
    BY <1>3, <2>2 DEF AddManual
  <2>3. CASE AddManualRefused(incoming)
    <3>1. View(devices') = View(devices)
      BY <2>3, RefusedView
    <3>2. UNCHANGED <<flash, storage, powered, settings, cfgDevices, saveAt, failed>>
      BY <2>3 DEF AddManualRefused
    <3> QED
      BY <3>1, <3>2, QuietStays
  <2> QED
    BY <2>1, <2>2, <2>3
<1>12. CASE \E id \in Ids : Approve(id) \/ Delete(id) \/ Reorder(<<id>>)
  <2>1. PICK reg : Update(reg)
    BY <1>12 DEF Approve, Delete, Reorder
  <2> QED
    BY <1>3, <2>1
<1>13. CASE \E id \in Ids, name \in AgentNames : Sample(id, name)
  <2>1. PICK id \in Ids, name \in AgentNames : Sample(id, name)
    BY <1>13
  <2>2. View(devices') = View(devices)
    BY <2>1, SampleView
  <2>3. UNCHANGED <<flash, storage, powered, settings, cfgDevices, saveAt, failed>>
    BY <2>1 DEF Sample
  <2> QED
    BY <2>2, <2>3, QuietStays
<1>14. CASE \E edit \in Edits : Edit(edit[1], edit[2], edit[3])
  BY <1>3, <1>14 DEF Edit
<1>15. CASE \E setting \in Settings : ChangeSetting(setting)
  BY <1>2, <1>15 DEF ChangeSetting
<1>16. CASE \E setting \in Settings : SetAdminPassword(setting)
  <2>1. PICK setting \in Settings : SetAdminPassword(setting)
    BY <1>16
  <2>2. settings' = setting /\ devices' = devices /\ storage' = storage
    BY <2>1 DEF SetAdminPassword
  <2>3. CASE storage
    <3>1. Save(setting, devices, saveAt)
      BY <2>1, <2>3 DEF SetAdminPassword
    <3> QED
      BY <1>1, <1>4, <2>2, <3>1
  <2>4. CASE ~storage
    BY <1>2, <2>2, <2>4
  <2> QED
    BY <2>3, <2>4
<1>17. CASE (\E setting \in Settings : PutSetting(setting)) \/ PutCopy
  BY <1>2, <1>17 DEF PutSetting, PutCopy, PutConfig
<1>18. CASE \E secrets \in BOOLEAN : Backup(secrets)
  <2>1. /\ cfgDevices' = devices
        /\ UNCHANGED <<flash, storage, powered, settings, devices, saveAt, failed>>
    BY <1>18 DEF Backup
  <2>2. OnFlash' = OnFlash
    BY <2>1 DEF OnFlash
  <2> QED
    BY <2>1, <2>2 DEF NothingForgotten, CopyFreshOnceSaved
<1>19. CASE Restore
  <2> DEFINE list == ApplyDevices(copy.devices, << >>)
             loaded == Loaded(Registered, list).devices
  <2>1. /\ settings' = copy.settings /\ devices' = loaded /\ storage' = storage
        /\ copy # NoDocument
        /\ storage => Save(copy.settings, loaded, saveAt)
    BY <1>19 DEF Restore
  <2>2. copy.settings \in Settings
    BY <1>1, <2>1, DocumentFacts
  <2>3. loaded \in DeviceLists
    BY <2>1, TypeStep DEF TypesHold, TypeOK
  <2> HIDE DEF loaded
  <2>4. CASE storage
    BY <1>4, <2>1, <2>2, <2>3, <2>4
  <2>5. CASE ~storage
    BY <1>2, <2>1, <2>5
  <2> QED
    BY <2>4, <2>5
<1>20. CASE FactoryReset
  <2>1. /\ settings' = 0 /\ cfgDevices' = << >> /\ devices' = << >>
        /\ storage' = storage /\ failed' = (flash' # NoDocument)
    BY <1>20 DEF FactoryReset
  <2>2. CASE flash' = NoDocument
    <3>1. OnFlash' = <<settings', View(devices')>>
      BY <2>1, <2>2, NoDevices DEF OnFlash
    <3> QED
      BY <2>1, <3>1 DEF NothingForgotten, CopyFreshOnceSaved
  <2>3. CASE flash' # NoDocument
    BY <2>1, <2>3 DEF NothingForgotten, CopyFreshOnceSaved
  <2> QED
    BY <2>2, <2>3
<1>21. CASE UNCHANGED vars
  <2>1. UNCHANGED <<flash, storage, powered, settings, cfgDevices, devices, saveAt,
                    failed>>
    BY <1>21 DEF vars, memory
  <2>2. View(devices') = View(devices)
    BY <2>1
  <2> QED
    BY <2>1, <2>2, QuietStays
<1> QED
  BY <1>5, <1>6, <1>7, <1>8, <1>9, <1>10, <1>11, <1>12, <1>13, <1>14, <1>15,
     <1>16, <1>17, <1>18, <1>19, <1>20, <1>21 DEF Next

\* Whatever handlers, saves, failures and restarts follow one another: with no
\* save requested and none failed, flash has all that the user set.
THEOREM SavesCoverChanges == Spec => []NothingForgotten
<1>1. Init => NothingForgotten /\ CopyFreshOnceSaved
  BY DEF Init, NothingForgotten, CopyFreshOnceSaved
<1>2. TypesHold /\ NothingForgotten /\ CopyFreshOnceSaved /\ [Next]_vars
         => NothingForgotten' /\ CopyFreshOnceSaved'
  BY SavedStep
<1> QED
  BY <1>1, <1>2, AppTypes, PTL DEF Spec

\* And once the saves are made, the copy of the device list that a patch
\* without devices is merged into is the device list.
THEOREM CopyFollowsRegistry == Spec => []CopyFreshOnceSaved
<1>1. Init => NothingForgotten /\ CopyFreshOnceSaved
  BY DEF Init, NothingForgotten, CopyFreshOnceSaved
<1>2. TypesHold /\ NothingForgotten /\ CopyFreshOnceSaved /\ [Next]_vars
         => NothingForgotten' /\ CopyFreshOnceSaved'
  BY SavedStep
<1> QED
  BY <1>1, <1>2, AppTypes, PTL DEF Spec

(* ----------------------- a factory reset stays one ---------------------- *)

\* Of an empty registry only an addition makes another one.
LEMMA EmptyStays ==
    ASSUME TypesHold, devices = << >>
    PROVE  /\ \A d \in ConfigsOf(Ids) :
                 UpsertDiscovered(Registered, d, FALSE).devices = << >>
           /\ \A d \in ConfigsOf(Ids) : UpsertManual(Registered, d).ok
           /\ \A id : /\ Removed(Registered, id).devices = << >>
                      /\ Rejected(Registered, id).devices = << >>
           /\ \A order \in Seq(Ids) : Reordered(Registered, order).devices = << >>
           /\ \A id : \A name \in Nat : Sampled(Registered, id, name).devices = << >>
           /\ \A id, field, value : ~Edited(Registered, id, field, value).ok
           /\ Loaded(Registered, << >>).devices = << >>
<1>1. /\ Registered \in Registries(Ids) /\ Registered.devices = << >>
      /\ Registered.devices \in Seq(ConfigsOf(Ids)) /\ DOMAIN << >> = {}
      /\ Len(<< >>) = 0 /\ << >> \in Seq(ConfigsOf(Ids))
  BY RegisteredType, EmptySeq, ListsOfFacts, EmptyFits DEF TypesHold, TypeOK, DeviceLists
<1>2. \A id : ~Has(<< >>, id) /\ Position(<< >>, id) = 0
  <2>1. \A id : ~Has(<< >>, id)
    BY <1>1 DEF Has
  <2> QED
    BY <1>1, <2>1, PositionFacts
<1>3. \A r \in Registries(Ids) : DOMAIN r.devices = {} => r.devices = << >>
  BY NoDevices DEF Registries, DeviceLists
<1>4. ASSUME NEW d \in ConfigsOf(Ids)
      PROVE  UpsertDiscovered(Registered, d, FALSE).devices = << >>
  <2>1. UpsertDiscovered(Registered, d, FALSE) = Queued(Registered, d)
    BY <1>1, <1>2 DEF UpsertDiscovered
  <2> QED
    BY <1>1, <2>1, QueuedFacts
<1>5. ASSUME NEW d \in ConfigsOf(Ids)
      PROVE  UpsertManual(Registered, d).ok
  <2>1. ~Full(Registered)
    BY <1>1, CapacityAssumption DEF Full
  <2> DEFINE added == Added(Registered, [d EXCEPT !.source = "manual"])
  <2>2. UpsertManual(Registered, d)
           = [added EXCEPT !.pending = Without(@, d.id)]
    BY <1>1, <1>2, <2>1 DEF UpsertManual
  <2>3. [d EXCEPT !.source = "manual"] \in ConfigsOf(Ids)
    BY DEF ConfigsOf
  <2>4. added \in Registries(Ids) /\ added.ok = TRUE
    BY <1>1, <2>1, <2>3, AddedFacts
  <2> HIDE DEF added
  <2> QED
    BY <2>2, <2>4 DEF Registries
<1>6. ASSUME NEW id
      PROVE  /\ Removed(Registered, id).devices = << >>
             /\ Rejected(Registered, id).devices = << >>
  <2>1. /\ Removed(Registered, id) \in Registries(Ids)
        /\ Removed(Registered, id).devices = Without(Registered.devices, id)
        /\ Rejected(Registered, id).devices = Registered.devices
    BY <1>1, RemovedType
  <2>2. Selects(Without(Registered.devices, id), Registered.devices)
    BY <1>1, WithoutFacts
  <2>3. DOMAIN Without(Registered.devices, id) = {}
    BY <1>1, <2>2 DEF Selects
  <2> QED
    BY <1>1, <1>3, <2>1, <2>3
<1>7. ASSUME NEW order \in Seq(Ids)
      PROVE  Reordered(Registered, order).devices = << >>
  <2>1. /\ Reordered(Registered, order) \in Registries(Ids)
        /\ DOMAIN Reordered(Registered, order).devices = DOMAIN Registered.devices
    BY <1>1, ReorderedFacts
  <2> QED
    BY <1>1, <1>3, <2>1
<1>8. ASSUME NEW id, NEW name \in Nat
      PROVE  Sampled(Registered, id, name).devices = << >>
  <2>1. Sampled(Registered, id, name) = Registered
    BY <1>1, <1>2 DEF Sampled
  <2> QED
    BY <1>1, <2>1
<1>9. ASSUME NEW id, NEW field, NEW value
      PROVE  ~Edited(Registered, id, field, value).ok
  <2>1. Edited(Registered, id, field, value) = Refused(Registered)
    BY <1>1, <1>2 DEF Edited
  <2> QED
    BY <1>1, <2>1, RefusedFacts
<1>10. Loaded(Registered, << >>).devices = << >>
  <2>1. /\ Loaded(Registered, << >>) \in Registries(Ids)
        /\ Selects(Loaded(Registered, << >>).devices, << >>)
    BY <1>1, LoadedFacts
  <2>2. DOMAIN Loaded(Registered, << >>).devices = {}
    BY <1>1, <2>1 DEF Selects
  <2> QED
    BY <1>3, <2>1, <2>2
<1> QED
  BY <1>4, <1>5, <1>6, <1>7, <1>8, <1>9, <1>10

\* What a save leaves on flash after a reset.
LEMMA SaveForgets ==
    ASSUME TypesHold, OnFlash[2] = << >>, NEW setting \in Settings, NEW request,
           Save(setting, << >>, request)
    PROVE  OnFlash'[2] = << >>
<1>1. CASE flash' = flash
  BY <1>1 DEF OnFlash
<1>2. CASE flash' = Document(setting, << >>)
  <2>1. /\ Document(setting, << >>) # NoDocument
        /\ Document(setting, << >>).devices = << >>
    BY NoDevices, DocumentFacts
  <2>2. OnFlash' = <<flash'.settings, View(flash'.devices)>>
    BY <1>2, <2>1 DEF OnFlash
  <2> QED
    BY <1>2, <2>1, <2>2, NoDevices
<1> QED
  BY <1>1, <1>2, SaveFacts

\* One step keeps the devices away.
LEMMA ResetStep ==
    ASSUME TypesHold, ResetForgotten, [Next]_vars
    PROVE  ResetForgotten'
<1>1. /\ flash \in Stored \cup {NoDocument} /\ settings \in Settings
      /\ devices \in DeviceLists /\ cfgDevices \in DeviceLists
      /\ storage \in BOOLEAN /\ wiped \in BOOLEAN
  BY DEF TypesHold, TypeOK
<1>2. CASE ~wiped'
  BY <1>2 DEF ResetForgotten
<1>3. CASE FactoryReset
  <2>1. wiped' => /\ storage /\ devices' = << >> /\ cfgDevices' = << >>
                  /\ flash' = NoDocument
    BY <1>1, <1>3 DEF FactoryReset
  <2>2. flash' = NoDocument => OnFlash'[2] = << >>
    BY DEF OnFlash
  <2> QED
    BY <2>1, <2>2 DEF ResetForgotten
<1>4. ASSUME wiped', ~FactoryReset
      PROVE  ResetForgotten'
  <2>1. /\ wiped
        /\ \A advert \in Adverts : Discover(advert) => settings \notin AutoAdding
        /\ \A incoming \in Manuals : ~AddManual(incoming)
        /\ \A id \in Ids : ~Approve(id)
        /\ ~PutCopy /\ ~Restore
    <3>1. wiped
      <4>1. CASE \E advert \in Adverts : Discover(advert)
        BY <1>4, <4>1 DEF Discover
      <4>2. CASE \E incoming \in Manuals : AddManual(incoming) \/ AddManualRefused(incoming)
        BY <1>4, <4>2 DEF AddManual, AddManualRefused
      <4>3. CASE \E id \in Ids : Approve(id) \/ Delete(id) \/ Reorder(<<id>>)
        BY <1>4, <4>3 DEF Approve, Delete, Reorder
      <4>4. CASE \/ Flush \/ Settle \/ Boot \/ BootUnmounted \/ PowerOff
                 \/ UNCHANGED vars
        BY <1>4, <4>4 DEF Flush, Settle, Boot, BootUnmounted, PowerOff, vars
      <4>5. CASE \/ \E id \in Ids, name \in AgentNames : Sample(id, name)
                 \/ \E edit \in Edits : Edit(edit[1], edit[2], edit[3])
                 \/ \E secrets \in BOOLEAN : Backup(secrets)
        BY <1>4, <4>5 DEF Sample, Edit, Backup
      <4>6. CASE \E setting \in Settings : \/ ChangeSetting(setting)
                                           \/ SetAdminPassword(setting)
                                           \/ PutSetting(setting)
        BY <1>4, <4>6 DEF ChangeSetting, SetAdminPassword, PutSetting
      <4>7. CASE PutCopy \/ Restore
        BY <1>4, <4>7 DEF PutCopy, Restore
      <4> QED
        BY <1>4, <4>1, <4>2, <4>3, <4>4, <4>5, <4>6, <4>7 DEF Next
    <3>2. \A advert \in Adverts : Discover(advert) => settings \notin AutoAdding
      BY <1>4 DEF Discover
    <3>3. /\ \A incoming \in Manuals : ~AddManual(incoming)
          /\ \A id \in Ids : ~Approve(id)
          /\ ~PutCopy /\ ~Restore
      BY <1>4 DEF AddManual, Approve, PutCopy, Restore
    <3> QED
      BY <3>1, <3>2, <3>3
  <2>2. devices = << >> /\ cfgDevices = << >> /\ OnFlash[2] = << >>
    BY <2>1 DEF ResetForgotten
  <2>3. ASSUME devices' = << >>, UNCHANGED <<flash, cfgDevices>>
        PROVE  ResetForgotten'
    BY <2>2, <2>3 DEF ResetForgotten, OnFlash
  <2>4. ASSUME NEW setting \in Settings, NEW request,
               Save(setting, << >>, request), devices' = << >>
        PROVE  ResetForgotten'
    BY <2>2, <2>4, SaveFacts, SaveForgets DEF ResetForgotten
  <2>5. ASSUME NEW reg, Update(reg), reg.devices = << >>
        PROVE  ResetForgotten'
    BY <2>3, <2>5 DEF Update
  <2>6. CASE Flush
    <3>1. Save(settings, << >>, saveAt) /\ devices' = << >>
      BY <2>2, <2>6 DEF Flush
    <3> QED
      BY <1>1, <2>4, <3>1
  <2>7. CASE \/ Settle \/ BootUnmounted \/ UNCHANGED vars
             \/ \E setting \in Settings : ChangeSetting(setting)
    BY <2>2, <2>3, <2>7
       DEF Settle, BootUnmounted, ChangeSetting, vars, memory
  <2>8. CASE Boot
    <3>1. devices' = cfgDevices'
      BY <2>8 DEF Boot
    <3>2. CASE /\ cfgDevices' = << >> /\ UNCHANGED flash
      BY <2>2, <3>1, <3>2 DEF ResetForgotten, OnFlash
    <3>3. CASE flash.version = 2 /\ cfgDevices' = flash.devices /\ UNCHANGED flash
      <4>1. flash # NoDocument
        BY <3>3, DocumentFacts
      <4>2. flash.devices \in DeviceLists /\ View(flash.devices) = << >>
        BY <1>1, <2>2, <4>1, DocumentFacts DEF OnFlash
      <4>3. DOMAIN View(flash.devices) = DOMAIN flash.devices
        BY DEF View
      <4>4. DOMAIN << >> = {}
        BY EmptyFits
      <4>5. flash.devices = << >>
        BY <4>2, <4>3, <4>4, NoDevices
      <4> QED
        BY <2>2, <3>1, <3>3, <4>5 DEF ResetForgotten, OnFlash
    <3>4. CASE flash.version = 1 /\ Save(flash.settings, << >>, saveAt)
      <4>1. flash # NoDocument
        BY <3>4, DocumentFacts
      <4>2. flash.settings \in Settings
        BY <1>1, <4>1, DocumentFacts
      <4>3. devices' = << >>
        BY <3>1, <3>4, SaveFacts
      <4> QED
        BY <2>4, <3>4, <4>2, <4>3
    <3> QED
      BY <2>8, <3>2, <3>3, <3>4 DEF Boot
  <2>9. CASE PowerOff
    BY <2>2, <2>9 DEF PowerOff, ResetForgotten, OnFlash
  <2>10. CASE \E advert \in Adverts : Discover(advert)
    <3>1. PICK advert \in Adverts : Discover(advert)
      BY <2>10
    <3> DEFINE reg == UpsertDiscovered(Registered, advert, FALSE)
    <3>2. (settings \in AutoAdding) = FALSE /\ advert \in ConfigsOf(Ids)
      BY <2>1, <3>1, AppAssumption
    <3>3. Update(reg)
      BY <3>1, <3>2 DEF Discover
    <3>4. reg.devices = << >>
      BY <2>2, <3>2, EmptyStays
    <3> HIDE DEF reg
    <3> QED
      BY <2>5, <3>3, <3>4
  <2>11. CASE \E incoming \in Manuals : AddManualRefused(incoming)
    <3>1. PICK incoming \in Manuals : AddManualRefused(incoming)
      BY <2>11
    <3>2. UpsertManual(Registered, incoming).ok
      BY <2>2, AppAssumption, EmptyStays
    <3> QED
      BY <3>1, <3>2 DEF AddManualRefused
  <2>12. CASE \E id \in Ids : Delete(id)
    <3>1. PICK id \in Ids : Delete(id)
      BY <2>12
    <3>2. PICK reg : /\ Update(reg)
                     /\ reg \in {Removed(Registered, id), Rejected(Registered, id)}
      BY <3>1 DEF Delete
    <3>3. reg.devices = << >>
      BY <2>2, <3>2, EmptyStays
    <3> QED
      BY <2>5, <3>2, <3>3
  <2>13. CASE \E id \in Ids : Reorder(<<id>>)
    <3>1. PICK id \in Ids : Reorder(<<id>>)
      BY <2>13
    <3> DEFINE reg == Reordered(Registered, <<id>>)
    <3>2. <<id>> \in Seq(Ids)
      OBVIOUS
    <3>3. reg.devices = << >>
      BY <2>2, <3>2, EmptyStays
    <3> QED
      BY <2>5, <3>1, <3>3 DEF Reorder
  <2>14. CASE \E id \in Ids, name \in AgentNames : Sample(id, name)
    <3>1. PICK id \in Ids, name \in AgentNames : Sample(id, name)
      BY <2>14
    <3>2. Sampled(Registered, id, name).devices = << >>
      BY <2>2, AppAssumption, EmptyStays
    <3> QED
      BY <2>3, <3>1, <3>2 DEF Sample
  <2>15. CASE \E edit \in Edits : Edit(edit[1], edit[2], edit[3])
    <3>1. PICK edit \in Edits : Edit(edit[1], edit[2], edit[3])
      BY <2>15
    <3>2. ~Edited(Registered, edit[1], edit[2], edit[3]).ok
      BY <2>2, EmptyStays
    <3> QED
      BY <3>1, <3>2 DEF Edit, Update
  <2>16. CASE \E setting \in Settings : SetAdminPassword(setting)
    <3>1. PICK setting \in Settings : SetAdminPassword(setting)
      BY <2>16
    <3>2. devices' = << >>
      BY <2>2, <3>1 DEF SetAdminPassword
    <3>3. CASE storage
      <4>1. Save(setting, << >>, saveAt)
        BY <2>2, <3>1, <3>3 DEF SetAdminPassword
      <4> QED
        BY <2>4, <3>2, <4>1
    <3>4. CASE ~storage
      BY <2>3, <3>1, <3>2, <3>4 DEF SetAdminPassword
    <3> QED
      BY <3>3, <3>4
  <2>17. CASE \E setting \in Settings : PutSetting(setting)
    <3>1. /\ devices' = Loaded(Registered, << >>).devices
          /\ cfgDevices' = << >> /\ flash' = flash
      BY <2>2, <2>17 DEF PutSetting, PutConfig
    <3>2. devices' = << >>
      BY <2>2, <3>1, EmptyStays
    <3> QED
      BY <2>2, <3>1, <3>2 DEF ResetForgotten, OnFlash
  <2>18. CASE \E secrets \in BOOLEAN : Backup(secrets)
    BY <2>2, <2>18 DEF Backup, ResetForgotten, OnFlash
  <2> QED
    BY <1>4, <2>1, <2>6, <2>7, <2>8, <2>9, <2>10, <2>11, <2>12, <2>13, <2>14,
       <2>15, <2>16, <2>17, <2>18 DEF Next
<1> QED
  BY <1>2, <1>3, <1>4

\* A factory reset whose removals succeed is not undone by a save that was
\* waiting, a failure, a restart or a request that adds no device.
THEOREM ResetStands == Spec => []ResetForgotten
<1>1. Init => ResetForgotten
  BY DEF Init, ResetForgotten
<1>2. TypesHold /\ ResetForgotten /\ [Next]_vars => ResetForgotten'
  BY ResetStep
<1> QED
  BY <1>1, <1>2, AppTypes, PTL DEF Spec
=============================================================================
