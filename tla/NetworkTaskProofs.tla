------------------------- MODULE NetworkTaskProofs --------------------------
(***************************************************************************)
(* Theorems about what the network task runs: FleetNetwork, for every fleet*)
(* (any identities, addresses, agents, capacity and bounds), and at the end*)
(* WifiManager, for any networks and limits.                               *)
(***************************************************************************)
EXTENDS FleetNetwork, SequenceTheorems, FiniteSetTheorems, TLAPS

\* An entry of the right shape that holds no sample but its own machine's.
HomeStates == {d \in DeviceStates : d.latest \in {None, d.id}}

FleetInv == TypeOK /\ devices \in Seq(HomeStates)

LEMMA RemainderBelow ==
    ASSUME NEW k \in Nat, NEW n \in Nat \ {0}
    PROVE k % n \in 0 .. n - 1
  OBVIOUS

\* So an index counted on from another and wrapped is an index.
LEMMA WrappedIndex ==
    ASSUME NEW c \in Nat, NEW k \in Nat, NEW n \in Nat \ {0}
    PROVE ((c + k) % n) + 1 \in 1 .. n
<1>1. (c + k) % n \in 0 .. n - 1
  <2>1. c + k \in Nat
    OBVIOUS
  <2>2. QED
    BY <2>1, RemainderBelow
<1> QED
  BY <1>1

LEMMA DeviceFound ==
    ASSUME NEW id, Known(id)
    PROVE Device(id) \in DOMAIN devices /\ devices[Device(id)].id = id
  BY DEF Known, Device

LEMMA RemoveAtSeq ==
    ASSUME NEW S, NEW s \in Seq(S), NEW i \in 1 .. Len(s)
    PROVE /\ RemoveAt(s, i) \in Seq(S)
          /\ Len(RemoveAt(s, i)) <= Len(s)
<1> DEFINE before == SubSeq(s, 1, i - 1)
           after == SubSeq(s, i + 1, Len(s))
<1>1. before \in Seq(S) /\ Len(before) = i - 1
  BY SMT
<1>2. after \in Seq(S) /\ Len(after) = Len(s) - i
  BY SMT
<1>3. before \o after \in Seq(S) /\ Len(before \o after) = Len(before) + Len(after)
  <2> HIDE DEF before, after
  <2> QED
    BY <1>1, <1>2, ConcatProperties, Zenon
<1>4. Len(before) + Len(after) <= Len(s)
  <2> HIDE DEF before, after
  <2>1. Len(s) \in Nat
    BY LenProperties
  <2>2. QED
    BY <1>1, <1>2, <2>1
<1>5. QED
  BY <1>3, <1>4 DEF RemoveAt

LEMMA ExceptHome ==
    ASSUME NEW S, NEW s \in Seq(S), NEW i \in DOMAIN s, NEW e \in S
    PROVE [s EXCEPT ![i] = e] \in Seq(S) /\ Len([s EXCEPT ![i] = e]) = Len(s)
  BY ExceptSeq

LEMMA SampleHome ==
    ASSUME NEW d \in HomeStates, NEW via \in {"http", "mqtt"}
    PROVE ApplySample(d, d.id, via) \in HomeStates
<1>1. 0 \in 0 .. 2 ^ MaxDoublings /\ 0 \in 0 .. MaxDoublings /\ 0 \in 0 .. FreshTicks + 1
  BY FleetAssumption
<1>2. d.id \in Ids /\ d.url \in Urls /\ d.enabled \in BOOLEAN
  BY DEF HomeStates, DeviceStates
<1> DEFINE timed == [d EXCEPT !.age = 0, !.since = 0, !.failures = 0]
<1>4. timed \in HomeStates /\ timed.id = d.id
  BY <1>1 DEF HomeStates, DeviceStates
<1>5. [timed EXCEPT !.latest = d.id, !.via = via, !.offline = FALSE] \in HomeStates
  BY <1>2, <1>4 DEF HomeStates, DeviceStates
<1>6. ApplySample(d, d.id, via) = [timed EXCEPT !.latest = d.id, !.via = via, !.offline = FALSE]
  BY DEF ApplySample, HomeStates, DeviceStates
<1>7. QED
  BY <1>5, <1>6

LEMMA FailureHome ==
    ASSUME NEW d \in HomeStates
    PROVE NoteFailure(d) \in HomeStates
<1> DEFINE failures == IF d.failures < MaxDoublings THEN d.failures + 1 ELSE d.failures
<1>1. 0 \in 0 .. 2 ^ MaxDoublings /\ failures \in 0 .. MaxDoublings
  BY FleetAssumption DEF HomeStates, DeviceStates
<1>2. NoteFailure(d) = [d EXCEPT !.since = 0, !.failures = failures]
  BY DEF NoteFailure
<1>3. QED
  BY <1>1, <1>2 DEF HomeStates, DeviceStates

LEMMA NewHome ==
    ASSUME NEW id \in Ids, NEW url \in Urls
    PROVE NewDevice(id, url) \in HomeStates
  BY FleetAssumption DEF HomeStates, DeviceStates, NewDevice
LEMMA FleetInvInit == Init => FleetInv
<1> SUFFICES ASSUME Init PROVE FleetInv
  OBVIOUS
<1>1. devices \in Seq(DeviceStates) /\ devices \in Seq(HomeStates) /\ Len(devices) = 0
  BY EmptySeq DEF Init
<1>2. mqtt \in [host : Brokers \cup {None}, enabled : BOOLEAN, connected : BOOLEAN,
                retry : 0 .. 2 * MaxRetry, backoff : 1 .. 2 * MaxRetry]
  <2>1. 0 \in 0 .. 2 * MaxRetry /\ 1 \in 1 .. 2 * MaxRetry
    BY FleetAssumption
  <2>2. QED
    BY <2>1 DEF Init, NoMqtt
<1>3. cursor \in 0 .. MaxDevices - 1 /\ Len(devices) <= MaxDevices
  BY <1>1, FleetAssumption DEF Init
<1>4. /\ {reload, link} \subseteq BOOLEAN /\ asking \subseteq Handlers
      /\ {mqttConfig, readConfig} \subseteq [on : BOOLEAN, broker : Brokers \cup {None}]
      /\ peer \in Brokers \cup {None}
  <2>1. mqttConfig \in [on : BOOLEAN, broker : Brokers \cup {None}]
    BY FleetAssumption DEF Init
  <2>2. readConfig \in [on : BOOLEAN, broker : Brokers \cup {None}]
    BY DEF Init, NoSettings
  <2>3. QED
    BY <2>1, <2>2 DEF Init
<1>5. QED
  BY <1>1, <1>2, <1>3, <1>4 DEF Init, FleetInv, TypeOK

\* Every step keeps the entries whole: the part of the invariant on devices.
LEMMA DevicesStep ==
    ASSUME FleetInv, [Next]_vars
    PROVE devices' \in Seq(HomeStates) /\ Len(devices') <= MaxDevices
<1> USE DEF FleetInv
<1>1. devices \in Seq(HomeStates) /\ Len(devices) <= MaxDevices
  BY DEF TypeOK
<1>2. \A i \in DOMAIN devices : devices[i] \in HomeStates
  BY <1>1
<1>3. CASE UNCHANGED devices
  BY <1>1, <1>3
<1>4. CASE Deliver
  <2>1. CASE UNCHANGED devices
    BY <1>1, <2>1
  <2> DEFINE message == Head(inbox)
             i == Device(message[2])
  <2>2. CASE Known(message[2]) /\ devices' = [devices EXCEPT ![i] = Heard(@, message)]
    <3>1. i \in DOMAIN devices /\ devices[i].id = message[2]
      BY <2>2, DeviceFound
    <3>2. devices[i] \in HomeStates
      BY <1>2, <3>1
    <3>3. Heard(devices[i], message) \in HomeStates
      <4>1. CASE message[1] = "telemetry"
        <5>1. Heard(devices[i], message) = ApplySample(devices[i], devices[i].id, "mqtt")
          BY <3>1, <4>1 DEF Heard
        <5>2. QED
          BY <3>2, <5>1, SampleHome
      <4>2. CASE message[1] # "telemetry"
        <5>1. (message[3] = "offline") \in BOOLEAN
          OBVIOUS
        <5>2. Heard(devices[i], message) =
                [devices[i] EXCEPT !.offline = (message[3] = "offline")]
          BY <4>2 DEF Heard
        <5> HIDE DEF message, i
        <5>3. QED
          BY <3>2, <5>1, <5>2 DEF HomeStates, DeviceStates
      <4>3. QED
        BY <4>1, <4>2
    <3>4. devices' = [devices EXCEPT ![i] = Heard(devices[i], message)]
      BY <2>2, <3>1
    <3> HIDE DEF message, i
    <3>5. QED
      BY <1>1, <3>1, <3>3, <3>4, ExceptHome
  <2>3. QED
    BY <1>4, <2>1, <2>2 DEF Deliver
<1>5. CASE StartPoll
  <2>1. PICK k \in Search : Claim(Visited(k))
    BY <1>5 DEF StartPoll
  <2> DEFINE i == Visited(k)
  <2>2. i \in DOMAIN devices
    <3>1. k \in 0 .. Len(devices) - 1 /\ Len(devices) \in Nat
      BY <1>1 DEF Search
    <3>2. Len(devices) \in Nat \ {0} /\ k \in Nat
      BY <3>1
    <3>3. cursor \in Nat
      BY FleetAssumption DEF TypeOK
    <3>4. ((cursor + k) % Len(devices)) + 1 \in 1 .. Len(devices)
      BY <3>2, <3>3, WrappedIndex, Zenon
    <3>5. DOMAIN devices = 1 .. Len(devices)
      BY <1>1
    <3>6. QED
      BY <3>4, <3>5, Zenon DEF Visited
  <2>3. [devices[i] EXCEPT !.since = 0] \in HomeStates
    <3>1. devices[i] \in HomeStates /\ 0 \in 0 .. 2 ^ MaxDoublings
      BY <1>2, <2>2, FleetAssumption
    <3> HIDE DEF i
    <3>2. QED
      BY <3>1 DEF HomeStates, DeviceStates
  <2>4. devices' = [devices EXCEPT ![i] = [devices[i] EXCEPT !.since = 0]]
    BY <2>1, <2>2 DEF Claim
  <2> HIDE DEF i
  <2>5. QED
    BY <1>1, <2>2, <2>3, <2>4, ExceptHome
<1>6. CASE FinishPoll
  <2>1. CASE ~Known(target.id)
    BY <1>1, <1>6, <2>1 DEF FinishPoll
  <2>2. CASE Known(target.id)
    <3> DEFINE i == Device(target.id)
               d == devices[i]
               new == IF FetchSucceeds THEN ApplySample(d, HostOf[target.url], "http")
                      ELSE NoteFailure(d)
    <3>1. i \in DOMAIN devices /\ d.id = target.id
      BY <2>2, DeviceFound
    <3>2. d \in HomeStates
      BY <1>2, <3>1
    <3>3. FetchSucceeds => HostOf[target.url] = d.id
      BY <3>1 DEF FetchSucceeds
    <3>4. new \in HomeStates
      BY <3>2, <3>3, SampleHome, FailureHome
    <3>5. devices' = [devices EXCEPT ![i] = new]
      BY <1>6, <2>2, <3>1 DEF FinishPoll
    <3> HIDE DEF i, d, new
    <3>6. QED
      BY <1>1, <3>1, <3>4, <3>5, ExceptHome
  <2>3. QED
    BY <2>1, <2>2
<1>7. CASE Tick
  <2> DEFINE Aged(d) ==
               [d EXCEPT !.since = IF @ < 2 ^ MaxDoublings THEN @ + 1 ELSE @,
                         !.age = IF @ <= FreshTicks THEN @ + 1 ELSE @]
  <2>1. ASSUME NEW d \in HomeStates PROVE Aged(d) \in HomeStates
    <3> DEFINE since == IF d.since < 2 ^ MaxDoublings THEN d.since + 1 ELSE d.since
               age == IF d.age <= FreshTicks THEN d.age + 1 ELSE d.age
    <3>1. since \in 0 .. 2 ^ MaxDoublings /\ age \in 0 .. FreshTicks + 1
      <4> DEFINE most == 2 ^ MaxDoublings
      <4>1. d.since \in 0 .. most /\ most \in Nat
        BY FleetAssumption DEF HomeStates, DeviceStates
      <4>2. d.age \in 0 .. FreshTicks + 1 /\ FreshTicks \in Nat
        BY FleetAssumption DEF HomeStates, DeviceStates
      <4> HIDE DEF most
      <4>3. (IF d.since < most THEN d.since + 1 ELSE d.since) \in 0 .. most
        BY <4>1
      <4>4. age \in 0 .. FreshTicks + 1
        BY <4>2
      <4>5. QED
        BY <4>3, <4>4 DEF most
    <3>2. Aged(d) = [d EXCEPT !.since = since, !.age = age]
      OBVIOUS
    <3> HIDE DEF since, age, Aged
    <3>3. QED
      BY <3>1, <3>2 DEF HomeStates, DeviceStates
  <2>2. devices' = [i \in DOMAIN devices |-> Aged(devices[i])]
    BY <1>7 DEF Tick
  <2> HIDE DEF Aged
  <2>3. QED
    BY <1>1, <1>2, <2>1, <2>2
<1>8. ASSUME NEW entry \in Entries, Add(entry[1], entry[2])
      PROVE devices' \in Seq(HomeStates) /\ Len(devices') <= MaxDevices
  <2>1. NewDevice(entry[1], entry[2]) \in HomeStates
    BY FleetAssumption, NewHome
  <2>2. Len(devices) < MaxDevices /\ devices' = Append(devices, NewDevice(entry[1], entry[2]))
    BY <1>8 DEF Add
  <2>3. QED
    BY <1>1, <2>1, <2>2, AppendProperties, FleetAssumption
<1>9. ASSUME NEW id \in Ids, Delete(id)
      PROVE devices' \in Seq(HomeStates) /\ Len(devices') <= MaxDevices
  <2>1. Device(id) \in 1 .. Len(devices)
    BY <1>1, <1>9, DeviceFound DEF Delete
  <2>2. devices' = RemoveAt(devices, Device(id))
    BY <1>9 DEF Delete
  <2>3. RemoveAt(devices, Device(id)) \in Seq(HomeStates)
        /\ Len(RemoveAt(devices, Device(id))) <= Len(devices)
    BY <1>1, <2>1, RemoveAtSeq
  <2>4. QED
    BY <1>1, <2>2, <2>3, LenProperties, FleetAssumption
<1>10. ASSUME NEW edit \in Edits, Edit(edit[1], edit[2], edit[3])
       PROVE devices' \in Seq(HomeStates) /\ Len(devices') <= MaxDevices
  <2> DEFINE i == Device(edit[1])
  <2>1. i \in DOMAIN devices
    BY <1>10, DeviceFound DEF Edit
  <2>2. edit[2] \in Urls /\ edit[3] \in BOOLEAN
    BY FleetAssumption
  <2>3. [devices[i] EXCEPT !.url = edit[2], !.enabled = edit[3]] \in HomeStates
    BY <1>2, <2>1, <2>2 DEF HomeStates, DeviceStates
  <2>4. devices' = [devices EXCEPT ![i] =
                      [devices[i] EXCEPT !.url = edit[2], !.enabled = edit[3]]]
    BY <1>1, <1>10, <2>1 DEF Edit
  <2> HIDE DEF i
  <2>5. QED
    BY <1>1, <2>1, <2>3, <2>4, ExceptHome
<1>11. ASSUME NEW m \in Modes, NEW on \in MqttChoices, PutConfig(m, on)
       PROVE devices' \in Seq(HomeStates) /\ Len(devices') <= MaxDevices
  <2> DEFINE Rebuilt(d) == [NewDevice(d.id, d.url) EXCEPT !.enabled = d.enabled]
  <2>1. ASSUME NEW d \in HomeStates PROVE Rebuilt(d) \in HomeStates
    <3>1. d.id \in Ids /\ d.url \in Urls /\ d.enabled \in BOOLEAN
      BY DEF HomeStates, DeviceStates
    <3>2. NewDevice(d.id, d.url) \in HomeStates
      BY <3>1, NewHome
    <3>3. QED
      BY <3>1, <3>2 DEF HomeStates, DeviceStates
  <2>2. devices' = [i \in DOMAIN devices |-> Rebuilt(devices[i])]
    BY <1>11 DEF PutConfig
  <2> HIDE DEF Rebuilt
  <2>3. QED
    BY <1>1, <1>2, <2>1, <2>2
<1>12. QED
  BY <1>3, <1>4, <1>5, <1>6, <1>7, <1>8, <1>9, <1>10, <1>11
  DEF Next, NetworkTask, vars, panel, session, outside, TakeReload, ReadSettings, ApplySettings,
      RequestReload,
      MqttDisabled, Reconnect, NothingToPoll, PressTransport, ReachChanges, LinkLost,
      AgentStarts, AgentStops, AgentConnects, AgentLeaves, AgentPublishes, Publish
\* The rest of the type invariant.
LEMMA TypeStep ==
    ASSUME TypeOK, [Next]_vars,
           devices' \in Seq(DeviceStates), Len(devices') <= MaxDevices
    PROVE TypeOK'
<1> USE DEF TypeOK
<1> DEFINE Connections == [host : Brokers \cup {None},
                           enabled : BOOLEAN, connected : BOOLEAN,
                           retry : 0 .. 2 * MaxRetry, backoff : 1 .. 2 * MaxRetry]
<1>a. /\ mqtt \in Connections
      /\ mqtt.host \in Brokers \cup {None}
      /\ {mqtt.enabled, mqtt.connected} \subseteq BOOLEAN
      /\ mqtt.retry \in 0 .. 2 * MaxRetry /\ mqtt.backoff \in 1 .. 2 * MaxRetry
      /\ 0 \in 0 .. 2 * MaxRetry /\ 1 \in 1 .. 2 * MaxRetry /\ MaxRetry \in Nat \ {0}
  BY FleetAssumption
<1>1. CASE TakeReload
  BY <1>1 DEF TakeReload, panel, session, connection, outside
<1>2. CASE ReadSettings
  BY <1>2 DEF ReadSettings, panel, session, connection, outside
<1>3. CASE ApplySettings
  <2>1. readConfig.broker \in Brokers \cup {None}
    OBVIOUS
  <2>2. CASE readConfig.on
    <3> DEFINE broker == readConfig.broker
               stale == mqtt.connected /\ broker # mqtt.host
               again == stale \/ broker # None
               connected == mqtt.connected /\ ~stale
               enabled == mqtt.enabled \/ broker # None
    <3>1. Configure(broker)
      BY <1>3, <2>2 DEF ApplySettings
    <3>2. mqtt' = [mqtt EXCEPT !.host = broker, !.connected = connected,
                               !.enabled = enabled,
                               !.retry = IF again THEN 0 ELSE mqtt.retry,
                               !.backoff = IF again THEN 1 ELSE mqtt.backoff]
      BY <1>a, <3>1 DEF Configure
    <3>3. /\ link' \in BOOLEAN /\ peer' \in Brokers \cup {None}
      BY <3>1 DEF Configure, Disconnected, connection
    <3>4. connected \in BOOLEAN /\ enabled \in BOOLEAN
      BY <1>a, Zenon
    <3>5. /\ (IF again THEN 0 ELSE mqtt.retry) \in 0 .. 2 * MaxRetry
          /\ (IF again THEN 1 ELSE mqtt.backoff) \in 1 .. 2 * MaxRetry
      BY <1>a
    <3> HIDE DEF again, connected, enabled
    <3>6. mqtt' \in Connections
      BY <1>a, <2>1, <3>2, <3>4, <3>5
    <3>7. QED
      BY <1>3, <3>3, <3>6 DEF ApplySettings, NoSettings, panel, outside
  <2>3. CASE ~readConfig.on
    <3>1. End
      BY <1>3, <2>3 DEF ApplySettings
    <3>2. mqtt' \in Connections
      BY <1>a, <3>1 DEF End
    <3>3. link' \in BOOLEAN /\ peer' \in Brokers \cup {None}
      BY <3>1 DEF End, Disconnected
    <3>4. QED
      BY <1>3, <3>2, <3>3 DEF ApplySettings, NoSettings, panel, outside
  <2>4. QED
    BY <2>2, <2>3
<1>4. CASE MqttDisabled
  BY <1>4 DEF MqttDisabled, AtMqtt, panel, settings, session, connection, outside
<1>5. CASE Reconnect
  <2>1. RetryLater \in Connections
    <3> DEFINE doubled == IF mqtt.backoff >= MaxRetry THEN MaxRetry
                          ELSE 2 * mqtt.backoff
    <3>1. doubled \in 1 .. 2 * MaxRetry /\ mqtt.backoff \in 0 .. 2 * MaxRetry
      BY <1>a
    <3>2. RetryLater = [mqtt EXCEPT !.connected = FALSE, !.retry = mqtt.backoff,
                                    !.backoff = doubled]
      BY <1>a DEF RetryLater
    <3> HIDE DEF doubled
    <3>3. QED
      BY <1>a, <3>1, <3>2
  <2>2. mqtt' \in Connections
    BY <1>5, <1>a, <2>1 DEF Reconnect
  <2>3. link' \in BOOLEAN /\ peer' \in Brokers \cup {None}
    BY <1>5, <1>a DEF Reconnect, connection
  <2>4. QED
    BY <1>5, <2>2, <2>3 DEF Reconnect, AtMqtt, panel, settings, outside
<1>6. CASE Deliver
  BY <1>6 DEF Deliver, AtMqtt, settings, outside
<1>7. CASE StartPoll
  <2>1. PICK k \in Search : Claim(Visited(k))
    BY <1>7 DEF StartPoll
  <2> DEFINE i == Visited(k)
  <2>2. i \in DOMAIN devices
    <3>1. k \in 0 .. Len(devices) - 1 /\ Len(devices) \in Nat
      BY DEF Search
    <3>2. Len(devices) \in Nat \ {0} /\ k \in Nat
      BY <3>1
    <3>3. cursor \in Nat
      BY FleetAssumption
    <3>4. ((cursor + k) % Len(devices)) + 1 \in 1 .. Len(devices)
      BY <3>2, <3>3, WrappedIndex, Zenon
    <3>5. DOMAIN devices = 1 .. Len(devices)
      OBVIOUS
    <3>6. QED
      BY <3>4, <3>5, Zenon DEF Visited
  <2>3. cursor' \in 0 .. MaxDevices - 1
    <3>1. cursor' = i % Len(devices) /\ Len(devices) \in 1 .. MaxDevices /\ i \in Nat
      BY <2>1, <2>2, FleetAssumption DEF Claim
    <3> HIDE DEF i
    <3>2. QED
      BY <3>1, FleetAssumption
  <2>4. target' \in [id : Ids, url : Urls] /\ target' # None
    <3>1. target' = [id |-> devices[i].id, url |-> devices[i].url]
      BY <2>1 DEF Claim
    <3>2. devices[i] \in DeviceStates
      BY <2>2
    <3> HIDE DEF i
    <3>3. QED
      BY <3>1, <3>2, FleetAssumption DEF DeviceStates
  <2>5. QED
    BY <1>7, <2>3, <2>4 DEF StartPoll, settings, session, connection, outside
<1>8. CASE NothingToPoll
  BY <1>8 DEF NothingToPoll, panel, settings, session, connection, outside
<1>9. CASE FinishPoll
  BY <1>9 DEF FinishPoll, settings, session, connection, outside
<1>10. CASE Tick
  <2> DEFINE retry == IF mqtt.retry > 0 THEN mqtt.retry - 1 ELSE 0
  <2>1. retry \in 0 .. 2 * MaxRetry
    BY <1>a
  <2>2. mqtt' = [mqtt EXCEPT !.retry = retry]
    BY <1>10 DEF Tick
  <2> HIDE DEF retry
  <2>3. mqtt' \in Connections
    BY <1>a, <2>1, <2>2
  <2>4. QED
    BY <1>10, <2>3 DEF Tick, settings, connection, outside
<1>11. ASSUME NEW id, NEW url, Add(id, url) PROVE TypeOK'
  BY <1>11 DEF Add, settings, session, connection, outside
<1>12. ASSUME NEW id, Delete(id) PROVE TypeOK'
  BY <1>12 DEF Delete, settings, session, connection, outside
<1>13. ASSUME NEW id, NEW url, NEW enabled, Edit(id, url, enabled) PROVE TypeOK'
  BY <1>13 DEF Edit, settings, session, connection, outside
<1>14. ASSUME NEW m \in Modes, NEW choice \in MqttChoices, PutConfig(m, choice)
       PROVE TypeOK'
  BY <1>14, FleetAssumption DEF PutConfig, session, connection, outside
<1>15. CASE PressTransport
  BY <1>15 DEF PressTransport, panel, session, connection, outside
<1>16. CASE ReachChanges
  BY <1>16, FleetAssumption DEF ReachChanges, panel, settings, session, connection
<1>17. CASE LinkLost
  BY <1>17 DEF LinkLost, Disconnected, panel, settings, outside
<1>18. ASSUME NEW a \in Agents,
              \/ AgentStarts(a) \/ AgentStops(a) \/ AgentConnects(a)
              \/ AgentLeaves(a) \/ AgentPublishes(a)
       PROVE TypeOK'
  BY <1>18 DEF AgentStarts, AgentStops, AgentConnects, AgentLeaves, AgentPublishes,
               Publish, panel, settings, session, connection
<1>19. CASE UNCHANGED vars
  BY <1>19 DEF vars, panel, settings, session, connection, outside
<1>20. ASSUME NEW task \in Handlers, RequestReload(task) PROVE TypeOK'
  BY <1>20 DEF RequestReload, panel, session, connection, outside
<1>21. QED
  BY <1>1, <1>2, <1>3, <1>4, <1>5, <1>6, <1>7, <1>8, <1>9, <1>10, <1>11, <1>12,
     <1>13, <1>14, <1>15, <1>16, <1>17, <1>18, <1>19, <1>20 DEF Next, NetworkTask

LEMMA FleetInvStep == FleetInv /\ [Next]_vars => FleetInv'
<1> SUFFICES ASSUME FleetInv, [Next]_vars PROVE FleetInv'
  OBVIOUS
<1>1. devices' \in Seq(HomeStates) /\ Len(devices') <= MaxDevices
  BY DevicesStep
<1>2. devices' \in Seq(DeviceStates)
  <2>1. HomeStates \subseteq DeviceStates
    BY DEF HomeStates
  <2>2. QED
    BY <1>1, <2>1, SeqMonotonic
<1>3. TypeOK'
  BY <1>1, <1>2, TypeStep DEF FleetInv
<1>4. QED
  BY <1>1, <1>3 DEF FleetInv, HomeStates, DeviceStates

LEMMA FleetInvAlways == Spec => []FleetInv
  BY FleetInvInit, FleetInvStep, PTL DEF Spec

\* Every variable keeps its type, whatever the fleet, the user and the
\* network do: in particular the poll cursor and the back-off stay in range.
THEOREM FleetTypeCorrect == Spec => []TypeOK
<1>1. FleetInv => TypeOK
  BY DEF FleetInv
<1>2. QED
  BY <1>1, FleetInvAlways, PTL

\* No entry ever holds the sample of another machine.
THEOREM FleetSamplesAtHome == Spec => []SamplesAtHome
<1>1. FleetInv => SamplesAtHome
  BY DEF FleetInv, SamplesAtHome, HomeStates
<1>2. QED
  BY <1>1, FleetInvAlways, PTL

(* ------------------------ the setting of the user ---------------------- *)

\* What TransportSettled rests on: a connection needs the transport enabled and
\* is with its broker, and the copy to be applied is the settings unless another
\* round is due or will be asked for.
SettingInv ==
    /\ mqtt.connected => mqtt.enabled
    /\ link => mqtt.connected /\ peer = mqtt.host /\ peer # None
    /\ pc = "apply" /\ ~reload /\ asking = {} => readConfig = mqttConfig
    /\ TransportSettled

LEMMA SettingInit == Init => SettingInv
  BY DEF Init, NoMqtt, SettingInv, TransportSettled

LEMMA SettingStep ==
    ASSUME TypeOK, SettingInv, [Next]_vars
    PROVE SettingInv'
<1> USE DEF SettingInv, TransportSettled
<1>a. /\ mqtt \in [host : Brokers \cup {None}, enabled : BOOLEAN, connected : BOOLEAN,
                   retry : 0 .. 2 * MaxRetry, backoff : 1 .. 2 * MaxRetry]
      /\ {reload, link} \subseteq BOOLEAN
      /\ readConfig.on \in BOOLEAN
  BY DEF TypeOK
<1>1. CASE TakeReload
  BY <1>1 DEF TakeReload, panel, session, connection, outside
<1>2. CASE ReadSettings
  BY <1>2 DEF ReadSettings, panel, session, connection, outside
<1>3. CASE ApplySettings
  <2>1. /\ UNCHANGED <<mqttConfig, asking, reload>> /\ pc = "apply" /\ pc' = "mqtt"
        /\ ~reload /\ asking = {} => readConfig = mqttConfig
    BY <1>3 DEF ApplySettings
  <2>2. CASE readConfig.on
    <3> DEFINE broker == readConfig.broker
               stale == mqtt.connected /\ broker # mqtt.host
    <3>1. Configure(broker)
      BY <1>3, <2>2 DEF ApplySettings
    <3> HIDE DEF broker
    <3>2. /\ mqtt'.host = broker
          /\ mqtt'.connected <=> mqtt.connected /\ ~stale
          /\ mqtt'.enabled <=> mqtt.enabled \/ broker # None
      BY <1>a, <3>1 DEF Configure
    <3>3. /\ stale => link' = FALSE
          /\ ~stale => link' = link /\ peer' = peer
      BY <3>1 DEF Configure, Disconnected, connection
    <3>4. /\ mqtt'.connected => mqtt'.enabled
          /\ link' => mqtt'.connected /\ peer' = mqtt'.host /\ peer' # None
      BY <1>a, <3>2, <3>3
    <3>5. TransportSettled'
      BY <2>1, <2>2, <3>2, <3>4 DEF broker
    <3>6. QED
      BY <2>1, <3>4, <3>5
  <2>3. CASE ~readConfig.on
    <3>1. mqtt'.enabled = FALSE /\ mqtt'.connected = FALSE /\ link' = FALSE
      BY <1>3, <1>a, <2>3 DEF ApplySettings, End, Disconnected
    <3>2. QED
      BY <2>1, <2>3, <3>1
  <2>4. QED
    BY <2>2, <2>3
<1>4. CASE MqttDisabled
  BY <1>4 DEF MqttDisabled, AtMqtt, panel, settings, session, connection, outside
<1>5. CASE Reconnect
  BY <1>5, <1>a DEF Reconnect, AtMqtt, RetryLater, panel, settings, connection, outside
<1>6. CASE Deliver
  BY <1>6 DEF Deliver, AtMqtt, settings, outside
<1>7. CASE StartPoll \/ NothingToPoll \/ FinishPoll
  BY <1>7
  DEF StartPoll, NothingToPoll, FinishPoll, panel, settings, session, connection, outside
<1>8. CASE Tick
  BY <1>8, <1>a DEF Tick, settings, connection, outside
<1>9. ASSUME NEW id, NEW url, NEW enabled,
             Add(id, url) \/ Delete(id) \/ Edit(id, url, enabled)
      PROVE SettingInv'
  <2>1. UNCHANGED <<settings, pc, session>>
    BY <1>9 DEF Add, Delete, Edit
  <2>2. QED
    BY <2>1 DEF settings, session, connection
<1>10. ASSUME NEW m, NEW choice, PutConfig(m, choice) PROVE SettingInv'
  BY <1>10 DEF PutConfig, session, connection, outside
<1>11. CASE PressTransport \/ ReachChanges \/ LinkLost
  BY <1>11, <1>a
  DEF PressTransport, ReachChanges, LinkLost, Disconnected, panel, settings, session,
      connection, outside
<1>12. ASSUME NEW a \in Agents,
              \/ AgentStarts(a) \/ AgentStops(a) \/ AgentConnects(a)
              \/ AgentLeaves(a) \/ AgentPublishes(a)
       PROVE SettingInv'
  BY <1>12 DEF AgentStarts, AgentStops, AgentConnects, AgentLeaves, AgentPublishes,
               Publish, panel, settings, session, connection
<1>13. CASE UNCHANGED vars
  BY <1>13 DEF vars, panel, settings, session, connection, outside
<1>14. ASSUME NEW task, RequestReload(task) PROVE SettingInv'
  BY <1>14 DEF RequestReload, panel, session, connection, outside
<1>15. QED
  <2>1. ASSUME NEW id, NEW url, Add(id, url) PROVE SettingInv'
    BY <1>9, <2>1
  <2>2. ASSUME NEW id, Delete(id) PROVE SettingInv'
    BY <1>9, <2>2
  <2> HIDE DEF SettingInv, TransportSettled
  <2>3. QED
    BY <1>1, <1>2, <1>3, <1>4, <1>5, <1>6, <1>7, <1>8, <1>9, <1>10, <1>11, <1>12,
       <1>13, <1>14, <2>1, <2>2 DEF Next, NetworkTask

\* A change of the MQTT setting is never lost between the user's task and the
\* network task, and no connection outlives the switch that turned it off.
THEOREM FleetTransportSettled == Spec => []TransportSettled
<1>1. FleetInv => TypeOK
  BY DEF FleetInv
<1>2. SettingInv => TransportSettled
  BY DEF SettingInv
<1>3. QED
  BY <1>1, <1>2, FleetInvAlways, SettingInit, SettingStep, PTL DEF Spec

(* ------------------------- messages on their way ----------------------- *)

\* SetToSeq lists a finite set: every element, and nothing else.
LEMMA ListOf ==
    ASSUME NEW S, IsFiniteSet(S)
    PROVE SetToSeq(S) \in Seq(S) /\ ToSet(SetToSeq(S)) = S
<1> DEFINE n == Cardinality(S)
           f == SetToSeq(S)
<1>1. n \in Nat /\ ExistsBijection(1 .. n, S)
  BY FS_CardinalityType
<1>2. PICK g \in Bijection(1 .. n, S) : TRUE
  BY <1>1 DEF ExistsBijection
<1>3. g \in [1 .. n -> S] /\ IsInjective(g)
  BY <1>2 DEF Bijection, Injection, IsInjective
<1>4. f \in [1 .. n -> S] /\ IsInjective(f)
  BY <1>3 DEF SetToSeq
<1> HIDE DEF f
<1>5. f \in Seq(S)
  BY <1>1, <1>4, IsASeq
<1>6. f \in Surjection(1 .. n, S)
  <2>1. f \in Injection(1 .. n, S)
    BY <1>4 DEF Injection, IsInjective
  <2>2. Cardinality(1 .. n) = n
    BY <1>1, FS_Interval
  <2> HIDE DEF n
  <2>3. Cardinality(1 .. n) = Cardinality(S)
    BY <2>2 DEF n
  <2>4. QED
    BY <2>1, <2>3, FS_Injection
<1>7. ToSet(f) = S
  BY <1>4, <1>6 DEF Surjection, ToSet
<1>8. QED
  BY <1>5, <1>7 DEF f

\* What two lists hold, the one after the other.
LEMMA ToSetConcat ==
    ASSUME NEW S, NEW s \in Seq(S), NEW t \in Seq(S)
    PROVE ToSet(s \o t) = ToSet(s) \cup ToSet(t)
<1>1. /\ s \o t \in Seq(S) /\ Len(s) \in Nat /\ Len(t) \in Nat
      /\ DOMAIN s = 1 .. Len(s) /\ DOMAIN t = 1 .. Len(t)
      /\ DOMAIN (s \o t) = 1 .. Len(s) + Len(t)
  BY ConcatProperties, LenProperties
<1>2. /\ \A i \in 1 .. Len(s) : (s \o t)[i] = s[i]
      /\ \A i \in 1 .. Len(t) : (s \o t)[Len(s) + i] = t[i]
  BY <1>1, ConcatProperties
<1>3. ASSUME NEW x \in ToSet(s \o t) PROVE x \in ToSet(s) \cup ToSet(t)
  <2>1. PICK i \in 1 .. Len(s) + Len(t) : (s \o t)[i] = x
    BY <1>1 DEF ToSet
  <2>2. CASE i <= Len(s)
    BY <1>1, <1>2, <2>1, <2>2 DEF ToSet
  <2>3. CASE i > Len(s)
    <3>1. i - Len(s) \in 1 .. Len(t) /\ Len(s) + (i - Len(s)) = i
      BY <1>1, <2>1, <2>3
    <3>2. t[i - Len(s)] = x
      BY <1>2, <2>1, <3>1
    <3>3. QED
      BY <1>1, <3>1, <3>2 DEF ToSet
  <2>4. QED
    BY <1>1, <2>1, <2>2, <2>3
<1>4. ASSUME NEW i \in DOMAIN s PROVE s[i] \in ToSet(s \o t)
  BY <1>1, <1>2, <1>4 DEF ToSet
<1>5. ASSUME NEW i \in DOMAIN t PROVE t[i] \in ToSet(s \o t)
  <2>1. Len(s) + i \in 1 .. Len(s) + Len(t)
    BY <1>1
  <2>2. QED
    BY <1>1, <1>2, <2>1 DEF ToSet
<1>6. QED
  BY <1>3, <1>4, <1>5 DEF ToSet

Online(a) == <<"availability", a, "online">>
Offline(a) == <<"availability", a, "offline">>
Sample(a) == <<"telemetry", a>>
Messages == {Online(a) : a \in Agents} \cup {Offline(a) : a \in Agents}
            \cup {Sample(a) : a \in Agents}

Retained == [availability : {None, "online", "offline"}, telemetry : BOOLEAN]

\* What is on its way to the panel agrees with what the broker retains: no
\* message without a connection, none of an agent that never was there, and
\* after an old "offline" the news that the agent is back.
MailInv ==
    /\ retained \in [Agents -> Retained]
    /\ inbox \in Seq(Messages)
    /\ ~link => inbox = << >>
    /\ \A a \in Agents :
          Online(a) \in ToSet(inbox) \/ Offline(a) \in ToSet(inbox)
              => retained[a].availability # None
    /\ \A k \in DOMAIN inbox, a \in Agents :
          inbox[k] = Offline(a) /\ retained[a].availability = "online"
              => \E j \in DOMAIN inbox : j > k /\ inbox[j] = Online(a)

\* One entry for an identity, and none offline of whom nothing was ever said.
EntriesInv ==
    /\ \A i, j \in DOMAIN devices : devices[i].id = devices[j].id => i = j
    /\ \A i \in DOMAIN devices :
          devices[i].offline => /\ devices[i].id \in Agents
                                /\ retained[devices[i].id].availability # None
    /\ OfflineIsLastWord

LEMMA MessageKinds ==
    /\ \A a, b : Online(a) # Offline(b) /\ Online(a) # Sample(b) /\ Offline(a) # Sample(b)
    /\ \A a, b : Online(a) = Online(b) => a = b
    /\ \A a, b : Offline(a) = Offline(b) => a = b
    /\ \A a : /\ Online(a)[1] = "availability" /\ Online(a)[2] = a
              /\ Online(a)[3] = "online"
    /\ \A a : /\ Offline(a)[1] = "availability" /\ Offline(a)[2] = a
              /\ Offline(a)[3] = "offline"
    /\ \A a : Sample(a)[1] = "telemetry" /\ Sample(a)[2] = a
<1>1. \A a, b : Online(a) # Sample(b) /\ Offline(a) # Sample(b)
  BY DEF Online, Offline, Sample
<1>2. QED
  BY <1>1 DEF Online, Offline, Sample

\* A new subscription brings what is retained, once of each agent.
LEMMA ReplaySays ==
    ASSUME retained \in [Agents -> Retained]
    PROVE /\ Replay \in Seq(Messages)
          /\ \A a \in Agents :
                /\ Online(a) \in ToSet(Replay) <=> retained[a].availability = "online"
                /\ Offline(a) \in ToSet(Replay) <=> retained[a].availability = "offline"
<1> DEFINE Said == {b \in Agents : retained[b].availability # None}
           Sent == {b \in Agents : retained[b].telemetry}
           A == {<<"availability", a, retained[a].availability>> : a \in Said}
           T == {<<"telemetry", a>> : a \in Sent}
<1>1. IsFiniteSet(Said) /\ IsFiniteSet(Sent)
  <2>1. IsFiniteSet(Agents) /\ Said \in SUBSET Agents /\ Sent \in SUBSET Agents
    BY FleetAssumption
  <2>2. QED
    BY <2>1, FS_Subset, Zenon
<1>2. IsFiniteSet(A)
  <2> DEFINE f == [a \in Said |-> <<"availability", a, retained[a].availability>>]
  <2>1. f \in Surjection(Said, A)
    BY DEF Surjection
  <2> HIDE DEF f, A, Said
  <2>2. QED
    BY <1>1, <2>1, FS_Surjection
<1>3. IsFiniteSet(T)
  <2> DEFINE f == [a \in Sent |-> <<"telemetry", a>>]
  <2>1. f \in Surjection(Sent, T)
    BY DEF Surjection
  <2> HIDE DEF f, T, Sent
  <2>2. QED
    BY <1>1, <2>1, FS_Surjection
<1>4. /\ \A a \in Agents : retained[a].availability \in {None, "online", "offline"}
      /\ None \notin {"online", "offline"}
  BY FleetAssumption DEF Retained
<1>5. \A x \in A : \E a \in Agents : x \in {Online(a), Offline(a)}
  BY <1>4 DEF Online, Offline
<1>6. A \subseteq Messages /\ T \subseteq Messages
  <2>1. A \subseteq Messages
    BY <1>5 DEF Messages
  <2>2. T \subseteq Messages
    BY DEF Messages, Sample
  <2>3. QED
    BY <2>1, <2>2
<1>7. ASSUME NEW a \in Agents
      PROVE /\ Online(a) \in A \cup T <=> retained[a].availability = "online"
            /\ Offline(a) \in A \cup T <=> retained[a].availability = "offline"
  <2>1. Online(a) \notin T /\ Offline(a) \notin T
    BY MessageKinds DEF Sample
  <2>2. Online(a) \in A <=> retained[a].availability = "online"
    BY <1>4 DEF Online
  <2>3. Offline(a) \in A <=> retained[a].availability = "offline"
    BY <1>4 DEF Offline
  <2>4. QED
    BY <2>1, <2>2, <2>3
<1>8. Replay = SetToSeq(A) \o SetToSeq(T)
  BY DEF Replay
<1> HIDE DEF A, T
<1>9. /\ SetToSeq(A) \in Seq(A) /\ ToSet(SetToSeq(A)) = A
      /\ SetToSeq(T) \in Seq(T) /\ ToSet(SetToSeq(T)) = T
  BY <1>2, <1>3, ListOf
<1>10. SetToSeq(A) \in Seq(Messages) /\ SetToSeq(T) \in Seq(Messages)
  BY <1>6, <1>9, SeqMonotonic
<1>11. Replay \in Seq(Messages) /\ ToSet(Replay) = A \cup T
  <2>1. SetToSeq(A) \o SetToSeq(T) \in Seq(Messages)
    BY <1>10, ConcatProperties
  <2>2. ToSet(SetToSeq(A) \o SetToSeq(T)) = A \cup T
    BY <1>9, <1>10, ToSetConcat
  <2>3. QED
    BY <1>8, <2>1, <2>2
<1>12. QED
  BY <1>7, <1>11

LEMMA AppendSays ==
    ASSUME NEW s \in Seq(Messages), NEW m \in Messages
    PROVE /\ Append(s, m) \in Seq(Messages)
          /\ DOMAIN Append(s, m) = 1 .. Len(s) + 1 /\ DOMAIN s = 1 .. Len(s)
          /\ Len(s) \in Nat
          /\ \A k \in 1 .. Len(s) : Append(s, m)[k] = s[k]
          /\ Append(s, m)[Len(s) + 1] = m
          /\ ToSet(Append(s, m)) = ToSet(s) \cup {m}
<1> DEFINE t == Append(s, m)
<1>1. /\ t \in Seq(Messages) /\ Len(s) \in Nat
      /\ DOMAIN t = 1 .. Len(s) + 1 /\ DOMAIN s = 1 .. Len(s)
      /\ \A k \in 1 .. Len(s) : t[k] = s[k]
      /\ t[Len(s) + 1] = m
  BY AppendProperties, LenProperties
<1> HIDE DEF t
<1>2. ToSet(t) \subseteq ToSet(s) \cup {m}
  <2>1. \A k \in 1 .. Len(s) + 1 : k \in 1 .. Len(s) \/ k = Len(s) + 1
    BY <1>1
  <2>2. QED
    BY <1>1, <2>1 DEF ToSet
<1>3. ToSet(s) \cup {m} \subseteq ToSet(t)
  <2>1. /\ \A k \in 1 .. Len(s) : k \in 1 .. Len(s) + 1
        /\ Len(s) + 1 \in 1 .. Len(s) + 1
    BY <1>1
  <2>2. QED
    BY <1>1, <2>1 DEF ToSet
<1>4. QED
  BY <1>1, <1>2, <1>3 DEF t

LEMMA TailSays ==
    ASSUME NEW s \in Seq(Messages), s # << >>
    PROVE /\ Tail(s) \in Seq(Messages) /\ Head(s) \in Messages
          /\ DOMAIN Tail(s) = 1 .. Len(s) - 1 /\ DOMAIN s = 1 .. Len(s)
          /\ Len(s) \in Nat \ {0}
          /\ \A k \in 1 .. Len(s) - 1 : Tail(s)[k] = s[k + 1]
          /\ ToSet(Tail(s)) \subseteq ToSet(s) /\ Head(s) \in ToSet(s)
          /\ \A x \in ToSet(s) : x # Head(s) => x \in ToSet(Tail(s))
<1> DEFINE t == Tail(s)
<1>1. /\ t \in Seq(Messages) /\ Head(s) \in Messages /\ Len(s) \in Nat \ {0}
      /\ DOMAIN t = 1 .. Len(s) - 1 /\ DOMAIN s = 1 .. Len(s)
      /\ \A k \in 1 .. Len(s) - 1 : t[k] = s[k + 1]
      /\ Head(s) = s[1]
  BY HeadTailProperties, EmptySeq, LenProperties
<1> HIDE DEF t
<1>2. ToSet(t) \subseteq ToSet(s) /\ Head(s) \in ToSet(s)
  <2>1. /\ \A k \in 1 .. Len(s) - 1 : k + 1 \in 1 .. Len(s)
        /\ 1 \in 1 .. Len(s)
    BY <1>1
  <2>2. QED
    BY <1>1, <2>1 DEF ToSet
<1>3. ASSUME NEW x \in ToSet(s), x # Head(s) PROVE x \in ToSet(t)
  <2>1. PICK k \in 1 .. Len(s) : s[k] = x
    BY <1>1 DEF ToSet
  <2>2. k - 1 \in 1 .. Len(s) - 1 /\ (k - 1) + 1 = k
    BY <1>1, <1>3, <2>1
  <2>3. t[k - 1] = x
    BY <1>1, <2>1, <2>2
  <2>4. QED
    BY <1>1, <2>2, <2>3 DEF ToSet
<1>4. QED
  BY <1>1, <1>2, <1>3 DEF t

LEMMA MailInit == Init => MailInv /\ EntriesInv
<1> SUFFICES ASSUME Init PROVE MailInv /\ EntriesInv
  OBVIOUS
<1>1. inbox \in Seq(Messages) /\ DOMAIN inbox = {} /\ ToSet(inbox) = {}
  BY EmptySeq DEF Init, ToSet
<1>2. retained \in [Agents -> Retained]
  BY DEF Init, Retained
<1>3. MailInv
  BY <1>1, <1>2 DEF MailInv, Init
<1>4. EntriesInv
  BY DEF EntriesInv, OfflineIsLastWord, Init
<1>5. QED
  BY <1>3, <1>4

\* What an agent publishes: the broker retains it, and the panel is sent it.
LEMMA PublishStep ==
    ASSUME MailInv, link \in BOOLEAN, NEW a \in Agents, NEW m,
           Publish(m),
           \/ m = Online(a) /\ retained' = [retained EXCEPT ![a].availability = "online"]
           \/ m = Offline(a) /\ retained' = [retained EXCEPT ![a].availability = "offline"]
           \/ m = Sample(a) /\ retained' = [retained EXCEPT ![a].telemetry = TRUE]
    PROVE MailInv'
<1> USE DEF MailInv
<1>1. m \in Messages
  BY DEF Messages
<1>2. retained' \in [Agents -> Retained]
  BY DEF Retained
<1>3. link' = link /\ inbox' = IF link THEN Append(inbox, m) ELSE inbox
  BY DEF Publish
<1>4. /\ \A b \in Agents : b # a => retained'[b] = retained[b]
      /\ m = Online(a) => retained'[a].availability = "online"
      /\ m = Offline(a) => retained'[a].availability = "offline"
      /\ m = Sample(a) => retained'[a].availability = retained[a].availability
  BY MessageKinds DEF Retained
<1>5. /\ None \notin {"online", "offline"}
      /\ \A b \in Agents : retained[b].availability # None
                             => retained'[b].availability # None
  BY <1>4, FleetAssumption
<1>6. CASE ~link
  <2>1. DOMAIN inbox' = {} /\ ToSet(inbox') = {}
    BY <1>3, <1>6, EmptySeq DEF ToSet
  <2>2. QED
    BY <1>2, <1>3, <1>6, <2>1
<1>7. CASE link
  <2>1. inbox' = Append(inbox, m)
    BY <1>3, <1>7
  <2> DEFINE n == Len(inbox)
  <2>2. /\ inbox' \in Seq(Messages) /\ n \in Nat
        /\ DOMAIN inbox' = 1 .. n + 1 /\ DOMAIN inbox = 1 .. n
        /\ \A k \in 1 .. n : inbox'[k] = inbox[k]
        /\ inbox'[n + 1] = m
        /\ ToSet(inbox') = ToSet(inbox) \cup {m}
    BY <1>1, <2>1, AppendSays
  <2> HIDE DEF n
  <2>3. ASSUME NEW b \in Agents,
               Online(b) \in ToSet(inbox') \/ Offline(b) \in ToSet(inbox')
        PROVE retained'[b].availability # None
    BY <1>4, <1>5, <2>2, <2>3, MessageKinds
  <2>4. ASSUME NEW k \in DOMAIN inbox', NEW b \in Agents,
               inbox'[k] = Offline(b), retained'[b].availability = "online"
        PROVE \E j \in DOMAIN inbox' : j > k /\ inbox'[j] = Online(b)
    <3>1. k \in 1 .. n
      <4>1. CASE k = n + 1
        BY <1>4, <2>2, <2>4, <4>1, MessageKinds
      <4>2. QED
        BY <2>2, <4>1
    <3>2. CASE m = Online(b)
      <4>1. n + 1 \in DOMAIN inbox' /\ n + 1 > k /\ inbox'[n + 1] = Online(b)
        BY <2>2, <3>1, <3>2
      <4>2. QED
        BY <4>1
    <3>3. CASE m # Online(b)
      <4>1. retained[b].availability = "online"
        BY <1>4, <2>4, <3>3, MessageKinds
      <4>2. PICK j \in DOMAIN inbox : j > k /\ inbox[j] = Online(b)
        BY <2>2, <2>4, <3>1, <4>1
      <4>3. QED
        BY <2>2, <4>2
    <3>4. QED
      BY <3>2, <3>3
  <2>5. QED
    BY <1>2, <1>3, <1>7, <2>2, <2>3, <2>4
<1>8. QED
  BY <1>6, <1>7

LEMMA MailStep ==
    ASSUME TypeOK, MailInv, [Next]_vars
    PROVE MailInv'
<1> USE DEF MailInv
<1>a. link \in BOOLEAN
  BY DEF TypeOK
<1>b. None \notin {"online", "offline"}
  BY FleetAssumption
<1>1. CASE UNCHANGED <<link, inbox, retained>>
  BY <1>1
<1>2. CASE inbox' = << >> /\ retained' = retained
  <2>1. DOMAIN inbox' = {} /\ ToSet(inbox') = {} /\ inbox' \in Seq(Messages)
    BY <1>2, EmptySeq DEF ToSet
  <2>2. QED
    BY <1>2, <2>1
<1>3. CASE Reconnect
  <2>1. retained' = retained
    BY <1>3 DEF Reconnect, outside
  <2>2. CASE UNCHANGED <<link, inbox>>
    BY <1>1, <2>1, <2>2
  <2>3. CASE link' = TRUE /\ inbox' = Replay
    <3>1. /\ inbox' \in Seq(Messages)
          /\ \A a \in Agents :
               /\ Online(a) \in ToSet(inbox') => retained'[a].availability = "online"
               /\ Offline(a) \in ToSet(inbox') => retained'[a].availability = "offline"
      BY <2>1, <2>3, ReplaySays
    <3>2. ASSUME NEW k \in DOMAIN inbox', NEW a \in Agents, inbox'[k] = Offline(a)
          PROVE retained'[a].availability # "online"
      <4>1. Offline(a) \in ToSet(inbox')
        BY <3>2 DEF ToSet
      <4>2. QED
        BY <3>1, <4>1
    <3>3. QED
      BY <1>b, <2>1, <2>3, <3>1, <3>2
  <2>4. QED
    BY <1>3, <2>2, <2>3 DEF Reconnect, connection
<1>4. CASE Deliver
  <2>1. retained' = retained /\ link' = link /\ link
    BY <1>4 DEF Deliver, outside
  <2>2. CASE inbox' = inbox
    BY <1>1, <2>1, <2>2
  <2>3. CASE inbox # << >> /\ inbox' = Tail(inbox)
    <3> DEFINE n == Len(inbox)
    <3>1. /\ inbox' \in Seq(Messages) /\ n \in Nat \ {0}
          /\ DOMAIN inbox' = 1 .. n - 1 /\ DOMAIN inbox = 1 .. n
          /\ \A k \in 1 .. n - 1 : inbox'[k] = inbox[k + 1]
          /\ ToSet(inbox') \subseteq ToSet(inbox)
      BY <2>3, TailSays
    <3> HIDE DEF n
    <3>2. ASSUME NEW k \in DOMAIN inbox', NEW a \in Agents,
                 inbox'[k] = Offline(a), retained[a].availability = "online"
          PROVE \E j \in DOMAIN inbox' : j > k /\ inbox'[j] = Online(a)
      <4>1. k + 1 \in DOMAIN inbox /\ inbox[k + 1] = Offline(a)
        BY <3>1, <3>2
      <4>2. PICK j \in DOMAIN inbox : j > k + 1 /\ inbox[j] = Online(a)
        BY <3>2, <4>1
      <4>3. j - 1 \in DOMAIN inbox' /\ j - 1 > k /\ (j - 1) + 1 = j
        BY <3>1, <3>2, <4>2
      <4>4. inbox'[j - 1] = Online(a)
        BY <3>1, <4>2, <4>3
      <4>5. QED
        BY <4>3, <4>4
    <3>3. QED
      BY <2>1, <3>1, <3>2
  <2>4. QED
    BY <1>4, <2>2, <2>3 DEF Deliver
<1>5. CASE ApplySettings
  <2>1. retained' = retained
    BY <1>5 DEF ApplySettings, outside
  <2>2. UNCHANGED <<link, inbox>> \/ inbox' = << >>
    BY <1>5 DEF ApplySettings, Configure, End, Disconnected, connection
  <2>3. QED
    BY <1>1, <1>2, <2>1, <2>2
<1>6. CASE LinkLost
  BY <1>2, <1>6 DEF LinkLost, Disconnected, outside
<1>7. ASSUME NEW a \in Agents, AgentConnects(a) PROVE MailInv'
  <2>1. /\ Publish(Online(a))
        /\ retained' = [retained EXCEPT ![a].availability = "online"]
    BY <1>7 DEF AgentConnects, Online
  <2>2. QED
    BY <1>a, <2>1, PublishStep
<1>8. ASSUME NEW a \in Agents, AgentLeaves(a) PROVE MailInv'
  <2>1. /\ Publish(Offline(a))
        /\ retained' = [retained EXCEPT ![a].availability = "offline"]
    BY <1>8 DEF AgentLeaves, Offline
  <2>2. QED
    BY <1>a, <2>1, PublishStep
<1>9. ASSUME NEW a \in Agents, AgentPublishes(a) PROVE MailInv'
  <2>1. /\ Publish(Sample(a))
        /\ retained' = [retained EXCEPT ![a].telemetry = TRUE]
    BY <1>9 DEF AgentPublishes, Sample
  <2>2. QED
    BY <1>a, <2>1, PublishStep
<1>10. CASE NetworkTask
  <2>1. \/ ApplySettings \/ Reconnect \/ Deliver
        \/ UNCHANGED <<session, outside>>
    BY <1>10 DEF NetworkTask, TakeReload, ReadSettings, MqttDisabled, StartPoll,
                 NothingToPoll, FinishPoll
  <2>2. QED
    BY <1>1, <1>3, <1>4, <1>5, <2>1 DEF session, connection, outside
<1>11. ASSUME NEW id, NEW url, NEW enabled,
              Add(id, url) \/ Delete(id) \/ Edit(id, url, enabled)
       PROVE MailInv'
  <2>1. UNCHANGED <<session, outside>>
    BY <1>11 DEF Add, Delete, Edit
  <2>2. QED
    BY <1>1, <2>1 DEF session, connection, outside
<1>12. ASSUME NEW m, NEW choice, PutConfig(m, choice) PROVE MailInv'
  BY <1>1, <1>12 DEF PutConfig, session, connection, outside
<1>13. CASE \/ Tick \/ PressTransport \/ ReachChanges
            \/ \E task \in Handlers : RequestReload(task)
  BY <1>1, <1>13
  DEF Tick, PressTransport, RequestReload, ReachChanges, session, connection, outside
<1>14. ASSUME NEW a \in Agents, AgentStarts(a) \/ AgentStops(a) PROVE MailInv'
  BY <1>1, <1>14 DEF AgentStarts, AgentStops, session, connection
<1>15. CASE UNCHANGED vars
  BY <1>1, <1>15 DEF vars, session, connection, outside
<1> HIDE DEF MailInv
<1>16. ASSUME NEW id, NEW url, Add(id, url) PROVE MailInv'
  BY <1>11, <1>16
<1>17. ASSUME NEW id, Delete(id) PROVE MailInv'
  BY <1>11, <1>17
<1>18. QED
  BY <1>6, <1>7, <1>8, <1>9, <1>10, <1>11, <1>12, <1>13, <1>14, <1>15, <1>16, <1>17
  DEF Next

LEMMA RemoveAtItems ==
    ASSUME NEW S, NEW s \in Seq(S), NEW i \in 1 .. Len(s)
    PROVE /\ DOMAIN RemoveAt(s, i) = 1 .. Len(s) - 1
          /\ \A j \in 1 .. Len(s) - 1 :
                RemoveAt(s, i)[j] = s[IF j < i THEN j ELSE j + 1]
<1> DEFINE before == SubSeq(s, 1, i - 1)
           after == SubSeq(s, i + 1, Len(s))
<1>1. Len(s) \in Nat /\ i \in Int
  BY LenProperties
<1>2. /\ before \in Seq(S) /\ Len(before) = i - 1
      /\ \A j \in 1 .. i - 1 : before[j] = s[j]
  BY <1>1, SMT
<1>3. /\ after \in Seq(S) /\ Len(after) = Len(s) - i
      /\ \A j \in 1 .. Len(s) - i : after[j] = s[i + j]
  BY <1>1, SMT
<1> HIDE DEF before, after
<1>4. /\ before \o after \in Seq(S)
      /\ Len(before \o after) = Len(before) + Len(after)
      /\ \A j \in 1 .. Len(before) + Len(after) :
            (before \o after)[j] = IF j <= Len(before) THEN before[j]
                                   ELSE after[j - Len(before)]
  BY <1>2, <1>3, ConcatProperties
<1>5. DOMAIN (before \o after) = 1 .. Len(s) - 1
  BY <1>1, <1>2, <1>3, <1>4, LenProperties
<1>6. ASSUME NEW j \in 1 .. Len(s) - 1
      PROVE (before \o after)[j] = s[IF j < i THEN j ELSE j + 1]
  <2>1. CASE j < i
    <3>1. j \in 1 .. i - 1 /\ j \in 1 .. Len(before) + Len(after) /\ j <= Len(before)
      BY <1>1, <1>2, <1>3, <2>1
    <3>2. QED
      BY <1>2, <1>4, <2>1, <3>1
  <2>2. CASE j >= i
    <3>1. j - (i - 1) \in 1 .. Len(s) - i /\ i + (j - (i - 1)) = j + 1
      BY <1>1, <2>2
    <3>2. (before \o after)[j] = after[j - (i - 1)]
      BY <1>1, <1>2, <1>3, <1>4, <2>2
    <3>3. after[j - (i - 1)] = s[j + 1]
      BY <1>3, <3>1
    <3>4. QED
      BY <1>1, <2>2, <3>2, <3>3
  <2>3. j < i \/ j >= i
    BY <1>1
  <2>4. QED
    BY <2>1, <2>2, <2>3, Zenon
<1>7. RemoveAt(s, i) = before \o after
  BY DEF RemoveAt, before, after
<1>8. QED
  BY <1>5, <1>6, <1>7

\* A step that sends nothing, and after which every entry is one of before with
\* the same identity, no two of them the same, and none newly offline.
LEMMA EntriesCarried ==
    ASSUME EntriesInv, UNCHANGED <<link, inbox, retained>>,
           NEW from \in [DOMAIN devices' -> DOMAIN devices],
           \A i \in DOMAIN devices' :
              /\ devices'[i].id = devices[from[i]].id
              /\ devices'[i].offline => devices[from[i]].offline,
           \A i, j \in DOMAIN devices' : from[i] = from[j] => i = j
    PROVE EntriesInv'
<1> USE DEF EntriesInv, OfflineIsLastWord
<1>1. \A i, j \in DOMAIN devices' : devices'[i].id = devices'[j].id => i = j
  OBVIOUS
<1>2. \A i \in DOMAIN devices' :
        devices'[i].offline => /\ devices'[i].id \in Agents
                               /\ retained'[devices'[i].id].availability # None
  OBVIOUS
<1>3. OfflineIsLastWord'
  OBVIOUS
<1>4. QED
  BY <1>1, <1>2, <1>3

LEMMA EntryChanged ==
    ASSUME EntriesInv, UNCHANGED <<link, inbox, retained>>,
           devices \in Seq(DeviceStates),
           NEW i \in DOMAIN devices, NEW e, devices' = [devices EXCEPT ![i] = e],
           e.id = devices[i].id, e.offline => devices[i].offline
    PROVE EntriesInv'
<1> DEFINE from == [j \in DOMAIN devices |-> j]
<1>1. DOMAIN devices' = DOMAIN devices
  OBVIOUS
<1>2. from \in [DOMAIN devices' -> DOMAIN devices]
  BY <1>1
<1>3. \A j \in DOMAIN devices' :
         /\ devices'[j].id = devices[from[j]].id
         /\ devices'[j].offline => devices[from[j]].offline
  OBVIOUS
<1>4. \A j, k \in DOMAIN devices' : from[j] = from[k] => j = k
  BY <1>1
<1> HIDE DEF from
<1>5. QED
  BY <1>2, <1>3, <1>4, EntriesCarried

LEMMA AllChanged ==
    ASSUME EntriesInv, UNCHANGED <<link, inbox, retained>>,
           DOMAIN devices' = DOMAIN devices,
           \A i \in DOMAIN devices :
              /\ devices'[i].id = devices[i].id
              /\ devices'[i].offline => devices[i].offline
    PROVE EntriesInv'
<1> DEFINE from == [j \in DOMAIN devices |-> j]
<1>1. from \in [DOMAIN devices' -> DOMAIN devices]
  OBVIOUS
<1>2. \A j \in DOMAIN devices' :
         /\ devices'[j].id = devices[from[j]].id
         /\ devices'[j].offline => devices[from[j]].offline
  OBVIOUS
<1>3. \A j, k \in DOMAIN devices' : from[j] = from[k] => j = k
  OBVIOUS
<1> HIDE DEF from
<1>4. QED
  BY <1>1, <1>2, <1>3, EntriesCarried

\* A message taken from the connection: the entry it is about hears it.
LEMMA DeliverStep ==
    ASSUME TypeOK, MailInv, EntriesInv, Deliver
    PROVE EntriesInv'
<1> USE DEF EntriesInv, OfflineIsLastWord
<1>1. UNCHANGED <<link, retained>> /\ link
  BY DEF Deliver, outside
<1>2. CASE UNCHANGED <<devices, inbox>>
  BY <1>1, <1>2
<1> DEFINE m == Head(inbox)
           i == Device(m[2])
<1>3. CASE /\ inbox # << >> /\ inbox' = Tail(inbox)
           /\ devices' = IF ~Known(m[2]) THEN devices
                         ELSE [devices EXCEPT ![i] = Heard(@, m)]
  <2>1. /\ m \in Messages /\ m \in ToSet(inbox) /\ m = inbox[1] /\ 1 \in DOMAIN inbox
        /\ ToSet(inbox') \subseteq ToSet(inbox)
        /\ \A x \in ToSet(inbox) : x # m => x \in ToSet(inbox')
        /\ DOMAIN inbox = 1 .. Len(inbox) /\ DOMAIN inbox' = 1 .. Len(inbox) - 1
        /\ \A k \in 1 .. Len(inbox) - 1 : inbox'[k] = inbox[k + 1]
        /\ Len(inbox) \in Nat \ {0}
    BY <1>3, TailSays, HeadTailProperties DEF MailInv
  <2> HIDE DEF m
  <2>2. devices \in Seq(DeviceStates) /\ \A j \in DOMAIN devices : devices[j] \in DeviceStates
    BY DEF TypeOK
  <2>3. CASE ~Known(m[2])
    <3>1. devices' = devices
      BY <1>3, <2>3
    <3>2. ASSUME NEW j \in DOMAIN devices, Online(devices[j].id) \in ToSet(inbox)
          PROVE Online(devices[j].id) \in ToSet(inbox')
      <4>1. Online(devices[j].id) # m
        BY <2>3, MessageKinds DEF Known
      <4>2. QED
        BY <2>1, <3>2, <4>1
    <3>3. QED
      BY <1>1, <3>1, <3>2 DEF Online
  <2>4. CASE Known(m[2])
    <3> DEFINE e == Heard(devices[i], m)
    <3>1. i \in DOMAIN devices /\ devices[i].id = m[2]
      BY <2>4, DeviceFound
    <3>2. devices[i] \in DeviceStates
      BY <2>2, <3>1
    <3>3. devices' = [devices EXCEPT ![i] = e]
      BY <1>3, <2>4, <3>1
    <3>4. /\ DOMAIN devices' = DOMAIN devices /\ devices'[i] = e
          /\ \A j \in DOMAIN devices : j # i => devices'[j] = devices[j]
      BY <2>2, <3>1, <3>3
    <3> HIDE DEF i
    <3>5. e.id = devices[i].id /\ (e.offline => m = Offline(devices[i].id) /\ devices[i].id \in Agents)
      <4>1. CASE \E a \in Agents : m = Sample(a)
        <5>1. m[1] = "telemetry"
          BY <4>1, MessageKinds
        <5>2. e = ApplySample(devices[i], m[2], "mqtt")
          BY <5>1 DEF Heard
        <5>3. e.id = devices[i].id /\ e.offline = FALSE
          BY <3>2, <5>2 DEF ApplySample, DeviceStates
        <5>4. QED
          BY <5>3
      <4>2. CASE \E a \in Agents : m = Online(a) \/ m = Offline(a)
        <5>1. PICK a \in Agents : m = Online(a) \/ m = Offline(a)
          BY <4>2
        <5>2. m[1] = "availability" /\ m[2] = a
          BY <5>1, MessageKinds
        <5>3. e = [devices[i] EXCEPT !.offline = (m[3] = "offline")]
          BY <5>2 DEF Heard
        <5>4. e.id = devices[i].id /\ e.offline = (m[3] = "offline")
          BY <3>2, <5>3 DEF DeviceStates
        <5>5. m[3] = "offline" => m = Offline(a)
          BY <5>1, MessageKinds
        <5>6. QED
          BY <3>1, <5>2, <5>4, <5>5
      <4>3. QED
        BY <2>1, <4>1, <4>2 DEF Messages
    <3> HIDE DEF e
    <3>6. \A j \in DOMAIN devices : devices'[j].id = devices[j].id
      BY <3>4, <3>5
    <3>7. ASSUME NEW j \in DOMAIN devices, devices'[j].offline
          PROVE /\ devices[j].id \in Agents
                /\ retained[devices[j].id].availability # None
                /\ \/ retained[devices[j].id].availability = "offline"
                   \/ Online(devices[j].id) \in ToSet(inbox')
      <4>1. CASE j = i
        <5>1. m = Offline(devices[i].id) /\ devices[i].id \in Agents
          BY <3>4, <3>5, <3>7, <4>1
        <5>2. retained[devices[i].id].availability \in {"online", "offline"}
          BY <2>1, <5>1 DEF MailInv, Retained
        <5>3. CASE retained[devices[i].id].availability = "online"
          <6>a. \A k \in DOMAIN inbox, a \in Agents :
                  inbox[k] = Offline(a) /\ retained[a].availability = "online"
                    => \E n \in DOMAIN inbox : n > k /\ inbox[n] = Online(a)
            BY Zenon DEF MailInv
          <6>b. inbox[1] = Offline(devices[i].id) /\ 1 \in DOMAIN inbox
            BY <2>1, <5>1
          <6>1. PICK k \in DOMAIN inbox : k > 1 /\ inbox[k] = Online(devices[i].id)
            BY <5>1, <5>3, <6>a, <6>b, Zenon
          <6>2. k - 1 \in DOMAIN inbox' /\ inbox'[k - 1] = inbox[(k - 1) + 1] /\ (k - 1) + 1 = k
            BY <2>1, <6>1
          <6>3. Online(devices[i].id) \in ToSet(inbox')
            BY <6>1, <6>2 DEF ToSet
          <6>4. QED
            BY <4>1, <5>1, <5>2, <5>3, <6>3, FleetAssumption
        <5>4. QED
          BY <4>1, <5>1, <5>2, <5>3, FleetAssumption
      <4>2. CASE j # i
        <5>1. devices[j].offline /\ devices[j].id # m[2]
          BY <3>1, <3>4, <3>7, <4>2
        <5>2. \/ retained[devices[j].id].availability = "offline"
              \/ Online(devices[j].id) \in ToSet(inbox)
          BY <1>1, <5>1 DEF Online
        <5>3. Online(devices[j].id) # m
          BY <5>1, MessageKinds
        <5>4. QED
          BY <2>1, <5>1, <5>2, <5>3
      <4>3. QED
        BY <4>1, <4>2
    <3>8. QED
      BY <1>1, <3>4, <3>6, <3>7 DEF Online
  <2>5. QED
    BY <2>3, <2>4
<1>4. QED
  BY <1>2, <1>3 DEF Deliver

LEMMA EntriesStep ==
    ASSUME TypeOK, MailInv, EntriesInv, [Next]_vars
    PROVE EntriesInv'
<1>a. devices \in Seq(DeviceStates) /\ \A i \in DOMAIN devices : devices[i] \in DeviceStates
  BY DEF TypeOK
<1>b. link \in BOOLEAN /\ retained \in [Agents -> Retained]
  BY DEF TypeOK, MailInv
<1>1. CASE UNCHANGED <<devices, link, inbox, retained>>
  BY <1>1 DEF EntriesInv, OfflineIsLastWord
<1>2. CASE UNCHANGED <<devices, retained>> /\ link' = FALSE
  BY <1>2 DEF EntriesInv, OfflineIsLastWord
<1>3. CASE ApplySettings
  <2>1. UNCHANGED <<devices, retained>>
    BY <1>3 DEF ApplySettings, panel, outside
  <2>2. UNCHANGED <<link, inbox>> \/ link' = FALSE
    BY <1>3 DEF ApplySettings, Configure, End, Disconnected, connection
  <2>3. QED
    BY <1>1, <1>2, <2>1, <2>2
<1>4. CASE Reconnect
  <2>1. UNCHANGED <<devices, retained>>
    BY <1>4 DEF Reconnect, panel, outside
  <2>2. CASE UNCHANGED <<link, inbox>>
    BY <1>1, <2>1, <2>2
  <2>3. CASE inbox' = Replay
    <3>1. ASSUME NEW i \in DOMAIN devices, devices[i].offline
          PROVE \/ retained[devices[i].id].availability = "offline"
                \/ Online(devices[i].id) \in ToSet(inbox')
      <4>1. /\ devices[i].id \in Agents
            /\ retained[devices[i].id].availability # None
        BY <3>1 DEF EntriesInv
      <4>2. retained[devices[i].id].availability \in {"online", "offline"}
        BY <1>b, <4>1 DEF Retained
      <4>3. QED
        BY <1>b, <2>3, <4>1, <4>2, ReplaySays
    <3>2. QED
      BY <2>1, <3>1 DEF EntriesInv, OfflineIsLastWord, Online
  <2>4. QED
    BY <1>4, <2>2, <2>3 DEF Reconnect, connection
<1>5. CASE Deliver
  BY <1>5, DeliverStep
<1>6. CASE StartPoll
  <2>1. PICK k \in Search : Claim(Visited(k))
    BY <1>6 DEF StartPoll
  <2> DEFINE i == Visited(k)
             e == [devices[i] EXCEPT !.since = 0]
  <2>2. i \in DOMAIN devices
    BY FleetAssumption DEF Search, Visited, TypeOK
  <2>3. devices' = [devices EXCEPT ![i] = e]
    BY <2>1, <2>2 DEF Claim
  <2> HIDE DEF i
  <2>4. e.id = devices[i].id /\ e.offline = devices[i].offline
    BY <1>a, <2>2 DEF DeviceStates
  <2>5. UNCHANGED <<link, inbox, retained>>
    BY <1>6 DEF StartPoll, session, connection, outside
  <2> HIDE DEF e
  <2>6. QED
    BY <1>a, <2>2, <2>3, <2>4, <2>5, EntryChanged
<1>7. CASE FinishPoll
  <2>1. UNCHANGED <<link, inbox, retained>>
    BY <1>7 DEF FinishPoll, session, connection, outside
  <2>2. CASE ~Known(target.id)
    BY <1>1, <1>7, <2>1, <2>2 DEF FinishPoll
  <2>3. CASE Known(target.id)
    <3> DEFINE i == Device(target.id)
               e == IF FetchSucceeds THEN ApplySample(devices[i], HostOf[target.url], "http")
                    ELSE NoteFailure(devices[i])
    <3>1. i \in DOMAIN devices
      BY <2>3, DeviceFound
    <3>2. devices' = [devices EXCEPT ![i] = e]
      BY <1>7, <2>3, <3>1 DEF FinishPoll
    <3> HIDE DEF i
    <3>3. devices[i] \in DeviceStates
      BY <1>a, <3>1
    <3>4. e.id = devices[i].id /\ (e.offline => devices[i].offline)
      BY <3>3 DEF ApplySample, NoteFailure, DeviceStates
    <3> HIDE DEF e
    <3>5. QED
      BY <1>a, <2>1, <3>1, <3>2, <3>4, EntryChanged
  <2>4. QED
    BY <2>2, <2>3
<1>8. ASSUME NEW id, NEW url, NEW enabled, Edit(id, url, enabled) PROVE EntriesInv'
  <2> DEFINE i == Device(id)
             e == [devices[i] EXCEPT !.url = url, !.enabled = enabled]
  <2>1. i \in DOMAIN devices
    BY <1>8, DeviceFound DEF Edit
  <2>2. devices' = [devices EXCEPT ![i] = e]
    BY <1>8, <1>a, <2>1 DEF Edit
  <2> HIDE DEF i
  <2>3. e.id = devices[i].id /\ e.offline = devices[i].offline
    BY <1>a, <2>1 DEF DeviceStates
  <2>4. UNCHANGED <<link, inbox, retained>>
    BY <1>8 DEF Edit, session, connection, outside
  <2> HIDE DEF e
  <2>5. QED
    BY <1>a, <2>1, <2>2, <2>3, <2>4, EntryChanged
<1>9. CASE Tick
  <2>1. UNCHANGED <<link, inbox, retained>>
    BY <1>9 DEF Tick, connection, outside
  <2>2. /\ DOMAIN devices' = DOMAIN devices
        /\ \A i \in DOMAIN devices : /\ devices'[i].id = devices[i].id
                                     /\ devices'[i].offline = devices[i].offline
    BY <1>9, <1>a DEF Tick, DeviceStates
  <2>3. QED
    BY <2>1, <2>2, AllChanged
<1>10. ASSUME NEW m, NEW choice, PutConfig(m, choice) PROVE EntriesInv'
  <2>1. UNCHANGED <<link, inbox, retained>>
    BY <1>10 DEF PutConfig, session, connection, outside
  <2>2. /\ DOMAIN devices' = DOMAIN devices
        /\ \A i \in DOMAIN devices : /\ devices'[i].id = devices[i].id
                                     /\ devices'[i].offline = FALSE
    BY <1>10, <1>a DEF PutConfig, NewDevice, DeviceStates
  <2>3. QED
    BY <2>1, <2>2, AllChanged
<1>11. ASSUME NEW id, Delete(id) PROVE EntriesInv'
  <2> DEFINE n == Len(devices)
             d == Device(id)
             from == [j \in 1 .. n - 1 |-> IF j < d THEN j ELSE j + 1]
  <2>1. d \in 1 .. n /\ n \in Nat /\ DOMAIN devices = 1 .. n
    BY <1>11, <1>a, DeviceFound, LenProperties DEF Delete
  <2>2. devices' = RemoveAt(devices, d)
    BY <1>11 DEF Delete
  <2>3. UNCHANGED <<link, inbox, retained>>
    BY <1>11 DEF Delete, session, connection, outside
  <2> HIDE DEF d
  <2>4. /\ DOMAIN devices' = 1 .. n - 1
        /\ \A j \in 1 .. n - 1 : devices'[j] = devices[IF j < d THEN j ELSE j + 1]
    BY <1>a, <2>1, <2>2, RemoveAtItems
  <2> HIDE DEF n
  <2>5. from \in [DOMAIN devices' -> DOMAIN devices]
    <3>1. \A j \in 1 .. n - 1 : (IF j < d THEN j ELSE j + 1) \in 1 .. n
      BY <2>1
    <3>2. QED
      BY <2>1, <2>4, <3>1
  <2>6. \A j, k \in DOMAIN devices' : from[j] = from[k] => j = k
    BY <2>1, <2>4
  <2>7. \A j \in DOMAIN devices' : devices'[j] = devices[from[j]]
    BY <2>4
  <2> HIDE DEF from
  <2>8. QED
    BY <2>3, <2>5, <2>6, <2>7, EntriesCarried
<1>12. ASSUME NEW id, NEW url, Add(id, url) PROVE EntriesInv'
  <2> DEFINE n == Len(devices)
             new == NewDevice(id, url)
  <2>1. devices' = Append(devices, new) /\ ~Known(id)
    BY <1>12 DEF Add
  <2>2. UNCHANGED <<link, inbox, retained>>
    BY <1>12 DEF Add, session, connection, outside
  <2>3. new.id = id /\ new.offline = FALSE
    BY DEF NewDevice
  <2> HIDE DEF new
  <2>4. /\ n \in Nat /\ DOMAIN devices = 1 .. n /\ DOMAIN devices' = 1 .. n + 1
        /\ \A i \in 1 .. n : devices'[i] = devices[i]
        /\ devices'[n + 1] = new
    BY <1>a, <2>1, LenProperties, AppendProperties
  <2> HIDE DEF n
  <2>5. \A i \in DOMAIN devices' : i \in DOMAIN devices \/ i = n + 1
    BY <2>4
  <2>6. \A i \in DOMAIN devices : devices[i].id # id
    BY <2>1 DEF Known
  <2>7. QED
    BY <2>2, <2>3, <2>4, <2>5, <2>6 DEF EntriesInv, OfflineIsLastWord
<1>13. CASE LinkLost
  BY <1>2, <1>13 DEF LinkLost, Disconnected, panel, outside
<1>14. ASSUME NEW a \in Agents, NEW m \in Messages, Publish(m),
              UNCHANGED devices,
              retained' \in [Agents -> Retained],
              \A b \in Agents : retained[b].availability # None
                                   => retained'[b].availability # None,
              \A b \in Agents \ {a} : retained'[b] = retained[b],
              \/ m = Online(a)
              \/ retained'[a].availability \in {"offline", retained[a].availability}
       PROVE EntriesInv'
  <2>1. link' = link /\ (link => inbox' = Append(inbox, m))
    BY <1>14 DEF Publish
  <2>2. link => ToSet(inbox') = ToSet(inbox) \cup {m}
    <3>1. inbox \in Seq(Messages)
      BY DEF MailInv
    <3>2. ToSet(Append(inbox, m)) = ToSet(inbox) \cup {m}
      BY <3>1, AppendSays
    <3>3. QED
      BY <2>1, <3>2
  <2>3. ASSUME link, NEW i \in DOMAIN devices, devices[i].offline
        PROVE \/ retained'[devices[i].id].availability = "offline"
              \/ Online(devices[i].id) \in ToSet(inbox')
    <3>1. /\ devices[i].id \in Agents
          /\ \/ retained[devices[i].id].availability = "offline"
             \/ Online(devices[i].id) \in ToSet(inbox)
      BY <2>3 DEF EntriesInv, OfflineIsLastWord, Online
    <3>2. QED
      BY <1>14, <2>2, <2>3, <3>1
  <2>4. \A i \in DOMAIN devices : devices[i].offline =>
            /\ devices[i].id \in Agents
            /\ retained'[devices[i].id].availability # None
    BY <1>14 DEF EntriesInv
  <2>5. QED
    BY <1>14, <2>1, <2>3, <2>4 DEF EntriesInv, OfflineIsLastWord, Online
<1>15. ASSUME NEW a \in Agents,
              AgentConnects(a) \/ AgentLeaves(a) \/ AgentPublishes(a)
       PROVE EntriesInv'
  <2>1. UNCHANGED devices
    BY <1>15 DEF AgentConnects, AgentLeaves, AgentPublishes, panel, Publish
  <2>2. CASE AgentConnects(a)
    <3>1. Publish(Online(a)) /\ retained' = [retained EXCEPT ![a].availability = "online"]
      BY <2>2 DEF AgentConnects, Online
    <3>2. /\ retained' \in [Agents -> Retained] /\ Online(a) \in Messages
          /\ retained'[a].availability = "online"
          /\ \A b \in Agents \ {a} : retained'[b] = retained[b]
      BY <1>b, <3>1 DEF Retained, Messages
    <3>3. QED
      BY <1>14, <2>1, <3>1, <3>2, FleetAssumption
  <2>3. CASE AgentLeaves(a)
    <3>1. Publish(Offline(a)) /\ retained' = [retained EXCEPT ![a].availability = "offline"]
      BY <2>3 DEF AgentLeaves, Offline
    <3>2. /\ retained' \in [Agents -> Retained] /\ Offline(a) \in Messages
          /\ retained'[a].availability = "offline"
          /\ \A b \in Agents \ {a} : retained'[b] = retained[b]
      BY <1>b, <3>1 DEF Retained, Messages
    <3>3. QED
      BY <1>14, <2>1, <3>1, <3>2, FleetAssumption
  <2>4. CASE AgentPublishes(a)
    <3>1. Publish(Sample(a)) /\ retained' = [retained EXCEPT ![a].telemetry = TRUE]
      BY <2>4 DEF AgentPublishes, Sample
    <3>2. /\ retained' \in [Agents -> Retained] /\ Sample(a) \in Messages
          /\ retained'[a].availability = retained[a].availability
          /\ \A b \in Agents \ {a} : retained'[b] = retained[b]
      BY <1>b, <3>1 DEF Retained, Messages
    <3>3. QED
      BY <1>14, <2>1, <3>1, <3>2, FleetAssumption
  <2>5. QED
    BY <1>15, <2>2, <2>3, <2>4
<1>16. ASSUME NEW a \in Agents, AgentStarts(a) \/ AgentStops(a) PROVE EntriesInv'
  BY <1>1, <1>16 DEF AgentStarts, AgentStops, panel, session, connection
<1>17. CASE NetworkTask
  <2>1. \/ ApplySettings \/ Reconnect \/ Deliver \/ StartPoll \/ FinishPoll
        \/ UNCHANGED <<panel, session, outside>>
    BY <1>17 DEF NetworkTask, TakeReload, ReadSettings, MqttDisabled, NothingToPoll
  <2>2. QED
    BY <1>1, <1>3, <1>4, <1>5, <1>6, <1>7, <2>1 DEF panel, session, connection, outside
<1>18. CASE \/ PressTransport \/ ReachChanges \/ UNCHANGED vars
            \/ \E task \in Handlers : RequestReload(task)
  BY <1>1, <1>18
  DEF PressTransport, RequestReload, ReachChanges, vars, panel, session, connection, outside
<1>19. QED
  BY <1>8, <1>9, <1>10, <1>11, <1>12, <1>13, <1>15, <1>16, <1>17, <1>18 DEF Next

\* While the panel is connected an entry is shown offline only on the broker's
\* last word, or with the better news on its way: whatever is lost, repeated on
\* a new subscription, deleted, added again or rebuilt.
THEOREM FleetOfflineIsLastWord == Spec => []OfflineIsLastWord
<1>1. FleetInv => TypeOK
  BY DEF FleetInv
<1>2. EntriesInv => OfflineIsLastWord
  BY DEF EntriesInv
<1>3. QED
  BY <1>1, <1>2, FleetInvAlways, MailInit, MailStep, EntriesStep, PTL DEF Spec

(* -------------------------- the Wi-Fi manager -------------------------- *)

\* WifiManager::loop() runs at the head of the same pass.  Its constants and
\* variables are its own, but for None.
CONSTANTS Ssids, Reachable, MaxNetworks, ConnectTimeout, FirstBackoff,
          MaxBackoff, NothingSavedWait, Asap, Far, FailureFactor, MaxWraps

VARIABLES saved, radio, connecting, age, ahead, wait, backoff, failures, index,
          portal, ap, severed, phase, pass, call, wraps

Wifi == INSTANCE WifiManager

\* The entries of a list without one of them are those before and after it.
LEMMA RemoveAtEntries ==
    ASSUME NEW S, NEW s \in Seq(S), NEW i \in 1 .. Len(s)
    PROVE /\ Wifi!RemoveAt(s, i) \in Seq(S)
          /\ Len(Wifi!RemoveAt(s, i)) = Len(s) - 1
          /\ \A j \in 1 .. Len(s) - 1 :
               Wifi!RemoveAt(s, i)[j] = IF j < i THEN s[j] ELSE s[j + 1]
<1> DEFINE before == SubSeq(s, 1, i - 1)
           after == SubSeq(s, i + 1, Len(s))
<1>1. before \in Seq(S) /\ Len(before) = i - 1
  BY SMT
<1>2. after \in Seq(S) /\ Len(after) = Len(s) - i
  BY SMT
<1>3. \A j \in 1 .. i - 1 : before[j] = s[j]
  BY SMT
<1>4. \A j \in 1 .. Len(s) - i : after[j] = s[i + j]
  BY SMT
<1>5. Wifi!RemoveAt(s, i) = before \o after
  BY DEF Wifi!RemoveAt
<1> HIDE DEF before, after
<1>6. /\ before \o after \in Seq(S)
      /\ Len(before \o after) = Len(before) + Len(after)
  BY <1>1, <1>2, ConcatProperties, Zenon
<1>7. Len(s) \in Nat /\ i \in Nat /\ i >= 1 /\ i <= Len(s)
  BY LenProperties
<1>8. Len(before \o after) = Len(s) - 1
  BY <1>1, <1>2, <1>6, <1>7
<1>9. ASSUME NEW j \in 1 .. Len(s) - 1
      PROVE (before \o after)[j] = IF j < i THEN s[j] ELSE s[j + 1]
  <2>1. CASE j < i
    BY <1>1, <1>2, <1>3, <1>7, <2>1
  <2>2. CASE ~(j < i)
    <3>1. j - (i - 1) \in 1 .. Len(s) - i
      BY <1>7, <2>2
    <3>2. j > Len(before) /\ j <= Len(before) + Len(after)
      BY <1>1, <1>2, <1>7, <2>2
    <3>3. (before \o after)[j] = after[j - Len(before)]
      BY <1>1, <1>2, <3>2
    <3>4. after[j - (i - 1)] = s[i + (j - (i - 1))]
      BY <1>4, <3>1
    <3>5. i + (j - (i - 1)) = j + 1
      BY <1>7
    <3>6. QED
      BY <1>1, <2>2, <3>3, <3>4, <3>5
  <2>3. QED
    BY <2>1, <2>2
<1>10. QED
  BY <1>5, <1>6, <1>8, <1>9

LEMMA WithoutFacts ==
    ASSUME NEW S, NEW list \in Seq(S), Wifi!IsInjective(list), NEW ssid
    PROVE /\ Wifi!Without(list, ssid) \in Seq(S)
          /\ Len(Wifi!Without(list, ssid)) <= Len(list)
          /\ ssid \in Wifi!ToSet(list) => Len(Wifi!Without(list, ssid)) = Len(list) - 1
          /\ Wifi!IsInjective(Wifi!Without(list, ssid))
          /\ \A j \in 1 .. Len(Wifi!Without(list, ssid)) : Wifi!Without(list, ssid)[j] # ssid
<1>0. /\ Len(list) \in Nat /\ DOMAIN list = 1 .. Len(list)
      /\ \A a, b \in 1 .. Len(list) : list[a] = list[b] => a = b
  BY DEF Wifi!IsInjective
<1>1. CASE ssid \notin Wifi!ToSet(list)
  <2>1. Wifi!Without(list, ssid) = list
    BY <1>1 DEF Wifi!Without
  <2>2. \A j \in 1 .. Len(list) : list[j] # ssid
    BY <1>0, <1>1 DEF Wifi!ToSet
  <2>3. Len(list) <= Len(list)
    BY <1>0
  <2>4. QED
    BY <1>1, <2>1, <2>2, <2>3, Zenon
<1>2. CASE ssid \in Wifi!ToSet(list)
  <2> DEFINE i == CHOOSE i \in DOMAIN list : list[i] = ssid
             rest == Wifi!RemoveAt(list, i)
  <2>1. i \in 1 .. Len(list) /\ list[i] = ssid
    BY <1>0, <1>2 DEF Wifi!ToSet
  <2>2. Wifi!Without(list, ssid) = rest
    BY <1>2 DEF Wifi!Without
  <2> HIDE DEF i
  <2>3. /\ rest \in Seq(S)
        /\ Len(rest) = Len(list) - 1
        /\ \A j \in 1 .. Len(list) - 1 :
             rest[j] = IF j < i THEN list[j] ELSE list[j + 1]
    BY <2>1, RemoveAtEntries
  <2> HIDE DEF rest
  <2>4. DOMAIN rest = 1 .. Len(list) - 1
    BY <2>3
  <2>5. \A j \in 1 .. Len(rest) : rest[j] # ssid
    BY <1>0, <2>1, <2>3
  <2>6. Wifi!IsInjective(rest)
    <3> SUFFICES ASSUME NEW a \in DOMAIN rest, NEW b \in DOMAIN rest,
                        rest[a] = rest[b]
                 PROVE a = b
      BY DEF Wifi!IsInjective
    <3>1. /\ a \in 1 .. Len(list) - 1 /\ b \in 1 .. Len(list) - 1
          /\ a \in 1 .. Len(list) /\ a + 1 \in 1 .. Len(list)
          /\ b \in 1 .. Len(list) /\ b + 1 \in 1 .. Len(list)
      BY <1>0, <2>4
    <3>2. /\ rest[a] = IF a < i THEN list[a] ELSE list[a + 1]
          /\ rest[b] = IF b < i THEN list[b] ELSE list[b + 1]
      BY <2>3, <3>1
    <3>3. /\ a < i => list[a] # ssid /\ a # i
          /\ ~(a < i) => a + 1 # i
          /\ i \in Nat /\ a \in Nat /\ b \in Nat
      BY <1>0, <2>1, <3>1
    <3>4. CASE a < i /\ b < i
      BY <1>0, <3>1, <3>2, <3>4
    <3>5. CASE ~(a < i) /\ ~(b < i)
      <4>1. a + 1 = b + 1
        BY <1>0, <3>1, <3>2, <3>5
      <4>2. QED
        BY <3>3, <4>1
    <3>6. CASE a < i /\ ~(b < i)
      <4>1. a = b + 1
        BY <1>0, <3>1, <3>2, <3>6
      <4>2. QED
        BY <3>3, <3>6, <4>1
    <3>7. CASE ~(a < i) /\ b < i
      <4>1. a + 1 = b
        BY <1>0, <3>1, <3>2, <3>7
      <4>2. QED
        BY <3>3, <3>7, <4>1
    <3>8. QED
      BY <3>4, <3>5, <3>6, <3>7
  <2>7. QED
    BY <1>0, <1>2, <2>2, <2>3, <2>5, <2>6
<1>3. QED
  BY <1>1, <1>2

LEMMA FrontFacts ==
    ASSUME NEW S, NEW list \in Seq(S), Wifi!IsInjective(list), NEW x \in S,
           \A j \in 1 .. Len(list) : list[j] # x
    PROVE /\ <<x>> \o list \in Seq(S)
          /\ Len(<<x>> \o list) = Len(list) + 1
          /\ Wifi!IsInjective(<<x>> \o list)
<1> DEFINE longer == <<x>> \o list
<1>1. /\ <<x>> \in Seq(S) /\ Len(<<x>>) = 1 /\ Len(list) \in Nat
      /\ DOMAIN list = 1 .. Len(list)
  OBVIOUS
<1>2. longer \in Seq(S) /\ Len(longer) = Len(list) + 1
  BY <1>1
<1>3. longer[1] = x /\ \A j \in 2 .. Len(list) + 1 : longer[j] = list[j - 1]
  BY <1>1
<1>4. DOMAIN longer = 1 .. Len(list) + 1
  BY <1>2
<1> HIDE DEF longer
<1>5. Wifi!IsInjective(longer)
  <2> SUFFICES ASSUME NEW a \in DOMAIN longer, NEW b \in DOMAIN longer,
                      longer[a] = longer[b]
               PROVE a = b
    BY DEF Wifi!IsInjective
  <2>1. a \in 1 .. Len(list) + 1 /\ b \in 1 .. Len(list) + 1
    BY <1>4
  <2>2. \A i, j \in 1 .. Len(list) : list[i] = list[j] => i = j
    BY <1>1 DEF Wifi!IsInjective
  <2>3. CASE a = 1 \/ b = 1
    <3>1. \A j \in 2 .. Len(list) + 1 : longer[j] # x
      BY <1>1, <1>3
    <3>2. ~(a # 1 /\ longer[a] = x) /\ ~(b # 1 /\ longer[b] = x)
      BY <1>1, <2>1, <3>1
    <3>3. CASE a = 1
      BY <1>3, <3>2, <3>3
    <3>4. CASE b = 1
      BY <1>3, <3>2, <3>4
    <3>5. QED
      BY <2>3, <3>3, <3>4
  <2>4. CASE a # 1 /\ b # 1
    <3>1. /\ a - 1 \in 1 .. Len(list) /\ b - 1 \in 1 .. Len(list)
          /\ longer[a] = list[a - 1] /\ longer[b] = list[b - 1]
      BY <1>1, <1>3, <2>1, <2>4
    <3>2. a - 1 = b - 1
      BY <2>2, <3>1, Zenon
    <3>3. QED
      BY <1>1, <2>1, <3>2
  <2>5. QED
    BY <2>3, <2>4
<1>6. QED
  BY <1>2, <1>5 DEF longer

LEMMA FailuresNumber ==
    ASSUME Wifi!WifiAssumption
    PROVE Wifi!MaxFailures \in Nat
  BY DEF Wifi!MaxFailures, Wifi!WifiAssumption

\* A count that stops at its limit keeps to it.
LEMMA CountedUp ==
    ASSUME NEW limit \in Nat, NEW n \in 0 .. limit
    PROVE (IF n < limit THEN n + 1 ELSE n) \in 0 .. limit
  OBVIOUS

\* A wait that doubles until it reaches its limit is overshot once at most.
LEMMA DoubledWait ==
    ASSUME NEW first \in Nat, NEW limit \in Nat, first <= limit,
           NEW n \in first .. 2 * limit
    PROVE (IF n >= limit THEN limit ELSE 2 * n) \in first .. 2 * limit
<1>1. CASE n >= limit
  BY <1>1
<1>2. CASE ~(n >= limit)
  <2>1. n \in Nat /\ n < limit /\ n >= first
    BY <1>2
  <2>2. 2 * n <= 2 * limit /\ 2 * n >= first /\ 2 * n \in Nat
    BY <2>1
  <2>3. QED
    BY <1>2, <2>2
<1>3. QED
  BY <1>1, <1>2

LEMMA WifiTypesInit ==
    ASSUME Wifi!WifiAssumption, Wifi!Init
    PROVE Wifi!TypeOK
<1>1. saved \in Seq(Ssids) /\ Len(saved) <= MaxNetworks /\ Wifi!IsInjective(saved)
  <2>1. PICK m \in 0 .. MaxNetworks : saved \in [1 .. m -> Ssids]
    BY DEF Wifi!Init, Wifi!SeqOf
  <2>2. saved \in Seq(Ssids) /\ Len(saved) = m
    BY <2>1
  <2>3. QED
    BY <2>1, <2>2 DEF Wifi!Init, Wifi!WifiAssumption
<1>2. Wifi!MaxFailures \in Nat
  BY FailuresNumber
<1>3. /\ 0 \in 0 .. ConnectTimeout + 1 /\ 0 \in 0 .. MaxNetworks - 1
      /\ 0 \in 0 .. MaxWraps /\ FirstBackoff \in FirstBackoff .. 2 * MaxBackoff
  BY DEF Wifi!WifiAssumption
<1>4. 0 \in 0 .. Wifi!MaxFailures
  BY <1>2
<1>5. portal \in BOOLEAN /\ ap \in BOOLEAN /\ severed \in BOOLEAN
  <2>1. portal \in BOOLEAN
    BY DEF Wifi!Init
  <2>2. ap = portal /\ severed = FALSE
    BY DEF Wifi!Init
  <2>3. QED
    BY <2>1, <2>2, Zenon
<1>6. phase \in {"Booting", "Portal", "Connecting", "Connected", "Failed"}
  BY DEF Wifi!Init
<1>7. QED
  BY <1>1, <1>3, <1>4, <1>5, <1>6 DEF Wifi!Init, Wifi!TypeOK, Wifi!Off, Wifi!NoCall, Wifi!Top, Wifi!Links

\* What is known of the access point keeps its type.
LEMMA AccessPointStep ==
    ASSUME portal \in BOOLEAN, ap \in BOOLEAN, severed \in BOOLEAN,
           [Wifi!Next]_(Wifi!vars)
    PROVE portal' \in BOOLEAN /\ ap' \in BOOLEAN /\ severed' \in BOOLEAN
<1>1. ASSUME UNCHANGED Wifi!accessPoint
      PROVE portal' \in BOOLEAN /\ ap' \in BOOLEAN /\ severed' \in BOOLEAN
  <2>1. portal' = portal /\ ap' = ap /\ severed' = severed
    BY <1>1 DEF Wifi!accessPoint
  <2>2. QED
    BY <2>1, Zenon
<1>2. ASSUME Wifi!RaisePortal
      PROVE portal' \in BOOLEAN /\ ap' \in BOOLEAN /\ severed' \in BOOLEAN
  <2>1. CASE portal
    BY <1>1, <1>2, <2>1, Zenon DEF Wifi!RaisePortal
  <2>2. CASE ~portal
    BY <1>2, <2>2, Zenon DEF Wifi!RaisePortal
  <2>3. QED
    BY <2>1, <2>2
<1>3. ASSUME Wifi!PortalStands
      PROVE portal' \in BOOLEAN /\ ap' \in BOOLEAN /\ severed' \in BOOLEAN
  BY <1>3, Zenon DEF Wifi!PortalStands
<1>4. CASE Wifi!PassBegins \/ Wifi!OnConnected \/ Wifi!NothingToDo
           \/ Wifi!ChooseNetwork \/ Wifi!JoinChosen
  <2>1. UNCHANGED Wifi!accessPoint
    BY <1>4, Zenon DEF Wifi!PassBegins, Wifi!OnConnected, Wifi!NothingToDo,
       Wifi!ChooseNetwork, Wifi!JoinChosen, Wifi!accessPoint
  <2>2. QED
    BY <1>1, <2>1
<1>5. CASE Wifi!PassLowersPortal
  <2>1. CASE portal
    BY <1>5, <2>1, Zenon DEF Wifi!PassLowersPortal
  <2>2. CASE ~portal
    BY <1>1, <1>5, <2>2, Zenon DEF Wifi!PassLowersPortal
  <2>3. QED
    BY <2>1, <2>2
<1>6. CASE Wifi!OnFailed
  <2>1. Wifi!RaisePortal \/ UNCHANGED Wifi!accessPoint
    BY <1>6 DEF Wifi!OnFailed
  <2>2. QED
    BY <1>1, <1>2, <2>1
<1>7. CASE Wifi!NothingSaved
  BY <1>2, <1>7 DEF Wifi!NothingSaved
<1>8. CASE Wifi!PassRaisesPortal \/ Wifi!CallRaisesPortal
  BY <1>3, <1>8, Zenon DEF Wifi!PassRaisesPortal, Wifi!CallRaisesPortal
<1>9. CASE Wifi!CallBegins
  <2>1. UNCHANGED Wifi!accessPoint
    BY <1>9, Zenon DEF Wifi!CallBegins, Wifi!SaveNetwork, Wifi!ForgetSaved,
       Wifi!ForgetAllSaved
  <2>2. QED
    BY <1>1, <2>1
<1>10. CASE Wifi!TakeRadio
  <2>1. /\ ap' = (ap /\ portal) /\ portal' = portal
        /\ severed' = (severed \/ (ap /\ ~portal))
    BY <1>10, Zenon DEF Wifi!TakeRadio
  <2>2. QED
    BY <2>1, Zenon
<1>11. CASE Wifi!BeginJoin \/ Wifi!ForgetDrops
  <2>1. UNCHANGED Wifi!accessPoint
    BY <1>11, Zenon DEF Wifi!BeginJoin, Wifi!ForgetDrops
  <2>2. QED
    BY <1>1, <2>1
<1>12. CASE Wifi!ForgetAllDrops
  <2>1. /\ portal' = portal
        /\ (ap' = ap /\ severed' = severed) \/ (ap' = TRUE /\ severed' = FALSE)
    BY <1>12, SMT DEF Wifi!ForgetAllDrops
  <2>2. QED
    BY <2>1, Zenon
<1>13. CASE Wifi!Environment
  <2>1. UNCHANGED Wifi!accessPoint
    BY <1>13, Zenon DEF Wifi!Environment, Wifi!Associate, Wifi!Refuse, Wifi!Drop,
       Wifi!Outcome, Wifi!Tick, Wifi!ClockWraps, Wifi!ClockComesBack
  <2>2. QED
    BY <1>1, <2>1
<1>14. CASE UNCHANGED Wifi!vars
  <2>1. UNCHANGED Wifi!accessPoint
    BY <1>14, Zenon DEF Wifi!vars
  <2>2. QED
    BY <1>1, <2>1
<1>15. QED
  BY <1>4, <1>5, <1>6, <1>7, <1>8, <1>9, <1>10, <1>11, <1>12, <1>13, <1>14, Zenon
  DEF Wifi!Next, Wifi!Pass, Wifi!CallGoesOn

LEMMA WifiTypesStep ==
    ASSUME Wifi!WifiAssumption, Wifi!TypeOK, [Wifi!Next]_(Wifi!vars)
    PROVE Wifi!TypeOK'
<1>a. /\ Wifi!MaxFailures \in Nat /\ 0 \in 0 .. Wifi!MaxFailures
      /\ 0 \in 0 .. ConnectTimeout + 1 /\ 0 \in 0 .. MaxWraps
      /\ FirstBackoff \in FirstBackoff .. 2 * MaxBackoff
      /\ MaxNetworks \in Nat \ {0} /\ 0 \in 0 .. MaxNetworks - 1
  <2>1. Wifi!MaxFailures \in Nat /\ 0 \in 0 .. Wifi!MaxFailures
    BY FailuresNumber
  <2>2. QED
    BY <2>1 DEF Wifi!WifiAssumption
<1>f. portal' \in BOOLEAN /\ ap' \in BOOLEAN /\ severed' \in BOOLEAN
  BY AccessPointStep, Zenon DEF Wifi!TypeOK
<1> USE <1>f DEF Wifi!TypeOK, Wifi!attempt
<1>b. Len(saved) \in Nat /\ DOMAIN saved = 1 .. Len(saved)
  OBVIOUS
<1>c. backoff \in 0 .. 2 * MaxBackoff + NothingSavedWait
  BY DEF Wifi!WifiAssumption
<1>d. ASSUME Wifi!PassEnds PROVE pass' \in [at : {"top", "raise", "lower"}, read : {None}]
                            /\ ahead' \in BOOLEAN
  BY <1>d DEF Wifi!PassEnds, Wifi!PassAt
<1>e. ASSUME Wifi!RaisePortal PROVE pass' \in [at : {"top", "raise", "lower"}, read : {None}]
                               /\ ahead' \in BOOLEAN
  BY <1>d, <1>e DEF Wifi!RaisePortal, Wifi!PassAt
<1>1. CASE Wifi!PassBegins
  <2>1. pass' \in [at : {"status"}, read : Wifi!Links]
    BY <1>1 DEF Wifi!PassBegins
  <2>2. QED
    BY <1>1, <2>1 DEF Wifi!PassBegins
<1>2. CASE Wifi!OnConnected
  BY <1>2, <1>a DEF Wifi!OnConnected, Wifi!PassAt, Wifi!KeepsWaiting
<1>3. CASE Wifi!PassLowersPortal
  BY <1>3, <1>d DEF Wifi!PassLowersPortal, Wifi!KeepsWaiting
<1>4. CASE Wifi!OnFailed
  <2>1. failures' \in 0 .. Wifi!MaxFailures
    <3>1. failures' = IF failures < Wifi!MaxFailures THEN failures + 1 ELSE failures
      BY <1>4, Zenon DEF Wifi!OnFailed
    <3>2. Wifi!MaxFailures \in Nat /\ failures \in 0 .. Wifi!MaxFailures
      BY <1>a, Zenon
    <3>3. QED
      BY <3>1, <3>2, CountedUp, Zenon
  <2>2. backoff' \in FirstBackoff .. 2 * MaxBackoff
    <3>1. backoff' = IF backoff >= MaxBackoff THEN MaxBackoff ELSE 2 * backoff
      BY <1>4, Zenon DEF Wifi!OnFailed
    <3>2. /\ FirstBackoff \in Nat /\ MaxBackoff \in Nat /\ FirstBackoff <= MaxBackoff
          /\ backoff \in FirstBackoff .. 2 * MaxBackoff
      BY DEF Wifi!WifiAssumption
    <3>3. QED
      BY <3>1, <3>2, DoubledWait, Zenon
  <2>3. wait' \in 0 .. 2 * MaxBackoff + NothingSavedWait
    BY <1>4, <1>c DEF Wifi!OnFailed
  <2>4. pass' \in [at : {"top", "raise", "lower"}, read : {None}] /\ ahead' \in BOOLEAN
    BY <1>4, <1>d, <1>e DEF Wifi!OnFailed
  <2>5. QED
    BY <1>4, <2>1, <2>2, <2>3, <2>4 DEF Wifi!OnFailed, Wifi!KeepsWaiting
<1>5. CASE Wifi!NothingToDo
  BY <1>5, <1>d DEF Wifi!NothingToDo, Wifi!KeepsWaiting
<1>6. CASE Wifi!ChooseNetwork
  <2>1. Len(saved) \in 1 .. MaxNetworks /\ index \in Nat
    BY <1>6, <1>a, <1>b DEF Wifi!ChooseNetwork
  <2>2. /\ index % Len(saved) \in 0 .. Len(saved) - 1
        /\ (index + 1) % Len(saved) \in 0 .. Len(saved) - 1
    <3>1. Len(saved) \in Nat \ {0} /\ index + 1 \in Nat
      BY <2>1
    <3>2. QED
      BY <2>1, <3>1, RemainderBelow
  <2> DEFINE here == index % Len(saved)
             next == (index + 1) % Len(saved)
  <2>a. index' = next /\ pass' = [at |-> "chosen", read |-> saved[here + 1]]
    BY <1>6 DEF Wifi!ChooseNetwork
  <2> HIDE DEF here, next
  <2>3. next \in 0 .. MaxNetworks - 1
    <3>1. next \in 0 .. Len(saved) - 1
      BY <2>2 DEF next
    <3>2. QED
      BY <1>a, <2>1, <3>1
  <2>4. here + 1 \in 1 .. Len(saved)
    <3>1. here \in 0 .. Len(saved) - 1
      BY <2>2 DEF here
    <3>2. QED
      BY <1>a, <2>1, <3>1
  <2>5. pass' \in [at : {"chosen"}, read : Ssids]
    BY <2>a, <2>4
  <2>6. QED
    BY <1>6, <2>a, <2>3, <2>5 DEF Wifi!ChooseNetwork
<1>7. CASE Wifi!JoinChosen
  <2>1. pass.read \in Ssids
    BY <1>7 DEF Wifi!JoinChosen
  <2>2. radio' \in [link : Wifi!Links, ssid : Ssids \cup {None}]
    BY <1>7, <2>1 DEF Wifi!JoinChosen, Wifi!Links
  <2>3. QED
    BY <1>7, <1>a, <1>d, <2>2 DEF Wifi!JoinChosen
<1>8. CASE Wifi!NothingSaved
  <2>1. NothingSavedWait \in 0 .. 2 * MaxBackoff + NothingSavedWait
    BY DEF Wifi!WifiAssumption
  <2>2. QED
    BY <1>8, <1>e, <2>1 DEF Wifi!NothingSaved, Wifi!KeepsWaiting
<1>9. CASE Wifi!PassRaisesPortal
  BY <1>9, <1>d DEF Wifi!PassRaisesPortal, Wifi!PortalStands, Wifi!KeepsWaiting
<1>10. ASSUME NEW s \in Ssids, Wifi!SaveNetwork(s) PROVE Wifi!TypeOK'
  <2> DEFINE rest == Wifi!Without(saved, s)
  <2>1. /\ rest \in Seq(Ssids) /\ Wifi!IsInjective(rest) /\ Len(rest) <= Len(saved)
        /\ s \in Wifi!ToSet(saved) => Len(rest) = Len(saved) - 1
        /\ \A j \in 1 .. Len(rest) : rest[j] # s
    BY WithoutFacts
  <2>2. Len(rest) \in Nat
    BY <2>1
  <2> HIDE DEF rest
  <2>3. Len(rest) + 1 <= MaxNetworks
    <3>1. CASE s \in Wifi!ToSet(saved)
      BY <1>a, <1>b, <2>1, <2>2, <3>1
    <3>2. CASE Len(saved) < MaxNetworks
      <4>1. Len(rest) <= Len(saved)
        BY <2>1
      <4>2. MaxNetworks \in Nat
        BY <1>a
      <4>3. QED
        BY <1>b, <2>2, <3>2, <4>1, <4>2
    <3>3. QED
      BY <1>10, <3>1, <3>2 DEF Wifi!SaveNetwork, Wifi!SavedSet
  <2>4. /\ <<s>> \o rest \in Seq(Ssids) /\ Len(<<s>> \o rest) = Len(rest) + 1
        /\ Wifi!IsInjective(<<s>> \o rest)
    BY <1>10, <2>1, FrontFacts
  <2>5. saved' = <<s>> \o rest /\ call' = [op |-> "connect", ssid |-> s]
    BY <1>10 DEF Wifi!SaveNetwork, rest
  <2>6. call' \in [op : {"connect", "begin", "forget"}, ssid : Ssids]
    BY <1>10, <2>5
  <2>7. saved' \in Seq(Ssids) /\ Len(saved') <= MaxNetworks /\ Wifi!IsInjective(saved')
    BY <2>3, <2>4, <2>5
  <2>8. QED
    BY <1>10, <2>6, <2>7 DEF Wifi!SaveNetwork
<1>11. ASSUME NEW s \in Ssids, Wifi!ForgetSaved(s) PROVE Wifi!TypeOK'
  <2>1. /\ saved' \in Seq(Ssids) /\ Wifi!IsInjective(saved') /\ Len(saved') <= Len(saved)
    BY <1>11, WithoutFacts DEF Wifi!ForgetSaved
  <2>2. Len(saved') <= MaxNetworks
    BY <1>a, <1>b, <2>1
  <2>3. call' \in [op : {"connect", "begin", "forget"}, ssid : Ssids]
    BY <1>11 DEF Wifi!ForgetSaved
  <2>4. QED
    BY <1>11, <2>1, <2>2, <2>3 DEF Wifi!ForgetSaved
<1>12. CASE Wifi!ForgetAllSaved
  <2>1. saved' = << >>
    BY <1>12 DEF Wifi!ForgetAllSaved
  <2>2. << >> \in Seq(Ssids) /\ Len(<< >>) = 0 /\ Wifi!IsInjective(<< >>)
    BY EmptySeq DEF Wifi!IsInjective
  <2>3. saved' \in Seq(Ssids) /\ Len(saved') <= MaxNetworks /\ Wifi!IsInjective(saved')
    BY <1>a, <2>1, <2>2
  <2>4. QED
    BY <1>12, <2>3 DEF Wifi!ForgetAllSaved
<1>13. CASE Wifi!TakeRadio
  <2>1. call' \in [op : {"connect", "begin", "forget"}, ssid : Ssids]
    BY <1>13 DEF Wifi!TakeRadio
  <2>2. QED
    BY <1>13, <2>1 DEF Wifi!TakeRadio, Wifi!Off, Wifi!Links
<1>14. CASE Wifi!BeginJoin
  <2>1. call.ssid \in Ssids
    BY <1>14 DEF Wifi!BeginJoin
  <2>2. radio' \in [link : Wifi!Links, ssid : Ssids \cup {None}]
    BY <1>14, <2>1 DEF Wifi!BeginJoin, Wifi!Links
  <2>3. ahead' \in BOOLEAN
    BY <1>14 DEF Wifi!BeginJoin
  <2>4. QED
    BY <1>14, <1>a, <2>2, <2>3 DEF Wifi!BeginJoin, Wifi!NoCall
<1>15. CASE Wifi!ForgetDrops
  <2>1. call' \in [op : {"none", "forgetAll", "raise"}, ssid : {None}]
    BY <1>15 DEF Wifi!ForgetDrops, Wifi!NoCall
  <2>2. radio' \in [link : Wifi!Links, ssid : Ssids \cup {None}]
    BY <1>15 DEF Wifi!ForgetDrops, Wifi!Off, Wifi!Links
  <2>3. QED
    BY <1>15, <2>1, <2>2 DEF Wifi!ForgetDrops
<1>16. CASE Wifi!ForgetAllDrops
  <2>a. call' = Wifi!NoCall \/ call' = [op |-> "raise", ssid |-> None]
    BY <1>16 DEF Wifi!ForgetAllDrops
  <2>1. call' \in [op : {"none", "forgetAll", "raise"}, ssid : {None}]
    BY <2>a DEF Wifi!NoCall
  <2>2. QED
    BY <1>16, <2>1 DEF Wifi!ForgetAllDrops, Wifi!Off, Wifi!Links
<1>17. CASE Wifi!CallRaisesPortal
  BY <1>17 DEF Wifi!CallRaisesPortal, Wifi!PortalStands, Wifi!NoCall
<1>18. CASE Wifi!Associate \/ Wifi!Refuse \/ Wifi!Drop
  <2>1. PICK outcome \in Wifi!Links : Wifi!Outcome(outcome)
    BY <1>18 DEF Wifi!Associate, Wifi!Refuse, Wifi!Drop, Wifi!Links
  <2>2. radio' \in [link : Wifi!Links, ssid : Ssids \cup {None}]
    BY <2>1 DEF Wifi!Outcome
  <2>3. QED
    BY <2>1, <2>2 DEF Wifi!Outcome
<1>19. CASE Wifi!Tick
  <2>1. age' \in 0 .. ConnectTimeout + 1
    <3>1. age' = IF age <= ConnectTimeout THEN age + 1 ELSE age
      BY <1>19, Zenon DEF Wifi!Tick
    <3>2. ConnectTimeout \in Nat /\ age \in 0 .. ConnectTimeout + 1
      BY DEF Wifi!WifiAssumption
    <3>3. CASE age <= ConnectTimeout
      BY <3>1, <3>2, <3>3
    <3>4. CASE ~(age <= ConnectTimeout)
      BY <3>1, <3>2, <3>4, Zenon
    <3>5. QED
      BY <3>3, <3>4
  <2>2. wait' \in (0 .. 2 * MaxBackoff + NothingSavedWait) \cup {Asap, Far}
    <3>1. CASE wait \in {0, Asap, Far}
      BY <1>19, <3>1 DEF Wifi!Tick
    <3>2. CASE wait \notin {0, Asap, Far}
      <4>1. wait' = wait - 1
        BY <1>19, <3>2 DEF Wifi!Tick
      <4>2. 2 * MaxBackoff + NothingSavedWait \in Nat
        BY DEF Wifi!WifiAssumption
      <4>3. wait \in 0 .. 2 * MaxBackoff + NothingSavedWait /\ wait # 0
        BY <3>2
      <4>4. wait - 1 \in 0 .. 2 * MaxBackoff + NothingSavedWait
        BY <4>2, <4>3
      <4>5. QED
        BY <4>1, <4>4
    <3>3. QED
      BY <3>1, <3>2
  <2>3. QED
    BY <1>19, <2>1, <2>2 DEF Wifi!Tick
<1>20. CASE Wifi!ClockWraps
  <2>1. wraps' \in 0 .. MaxWraps
    BY <1>20 DEF Wifi!ClockWraps, Wifi!WifiAssumption
  <2>2. QED
    BY <1>20, <2>1 DEF Wifi!ClockWraps
<1>21. CASE Wifi!ClockComesBack
  <2>1. 0 \in 0 .. 2 * MaxBackoff + NothingSavedWait
    BY DEF Wifi!WifiAssumption
  <2>2. QED
    BY <1>21, <2>1 DEF Wifi!ClockComesBack
<1>22. CASE UNCHANGED Wifi!vars
  BY <1>22 DEF Wifi!vars
<1>23. QED
  BY <1>1, <1>2, <1>3, <1>4, <1>5, <1>6, <1>7, <1>8, <1>9, <1>10, <1>11,
     <1>12, <1>13, <1>14, <1>15, <1>16, <1>17, <1>18, <1>19, <1>20, <1>21, <1>22
  DEF Wifi!Next, Wifi!Pass, Wifi!CallBegins, Wifi!CallGoesOn, Wifi!Environment

\* The variables of the Wi-Fi manager have their types: the list never holds a
\* network twice nor more than it may, the backoff stays within twice its limit.
THEOREM WifiTypes == ASSUME Wifi!WifiAssumption PROVE Wifi!Spec => []Wifi!TypeOK
<1>1. Wifi!Spec => []Wifi!TypeOK
  BY WifiTypesInit, WifiTypesStep, PTL DEF Wifi!Spec
<1>2. QED
  BY <1>1
=============================================================================
