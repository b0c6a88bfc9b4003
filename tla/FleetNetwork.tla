---------------------------- MODULE FleetNetwork ----------------------------
(***************************************************************************)
(* Where the samples come from: the panel's network task, which serves its *)
(* MQTT connection and polls one device per pass over HTTP, the agents, the*)
(* broker between them, and the user who edits devices and settings while  *)
(* a fetch runs with the mutex released.                                   *)
(*                                                                         *)
(* One tick is a poll interval.  Ages, waits and failures stop counting    *)
(* where no condition of the code tells higher values apart.  Retained meta*)
(* messages are DeviceRegistry's Discover; an entry without an address is  *)
(* one that is not enabled.                                                *)
(***************************************************************************)
EXTENDS Naturals, Sequences, FiniteSets, SequencesExt

CONSTANTS
    Ids,           \* identities of device entries
    Agents,        \* those that are the identity of an agent
    Urls,          \* addresses an entry can have
    HostOf,        \* the agent that answers at an address, or None
    Publishers,    \* the agents whose configuration enables MQTT
    None,
    Handlers,      \* tasks that change settings: the web server, the screen
    Modes,         \* transport modes the user chooses among
    Brokers,       \* the ways the settings can name the broker
    MqttChoices,   \* what he sets config.mqtt to: enabled, and the broker or none
    Entries,       \* <<id, url>> of the devices the user adds
    Edits,         \* <<id, url, enabled>> of the edits made to devices
    Networks,      \* what the panel's network reaches at times
    MaxDevices,    \* kMaxDevices
    MaxDoublings,  \* kMaxBackoffMultiplier is 2 to this power
    FreshTicks,    \* mqttFreshMs
    MaxRetry,      \* kMaxBackoffMs of the broker connection
    MaxInbox       \* bound: messages on their way to the panel

ASSUME FleetAssumption ==
    /\ Agents \subseteq Ids /\ IsFiniteSet(Agents)
    /\ None \notin Ids \cup Brokers \cup [id : Ids, url : Urls]
                    \cup {"online", "offline"}
    /\ Publishers \subseteq Agents
    /\ HostOf \in [Urls -> Agents \cup {None}]
    /\ Modes \subseteq {"http", "mqtt", "auto"}
    /\ MqttChoices \subseteq [on : BOOLEAN, broker : Brokers \cup {None}]
    /\ Entries \subseteq Ids \X Urls
    /\ Edits \subseteq Ids \X Urls \X BOOLEAN
    /\ Networks \subseteq {"offline", "lan", "broker"}
    /\ {MaxDevices, MaxRetry, MaxInbox} \subseteq Nat \ {0}
    /\ {MaxDoublings, FreshTicks, 2 ^ MaxDoublings} \subseteq Nat

VARIABLES
    devices,    \* DeviceRegistry::devices_, what polling and display read
    mode,       \* config.transport.mode
    mqttConfig, \* config.mqtt
    asking,     \* tasks that have changed settings and not asked for a reload yet
    reload,     \* g_reloadRequested
    pc,         \* where the network task is
    readConfig, \* reloadTransports(): the settings it has read
    cursor,     \* g_pollCursor
    target,     \* pollOneDevice(): the device being fetched
    mqtt,       \* MqttTelemetryTransport: its fields of these names
    link,       \* the connection to the broker is open
    peer,       \* the broker it was made to
    inbox,      \* messages on that connection
    reach,      \* what the panel's network gives: nothing, the LAN, the broker
    agent,      \* agents: down, up, or up with a broker session
    retained    \* what the broker retains of each agent

panel == <<devices, cursor, target>>
settings == <<mode, mqttConfig, asking, reload, readConfig>>
connection == <<link, peer, inbox>>
session == <<mqtt, connection>>
outside == <<reach, agent, retained>>
vars == <<panel, settings, pc, session, outside>>

\* DeviceRegistry::find().  No two entries have one identity here.
Known(id) == \E i \in DOMAIN devices : devices[i].id = id
Device(id) == CHOOSE i \in DOMAIN devices : devices[i].id = id

\* A DeviceState as the constructor leaves it: due at once, never heard from.
NewDevice(id, url) ==
    [id |-> id, url |-> url, enabled |-> TRUE, since |-> 2 ^ MaxDoublings,
     failures |-> 0, age |-> FreshTicks + 1, via |-> "http", offline |-> FALSE,
     latest |-> None]

NoSettings == [on |-> FALSE, broker |-> None]
NoMqtt ==
    [host |-> None, enabled |-> FALSE, connected |-> FALSE, retry |-> 0, backoff |-> 1]

Init ==
    /\ devices = << >> /\ cursor = 0 /\ target = None
    /\ mode \in Modes /\ mqttConfig \in MqttChoices
    /\ asking = {} /\ reload = FALSE /\ readConfig = NoSettings
    /\ pc = "read"
    /\ mqtt = NoMqtt /\ link = FALSE /\ peer = None /\ inbox = << >>
    /\ reach = "offline"
    /\ agent = [a \in Agents |-> "down"]
    /\ retained = [a \in Agents |-> [availability |-> None, telemetry |-> FALSE]]

(* ------------------------- samples and failures ------------------------ *)

\* DeviceState::applySample().
ApplySample(d, id, via) ==
    [d EXCEPT !.latest = id, !.age = 0, !.since = 0, !.failures = 0,
              !.via = via, !.offline = FALSE]

\* Mutant of NoteFailure: a failed poll counts as contact.
NoteFailureAsContact(d) ==
    [d EXCEPT !.since = 0, !.age = 0,
              !.failures = IF @ < MaxDoublings THEN @ + 1 ELSE @]

\* DeviceState::noteFailure().
NoteFailure(d) ==
    [d EXCEPT !.since = 0, !.failures = IF @ < MaxDoublings THEN @ + 1 ELSE @]

(* ---------------------- settings and the transport --------------------- *)

\* The task takes a reload request before it reads what to reload.
TakeReload ==
    /\ pc = "top" /\ reload
    /\ reload' = FALSE
    /\ pc' = "read"
    /\ UNCHANGED <<panel, mode, mqttConfig, asking, readConfig, session, outside>>

ReadSettings ==
    /\ pc = "read"
    /\ readConfig' = mqttConfig
    /\ pc' = "apply"
    /\ UNCHANGED <<panel, mode, mqttConfig, asking, reload, session, outside>>

Disconnected == link' = FALSE /\ peer' = None /\ inbox' = << >>

\* end().
End ==
    /\ mqtt' = [mqtt EXCEPT !.enabled = FALSE, !.connected = FALSE]
    /\ Disconnected

\* configure() keeps the connection to an unchanged broker; begin() gives up
\* without one, before it enables the transport.
Configure(broker) ==
    LET stale == mqtt.connected /\ broker # mqtt.host
    IN /\ mqtt' =
            [mqtt EXCEPT !.host = broker,
                         !.connected = @ /\ ~stale,
                         !.enabled = @ \/ broker # None,
                         !.retry = IF stale \/ broker # None THEN 0 ELSE @,
                         !.backoff = IF stale \/ broker # None THEN 1 ELSE @]
       /\ IF stale THEN Disconnected ELSE UNCHANGED connection

\* Mutant of ApplySettings: the request is cleared once it has been served.
ApplySettingsThenClear ==
    /\ pc = "apply"
    /\ IF readConfig.on THEN Configure(readConfig.broker) ELSE End
    /\ pc' = "mqtt" /\ readConfig' = NoSettings /\ reload' = FALSE
    /\ UNCHANGED <<panel, mode, mqttConfig, asking, outside>>

ApplySettings ==
    /\ pc = "apply"
    /\ IF readConfig.on THEN Configure(readConfig.broker) ELSE End
    /\ pc' = "mqtt" /\ readConfig' = NoSettings
    /\ UNCHANGED <<panel, mode, mqttConfig, asking, reload, outside>>

(* ------------------ MqttTelemetryTransport::loop() --------------------- *)

AtMqtt == pc = "mqtt" \/ (pc = "top" /\ ~reload)

\* Mutant of Replay: only the telemetry topics are subscribed to.
ReplayTelemetryOnly ==
    SetToSeq({<<"telemetry", a>> : a \in {b \in Agents : retained[b].telemetry}})

\* What a new subscription brings: all availabilities, then all telemetry.
Replay ==
    LET Said(a) == retained[a].availability # None
    IN SetToSeq({<<"availability", a, retained[a].availability>> :
                    a \in {b \in Agents : Said(b)}})
       \o SetToSeq({<<"telemetry", a>> : a \in {b \in Agents : retained[b].telemetry}})

MqttDisabled ==
    /\ AtMqtt /\ ~mqtt.enabled
    /\ pc' = "poll"
    /\ UNCHANGED <<panel, settings, session, outside>>

\* Mutant of RetryLater: the connection is given up.
RetryNever == [mqtt EXCEPT !.enabled = FALSE, !.connected = FALSE]

\* Each failure doubles the wait before the next attempt, up to a minute.
RetryLater ==
    [mqtt EXCEPT !.connected = FALSE, !.retry = mqtt.backoff,
                 !.backoff = IF @ >= MaxRetry THEN MaxRetry ELSE 2 * @]

\* A lost connection is noticed here, and a new one tried once it is time.
Reconnect ==
    /\ AtMqtt /\ mqtt.enabled /\ ~link
    /\ pc' = "poll"
    /\ IF reach = "offline" \/ mqtt.host = None \/ mqtt.retry > 0
       THEN /\ mqtt' = [mqtt EXCEPT !.connected = FALSE]
            /\ UNCHANGED connection
       ELSE IF reach = "broker"
       THEN /\ mqtt' = [mqtt EXCEPT !.connected = TRUE, !.backoff = 1]
            /\ link' = TRUE /\ peer' = mqtt.host /\ inbox' = Replay
       ELSE mqtt' = RetryLater /\ UNCHANGED connection
    /\ UNCHANGED <<panel, settings, outside>>

\* onMqttSample() and onMqttAvailability().
Heard(d, message) ==
    IF message[1] = "telemetry" THEN ApplySample(d, message[2], "mqtt")
    ELSE [d EXCEPT !.offline = message[3] = "offline"]

\* At most one message per pass; one of an unknown device is dropped.
Deliver ==
    /\ AtMqtt /\ mqtt.enabled /\ link
    /\ pc' = "poll"
    /\ IF inbox = << >> \/ reach # "broker"
       THEN UNCHANGED <<devices, inbox>>
       ELSE LET id == Head(inbox)[2]
            IN /\ inbox' = Tail(inbox)
               /\ devices' = IF ~Known(id) THEN devices
                             ELSE [devices EXCEPT ![Device(id)] =
                                       Heard(@, Head(inbox))]
    /\ UNCHANGED <<cursor, target, settings, mqtt, link, peer, outside>>

(* --------------------------- pollOneDevice() --------------------------- *)

\* Mutant of ShouldPollOverHttp: a connected broker is taken to deliver.
ShouldPollUnlessConnected(d) ==
    mode = "http" \/ (mode = "auto" /\ ~mqtt.connected)

ShouldPollOverHttp(d) ==
    \/ mode = "http"
    \/ /\ mode = "auto"
       /\ \/ ~mqtt.connected
          \/ d.latest = None \/ d.via # "mqtt"
          \/ d.age > FreshTicks

Pollable(d) ==
    /\ d.enabled /\ ShouldPollOverHttp(d)
    /\ d.since >= 2 ^ d.failures

\* The positions in the order the search visits them, and the first to poll.
Visited(k) == ((cursor + k) % Len(devices)) + 1
Search ==
    {k \in 0 .. Len(devices) - 1 :
        /\ Pollable(devices[Visited(k)])
        /\ \A j \in 0 .. k - 1 : ~Pollable(devices[Visited(j)])}

\* Mutant of Claim: the search starts at the same device again.
ClaimInPlace(i) ==
    /\ target' = [id |-> devices[i].id, url |-> devices[i].url]
    /\ cursor' = i - 1
    /\ devices' = [devices EXCEPT ![i].since = 0]

\* Mutant of Claim: the cursor runs past the end of the list.
ClaimUnwrapped(i) ==
    /\ target' = [id |-> devices[i].id, url |-> devices[i].url]
    /\ cursor' = i
    /\ devices' = [devices EXCEPT ![i].since = 0]

Claim(i) ==
    /\ target' = [id |-> devices[i].id, url |-> devices[i].url]
    /\ cursor' = i % Len(devices)
    /\ devices' = [devices EXCEPT ![i].since = 0]

\* The first half, under the mutex: claim a device that is due.
StartPoll ==
    /\ pc = "poll" /\ reach # "offline"
    /\ \E k \in Search : Claim(Visited(k))
    /\ pc' = "fetch"
    /\ UNCHANGED <<settings, session, outside>>

NothingToPoll ==
    /\ pc = "poll"
    /\ reach = "offline" \/ Search = {}
    /\ pc' = "top"
    /\ UNCHANGED <<panel, settings, session, outside>>

\* An agent that is up answers at the address, if the panel gets there.
Answers(url) ==
    HostOf[url] # None /\ agent[HostOf[url]] # "down" /\ reach # "offline"

\* Mutant of FetchSucceeds: whoever answers is taken for the device.
FetchSucceedsAnyone == Answers(target.url)

\* The agent that answers must be the one the entry is about.
FetchSucceeds == Answers(target.url) /\ HostOf[target.url] = target.id

\* The second half: the device may have been changed or deleted meanwhile.
FinishPoll ==
    /\ pc = "fetch"
    /\ devices' =
         IF ~Known(target.id) THEN devices
         ELSE [devices EXCEPT ![Device(target.id)] =
                 IF FetchSucceeds THEN ApplySample(@, HostOf[target.url], "http")
                 ELSE NoteFailure(@)]
    /\ target' = None
    /\ pc' = "top"
    /\ UNCHANGED <<cursor, settings, session, outside>>

NetworkTask ==
    \/ TakeReload \/ ReadSettings \/ ApplySettings
    \/ MqttDisabled \/ Reconnect \/ Deliver
    \/ StartPoll \/ NothingToPoll \/ FinishPoll
\* Time passes whatever the task is doing.
Tick ==
    LET Aged(d) ==
            [d EXCEPT !.since = IF @ < 2 ^ MaxDoublings THEN @ + 1 ELSE @,
                      !.age = IF @ <= FreshTicks THEN @ + 1 ELSE @]
    IN /\ devices' = [i \in DOMAIN devices |-> Aged(devices[i])]
       /\ mqtt' = [mqtt EXCEPT !.retry = IF @ > 0 THEN @ - 1 ELSE 0]
       /\ UNCHANGED <<cursor, target, settings, pc, connection, outside>>

(* ------------------------------- the user ------------------------------ *)

\* handlePostDevice() and handleApproveDevice().
Add(id, url) ==
    /\ ~Known(id) /\ Len(devices) < MaxDevices
    /\ devices' = Append(devices, NewDevice(id, url))
    /\ UNCHANGED <<cursor, target, settings, pc, session, outside>>

\* handleDeleteDevice().
Delete(id) ==
    /\ Known(id)
    /\ devices' = RemoveAt(devices, Device(id))
    /\ UNCHANGED <<cursor, target, settings, pc, session, outside>>

\* handlePutDevice(), or an address learnt by discovery.
Edit(id, url, enabled) ==
    /\ Known(id)
    /\ devices' = [devices EXCEPT ![Device(id)].url = url,
                                  ![Device(id)].enabled = enabled]
    /\ UNCHANGED <<cursor, target, settings, pc, session, outside>>

\* handlePutConfig() and handleRestore(): the registry is rebuilt, whatever
\* the document is about (from a copy that may be an old one: AppState).
PutConfig(newMode, newMqtt) ==
    /\ "web" \in Handlers \ asking
    /\ mode' = newMode /\ mqttConfig' = newMqtt
    /\ asking' = asking \cup {"web"}
    /\ devices' = [i \in DOMAIN devices |->
            [NewDevice(devices[i].id, devices[i].url)
                EXCEPT !.enabled = devices[i].enabled]]
    /\ UNCHANGED <<reload, readConfig, cursor, target, pc, session, outside>>

\* onTransportPressed() of the settings screen.
PressTransport ==
    /\ "screen" \in Handlers \ asking
    /\ mode' = CASE mode = "auto" -> "http"
                 [] mode = "http" -> "mqtt"
                 [] mode = "mqtt" -> "auto"
    /\ mode' \in Modes
    /\ asking' = asking \cup {"screen"}
    /\ UNCHANGED <<mqttConfig, reload, readConfig, panel, pc, session, outside>>

\* The handler has released the mutex and asks for the reload.
RequestReload(task) ==
    /\ task \in asking
    /\ asking' = asking \ {task} /\ reload' = TRUE
    /\ UNCHANGED <<mode, mqttConfig, readConfig, panel, pc, session, outside>>

(* ----------------------- network, broker, agents ----------------------- *)

ReachChanges ==
    /\ reach' \in Networks \ {reach}
    /\ UNCHANGED <<panel, settings, pc, session, agent, retained>>

LinkLost ==
    /\ link
    /\ Disconnected
    /\ UNCHANGED <<panel, settings, pc, mqtt, outside>>

\* The broker passes on what an agent publishes.
Publish(message) ==
    /\ link => Len(inbox) < MaxInbox
    /\ inbox' = IF link THEN Append(inbox, message) ELSE inbox
    /\ UNCHANGED <<panel, settings, pc, mqtt, link, peer, reach>>

AgentStarts(a) ==
    /\ agent[a] = "down"
    /\ agent' = [agent EXCEPT ![a] = "up"]
    /\ UNCHANGED <<panel, settings, pc, session, reach, retained>>

\* An agent without a broker session stops or crashes.
AgentStops(a) ==
    /\ agent[a] = "up"
    /\ agent' = [agent EXCEPT ![a] = "down"]
    /\ UNCHANGED <<panel, settings, pc, session, reach, retained>>

\* _on_connect().
AgentConnects(a) ==
    /\ a \in Publishers /\ agent[a] = "up"
    /\ agent' = [agent EXCEPT ![a] = "session"]
    /\ retained' = [retained EXCEPT ![a].availability = "online"]
    /\ Publish(<<"availability", a, "online">>)

\* stop(), or the Last Will: the agent has died or lost the broker.
AgentLeaves(a) ==
    /\ agent[a] = "session"
    /\ agent' \in {[agent EXCEPT ![a] = s] : s \in {"up", "down"}}
    /\ retained' = [retained EXCEPT ![a].availability = "offline"]
    /\ Publish(<<"availability", a, "offline">>)

\* publish_telemetry(): dropped while there is no session.
AgentPublishes(a) ==
    /\ agent[a] = "session"
    /\ retained' = [retained EXCEPT ![a].telemetry = TRUE]
    /\ Publish(<<"telemetry", a>>)
    /\ UNCHANGED agent

Next ==
    \/ NetworkTask \/ Tick
    \/ \E entry \in Entries : Add(entry[1], entry[2])
    \/ \E id \in Ids : Delete(id)
    \/ \E edit \in Edits : Edit(edit[1], edit[2], edit[3])
    \/ \E m \in Modes, choice \in MqttChoices : PutConfig(m, choice)
    \/ \E task \in Handlers : RequestReload(task)
    \/ PressTransport \/ ReachChanges \/ LinkLost
    \/ \E a \in Agents :
          \/ AgentStarts(a) \/ AgentStops(a) \/ AgentConnects(a)
          \/ AgentLeaves(a) \/ AgentPublishes(a)

\* A handler that has written its settings asks without waiting for anyone.
Spec == /\ Init /\ [][Next]_vars
        /\ WF_vars(NetworkTask) /\ WF_vars(Tick)
        /\ \A task \in Handlers : WF_vars(RequestReload(task))

(* ----------------------------- properties ------------------------------ *)

Entry(id) == devices[Device(id)]

DeviceStates ==
    [id : Ids, url : Urls, enabled : BOOLEAN, since : 0 .. 2 ^ MaxDoublings,
     failures : 0 .. MaxDoublings, age : 0 .. FreshTicks + 1,
     via : {"http", "mqtt"}, offline : BOOLEAN, latest : Ids \cup {None}]

\* No age, wait or back-off outgrows its bound, a fetch is under way exactly
\* while there is a target, and the cursor stays one any list can have.
TypeOK ==
    /\ devices \in Seq(DeviceStates) /\ Len(devices) <= MaxDevices
    /\ cursor \in 0 .. MaxDevices - 1
    /\ target \in [id : Ids, url : Urls] \cup {None}
    /\ (pc = "fetch") = (target # None)
    /\ mode \in Modes /\ {reload, link} \subseteq BOOLEAN
    /\ {mqttConfig, readConfig} \subseteq [on : BOOLEAN, broker : Brokers \cup {None}]
    /\ asking \subseteq Handlers
    /\ peer \in Brokers \cup {None}
    /\ pc \in {"top", "read", "apply", "mqtt", "poll", "fetch"}
    /\ mqtt \in [host : Brokers \cup {None}, enabled : BOOLEAN, connected : BOOLEAN,
                 retry : 0 .. 2 * MaxRetry, backoff : 1 .. 2 * MaxRetry]
    /\ reach \in {"offline", "lan", "broker"}
    /\ agent \in [Agents -> {"down", "up", "session"}]

\* "Merging would corrupt the history" (http_transport.cpp:163): no entry ever
\* holds the sample of another machine, although addresses change, entries are
\* deleted and added again, and answers come after the mutex was released.
SamplesAtHome ==
    \A i \in DOMAIN devices : devices[i].latest \in {None, devices[i].id}

\* Once a change of the settings has been taken up, the transport is what they
\* say: no connection outlives the switch that turned MQTT off or the broker
\* they named, and a change that comes between reading and applying, or has not
\* been asked for yet, is noted for another round (net_task.cpp:321-324).  Only
\* a transport that is to be on without a broker may be on or off, as it was.
TransportSettled ==
    ~reload /\ asking = {} /\ pc \notin {"read", "apply"} =>
        /\ mqtt.enabled => mqttConfig.on
        /\ mqttConfig.on => mqtt.host = mqttConfig.broker
        /\ mqttConfig.on /\ mqttConfig.broker # None => mqtt.enabled
        /\ link => mqttConfig.broker # None /\ peer = mqttConfig.broker

\* "The MQTT Last Will is authoritative when available" (fp_devices.h:97): while
\* the panel is connected, an entry is shown offline only if that is the last
\* the broker was told of its agent, or the better news is on its way.
OfflineIsLastWord ==
    link => \A i \in DOMAIN devices :
        LET id == devices[i].id
        IN devices[i].offline =>
             \/ retained[id].availability = "offline"
             \/ <<"availability", id, "online">> \in ToSet(inbox)

Wanted(id) ==
    Known(id) /\ Entry(id).enabled /\ mode = "http" /\ reach # "offline"

\* A device that is to be polled is polled again and again, whatever other
\* devices fail, come and go: no dead host takes the task for itself.
KeepsPolling ==
    \A id \in Ids :
        <>[]Wanted(id) => []<>(target # None /\ target.id = id)

Served(id) ==
    /\ Known(id) /\ Entry(id).enabled
    /\ Answers(Entry(id).url) /\ HostOf[Entry(id).url] = id

\* In auto mode a device that answers over HTTP keeps getting samples, even
\* with a broker that is up and delivers nothing (net_task.cpp:90-91).
AutoNeverBlank ==
    \A id \in Agents :
        <>[](mode = "auto" /\ Served(id)) => []<>(Known(id) /\ Entry(id).age = 0)

\* A device whose agent is gone for good ends up offline, old or without any
\* sample; only a panel that keeps reconnecting, and so keeps being sent what
\* the broker retains, is excepted.
DeadFades ==
    \A id \in Agents :
        <>[](agent[id] = "down") /\ (<>[]link \/ <>[]~link)
            => <>[](Known(id) => \/ Entry(id).offline
                                 \/ Entry(id).latest = None
                                 \/ Entry(id).age > FreshTicks)

\* The panel comes back to a broker it can reach, however often it failed.
ReachesBroker ==
    <>[](mqttConfig.on /\ mqttConfig.broker # None /\ reach = "broker") => []<>link
=============================================================================
