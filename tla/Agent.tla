-------------------------------- MODULE Agent ---------------------------------
(***************************************************************************)
(* The agent on a monitored machine: the main thread that starts and stops *)
(* it, the sampler's thread, the thread that announces the service once the*)
(* HTTP server listens, paho's network thread with the broker behind it,   *)
(* and one client of the event stream.                                     *)
(*                                                                         *)
(* A sample is its sequence number.  What the collectors measure, the ring *)
(* of past samples and the answers of the REST endpoints, which read       *)
(* `latest', are left out.                                                 *)
(***************************************************************************)
EXTENDS Naturals, Sequences, FiniteSets

CONSTANTS
    QueueSize,    \* _SUBSCRIBER_QUEUE_SIZE
    MaxSamples    \* bound: samples taken

ASSUME AgentAssumption == {QueueSize, MaxSamples} \subseteq Nat \ {0}

VARIABLES
    http, mqttOn,   \* http.enabled and mqtt.enabled of the configuration
    main,           \* where the main thread is
    stopping,       \* AgentService._stopping
    started,        \* server.started
    sampler,        \* where the sampler's thread is
    halt,           \* Sampler._stop
    latest,         \* Sampler._latest, 0 for None
    publishing,     \* publish_telemetry is in _publishers
    queue,          \* the queue of the stream's client
    subscribed,     \* it is in _subscribers
    reader,         \* where events() is
    announcer,      \* where _announce_when_listening is
    zc, info,       \* DiscoveryAdvertiser._zeroconf and _info are set
    closed,         \* that Zeroconf has been closed
    announced,      \* the service is known on the network
    client,         \* MqttPublisher._client is set
    connected,      \* MqttPublisher._connected
    link,           \* the connection of that client
    will,           \* the broker holds a Last Will of the agent
    availability,   \* what the broker retains
    telemetry

sampling == <<sampler, latest>>
streaming == <<queue, subscribed, reader>>
mdns == <<announcer, zc, info, closed, announced>>
broker == <<will, availability, telemetry>>
mqtt == <<client, connected, link, broker>>
config == <<http, mqttOn>>
vars == <<config, main, stopping, started, sampling, halt, publishing, streaming,
          mdns, mqtt>>

\* A new process: AgentService(config).
Init ==
    /\ http \in BOOLEAN /\ mqttOn \in BOOLEAN
    /\ main = "boot" /\ stopping = FALSE /\ started = FALSE
    /\ sampler = "off" /\ halt = FALSE /\ latest = 0 /\ publishing = FALSE
    /\ queue = << >> /\ subscribed = FALSE /\ reader = "none"
    /\ announcer = "off" /\ zc = FALSE /\ info = FALSE
    /\ closed = FALSE /\ announced = FALSE
    /\ client = FALSE /\ connected = FALSE /\ link = "none"
    /\ will = FALSE /\ availability = "none" /\ telemetry = 0

Alive == main # "gone"
\* What publish() is given reaches the broker.
Publishable == link \in {"accepted", "up"}
Goes(from, to) == main = from /\ main' = to

(* ------------------------------ the start ------------------------------ *)

\* Sampler.start(): the first sample is taken here; nobody is subscribed yet.
StartSampler ==
    /\ Goes("boot", IF mqttOn THEN "startMqtt" ELSE "startServer")
    /\ latest' = 1 /\ sampler' = "idle"
    /\ UNCHANGED <<config, stopping, started, halt, publishing, streaming, mdns, mqtt>>

\* MqttPublisher.start().
StartMqtt ==
    /\ Goes("startMqtt", "addPublisher")
    /\ client' = TRUE
    /\ UNCHANGED <<config, stopping, started, sampling, halt, publishing, streaming,
                   mdns, connected, link, broker>>

AddPublisher ==
    /\ Goes("addPublisher", "startServer")
    /\ publishing' = TRUE
    /\ UNCHANGED <<config, stopping, started, sampling, halt, streaming, mdns, mqtt>>

\* run(): the announcer's thread, then the server; or neither.
StartServer ==
    /\ Goes("startServer", "serving")
    /\ announcer' = IF http THEN "waiting" ELSE "off"
    /\ UNCHANGED <<config, stopping, started, sampling, halt, publishing, streaming,
                   zc, info, closed, announced, mqtt>>

ServerStarts ==
    /\ main = "serving" /\ http /\ ~started
    /\ started' = TRUE
    /\ UNCHANGED <<config, main, stopping, sampling, halt, publishing, streaming,
                   mdns, mqtt>>

(* ------------------------------- the stop ------------------------------ *)

\* A signal, or a port that is taken: stop().
Stop ==
    /\ Goes("serving", "stopDiscovery")
    /\ stopping' = TRUE
    /\ UNCHANGED <<config, started, sampling, halt, publishing, streaming, mdns, mqtt>>

\* DiscoveryAdvertiser.stop(): the service is withdrawn if it was described.
StopDiscovery ==
    /\ Goes("stopDiscovery", "stopMqtt")
    /\ zc' = FALSE /\ info' = FALSE /\ closed' = (closed \/ zc)
    /\ announced' = (announced /\ ~(zc /\ info))
    /\ UNCHANGED <<config, stopping, started, sampling, halt, publishing, streaming,
                   announcer, mqtt>>

\* Mutant of SayOffline: the Last Will is relied on.
SayOfflineByWill ==
    /\ Goes("stopMqtt", IF client THEN "disconnect" ELSE "stopSampler")
    /\ UNCHANGED <<config, stopping, started, sampling, halt, publishing, streaming,
                   mdns, mqtt>>

\* MqttPublisher.stop(), first half: `offline' on a connection that is known.
SayOffline ==
    /\ Goes("stopMqtt", IF client THEN "disconnect" ELSE "stopSampler")
    /\ availability' = IF client /\ connected /\ Publishable THEN "offline"
                       ELSE availability
    /\ UNCHANGED <<config, stopping, started, sampling, halt, publishing, streaming,
                   mdns, client, connected, link, will, telemetry>>

\* disconnect() takes the Last Will back, if the broker gets to hear it.
Disconnect ==
    /\ Goes("disconnect", "forget")
    /\ link' = "none"
    /\ will' = (will /\ link \notin {"connecting", "accepted", "up"})
    /\ UNCHANGED <<config, stopping, started, sampling, halt, publishing, streaming,
                   mdns, client, connected, availability, telemetry>>

\* Second half, loop_stop() and the rest.
ForgetClient ==
    /\ Goes("forget", "stopSampler")
    /\ client' = FALSE /\ connected' = FALSE
    /\ UNCHANGED <<config, stopping, started, sampling, halt, publishing, streaming,
                   mdns, link, broker>>

StopSampler ==
    /\ Goes("stopSampler", "join")
    /\ halt' = TRUE
    /\ UNCHANGED <<config, stopping, started, sampling, publishing, streaming, mdns,
                   mqtt>>

\* The memory of the process, its threads and its connection.  A
\* service that was not withdrawn leaves the caches of the network in time.
Fresh ==
    /\ stopping' = FALSE /\ started' = FALSE
    /\ sampler' = "off" /\ halt' = FALSE /\ latest' = 0 /\ publishing' = FALSE
    /\ queue' = << >> /\ subscribed' = FALSE /\ reader' = "none"
    /\ announcer' = "off" /\ zc' = FALSE /\ info' = FALSE
    /\ closed' = FALSE /\ announced' = FALSE
    /\ client' = FALSE /\ connected' = FALSE /\ link' = "none"

Vanish == main' = "gone" /\ Fresh /\ UNCHANGED <<config, broker>>

\* The sampler's thread has ended, or join() has waited long enough.
Exit == main = "join" /\ Vanish

\* The process is killed, or the machine loses power.
Crash == Alive /\ Vanish

\* The agent is started again; its user may have changed the configuration.
Restart ==
    /\ Goes("gone", "boot")
    /\ http' \in BOOLEAN /\ mqttOn' \in BOOLEAN
    /\ UNCHANGED <<stopping, started, sampling, halt, publishing, streaming, mdns, mqtt>>

(* ----------------------------- the sampler ----------------------------- *)

\* sample_once(), up to the publishers.
Sample ==
    /\ sampler = "idle" /\ ~halt /\ latest < MaxSamples
    /\ latest' = latest + 1
    /\ sampler' = IF publishing THEN "publish" ELSE "fanOut"
    /\ UNCHANGED <<config, main, stopping, started, halt, publishing, streaming, mdns,
                   mqtt>>

\* publish_telemetry(): what it looks at before it publishes.
CheckConnected ==
    /\ sampler = "publish"
    /\ sampler' = IF client /\ connected THEN "send" ELSE "fanOut"
    /\ UNCHANGED <<config, main, stopping, started, latest, halt, publishing, streaming,
                   mdns, mqtt>>

PublishTelemetry ==
    /\ sampler = "send"
    /\ telemetry' = IF Publishable THEN latest ELSE telemetry
    /\ sampler' = "fanOut"
    /\ UNCHANGED <<config, main, stopping, started, latest, halt, publishing, streaming,
                   mdns, client, connected, link, will, availability>>

\* Mutant of Put: a queue without a size.
PutUnbounded ==
    /\ sampler = "fanOut" /\ sampler' = "idle"
    /\ queue' = IF subscribed THEN Append(queue, latest) ELSE queue
    /\ UNCHANGED <<config, main, stopping, started, latest, halt, publishing, subscribed,
                   reader, mdns, mqtt>>

\* _fan_out(), the queue of the subscriber: put, or find it full.
Put ==
    /\ sampler = "fanOut"
    /\ IF subscribed /\ Len(queue) = QueueSize
         THEN sampler' = "full" /\ UNCHANGED queue
         ELSE /\ sampler' = "idle"
              /\ queue' = IF subscribed THEN Append(queue, latest) ELSE queue
    /\ UNCHANGED <<config, main, stopping, started, latest, halt, publishing, subscribed,
                   reader, mdns, mqtt>>

\* Mutant of MakeRoom: the new sample is the one dropped.
MakeRoomDropsNewest ==
    /\ sampler = "full" /\ sampler' = "idle"
    /\ UNCHANGED <<config, main, stopping, started, latest, halt, publishing, streaming,
                   mdns, mqtt>>

\* Then drop the oldest and put; the client may have emptied the queue meanwhile,
\* and the sample is lost.
MakeRoom ==
    /\ sampler = "full"
    /\ sampler' = "idle"
    /\ queue' = IF queue = << >> THEN queue ELSE Append(Tail(queue), latest)
    /\ UNCHANGED <<config, main, stopping, started, latest, halt, publishing, subscribed,
                   reader, mdns, mqtt>>

SamplerEnds ==
    /\ sampler = "idle" /\ halt
    /\ sampler' = "off"
    /\ UNCHANGED <<config, main, stopping, started, latest, halt, publishing, streaming,
                   mdns, mqtt>>

SamplerThread ==
    Sample \/ CheckConnected \/ PublishTelemetry \/ Put \/ MakeRoom \/ SamplerEnds

(* ----------------------------- the stream ------------------------------ *)

\* The event loop is the main thread: it answers nobody while stop() runs.
EventLoop == main = "serving" /\ started
StreamOnly ==
    UNCHANGED <<config, main, stopping, started, sampling, halt, publishing, mdns, mqtt>>

\* stream(): subscribed before the first frame is sent.
OpenStream ==
    /\ EventLoop /\ reader = "none" /\ ~subscribed
    /\ subscribed' = TRUE /\ queue' = << >> /\ reader' = "first"
    /\ StreamOnly

\* events(): the latest sample first.
FirstFrame ==
    /\ EventLoop /\ reader = "first"
    /\ reader' = "wait"
    /\ UNCHANGED <<queue, subscribed>> /\ StreamOnly

\* _get() in a thread of its own.
TakeFrame ==
    /\ Alive /\ reader = "wait" /\ queue # << >>
    /\ queue' = Tail(queue) /\ reader' = "took"
    /\ UNCHANGED subscribed /\ StreamOnly

SendFrame ==
    /\ EventLoop /\ reader = "took"
    /\ reader' = "wait"
    /\ UNCHANGED <<queue, subscribed>> /\ StreamOnly

\* The client leaves.  Before its first frame nothing unsubscribes its queue.
CloseStream ==
    /\ EventLoop /\ reader \in {"first", "wait", "took"}
    /\ reader' = "none"
    /\ subscribed' = (reader = "first")
    /\ queue' = IF reader = "first" THEN queue ELSE << >>
    /\ StreamOnly

Stream == OpenStream \/ FirstFrame \/ TakeFrame \/ SendFrame \/ CloseStream

(* --------------------------- the announcement -------------------------- *)

MdnsOnly ==
    UNCHANGED <<config, main, stopping, started, sampling, halt, publishing, streaming, mqtt>>

\* Mutant of Decide: the server is not waited for.
DecideAtOnce ==
    /\ announcer = "waiting" /\ announcer' = "decided"
    /\ UNCHANGED <<zc, info, closed, announced>> /\ MdnsOnly

\* _announce_when_listening(): the loop ends when the server has started, the
\* service stops, or its time is up; start() does nothing with mDNS disabled.
Decide ==
    /\ announcer = "waiting"
    /\ \/ started /\ ~stopping /\ announcer' = "decided"
       \/ announcer' = "off"
    /\ UNCHANGED <<zc, info, closed, announced>> /\ MdnsOnly

\* DiscoveryAdvertiser.start(), in the steps stop() can come between.
OpenZeroconf ==
    /\ announcer = "decided"
    /\ announcer' = "opened" /\ zc' = TRUE
    /\ UNCHANGED <<info, closed, announced>> /\ MdnsOnly

DescribeService ==
    /\ announcer = "opened"
    /\ announcer' = "described" /\ info' = TRUE
    /\ UNCHANGED <<zc, closed, announced>> /\ MdnsOnly

\* A Zeroconf that is gone, or a failure of its own: start() cleans up.
Register ==
    /\ announcer = "described"
    /\ announcer' = "off"
    /\ \/ zc /\ announced' = TRUE /\ UNCHANGED <<zc, info, closed>>
       \/ /\ zc' = FALSE /\ info' = FALSE /\ closed' = (closed \/ zc)
          /\ UNCHANGED announced
    /\ MdnsOnly

Announce == Decide \/ OpenZeroconf \/ DescribeService \/ Register

(* ------------------------ the broker connection ------------------------ *)

MqttOnly ==
    UNCHANGED <<config, main, stopping, started, sampling, halt, publishing, streaming, mdns>>

\* The loop of paho runs until disconnect().
NetworkThread == client /\ main \notin {"forget", "gone"}

\* The broker accepts; a session it still held ends with its Last Will.
Connect ==
    /\ NetworkThread /\ link = "none"
    /\ link' = "connecting" /\ will' = TRUE
    /\ availability' = IF will THEN "offline" ELSE availability
    /\ UNCHANGED <<client, connected, telemetry>> /\ MqttOnly

\* _on_connect(): from here on the other threads know of the connection.
OnConnect ==
    /\ NetworkThread /\ link = "connecting"
    /\ link' = "accepted" /\ connected' = TRUE
    /\ UNCHANGED <<client, broker>> /\ MqttOnly

\* Then `online' and the meta document.
SayOnline ==
    /\ NetworkThread /\ link = "accepted"
    /\ link' = "up" /\ availability' = "online"
    /\ UNCHANGED <<client, connected, will, telemetry>> /\ MqttOnly

\* The connection breaks; neither end knows.
LinkBreaks ==
    /\ link \in {"connecting", "accepted", "up"}
    /\ link' = "broken"
    /\ UNCHANGED <<client, connected, broker>> /\ MqttOnly

\* _on_disconnect().
OnDisconnect ==
    /\ NetworkThread /\ link = "broken"
    /\ link' = "none" /\ connected' = FALSE
    /\ UNCHANGED <<client, broker>> /\ MqttOnly

\* The keepalive of a session without a connection runs out.
WillFires ==
    /\ will /\ link \in {"none", "broken"}
    /\ will' = FALSE /\ availability' = "offline"
    /\ UNCHANGED <<client, connected, link, telemetry>> /\ MqttOnly

Connection == Connect \/ OnConnect \/ SayOnline \/ LinkBreaks \/ OnDisconnect \/ WillFires

MainThread ==
    \/ StartSampler \/ StartMqtt \/ AddPublisher \/ StartServer \/ ServerStarts \/ Stop
    \/ StopDiscovery \/ SayOffline \/ Disconnect \/ ForgetClient \/ StopSampler \/ Exit

Next == MainThread \/ Crash \/ Restart \/ SamplerThread \/ Stream \/ Announce \/ Connection

\* The broker keeps time.
Spec == Init /\ [][Next]_vars /\ WF_vars(WillFires)

(* ----------------------------- properties ------------------------------ *)

\* The variables have their types, and a queue its size.
TypeOK ==
    /\ {http, mqttOn, stopping, started, halt, publishing, subscribed, zc, info, closed,
        announced, client, connected, will} \subseteq BOOLEAN
    /\ main \in {"boot", "startMqtt", "addPublisher", "startServer", "serving",
                 "stopDiscovery", "stopMqtt", "disconnect", "forget", "stopSampler",
                 "join", "gone"}
    /\ sampler \in {"off", "idle", "publish", "send", "fanOut", "full"}
    /\ {latest, telemetry} \subseteq 0..MaxSamples
    /\ queue \in Seq(1..MaxSamples) /\ Len(queue) <= QueueSize
    /\ reader \in {"none", "first", "wait", "took"}
    /\ announcer \in {"off", "waiting", "decided", "opened", "described"}
    /\ link \in {"none", "connecting", "accepted", "up", "broken"}
    /\ availability \in {"none", "offline", "online"}

\* service.py:3-6: whoever reacts at once to the announcement or to `online' finds
\* a port that is open, and data.
FirstVisitorServed ==
    /\ announced => started
    /\ announced \/ connected => latest > 0

\* sampler.py:370-371: a client that has stalled is given fresh frames when it
\* reads again: none in its queue is older than the queue is long.
FreshOnRecovery == \A i \in DOMAIN queue : queue[i] + QueueSize >= latest

\* A connection that is being set up between the two halves of MqttPublisher.stop():
\* its `online' may follow the `offline' of stop(), or find none.
LateConnection == main = "disconnect" /\ link \in {"connecting", "accepted"}

\* "online" is never left standing with nobody to take it back: while the broker
\* says so it holds the Last Will that will say otherwise (mqtt.py:100),
\* and a connection that is up has been announced until stop() says "offline".
\* The late connection is excepted.
OnlineHasItsWill ==
    []~LateConnection
        => [](/\ availability = "online" => will
              /\ link = "up" /\ main # "disconnect" => availability = "online")

\* What the broker says of the agent is true in the end: `offline' (or nothing)
\* however the agent ended, stopped or killed, connected or not, and `online'
\* when it stays connected.  Only the late connection is excepted.
AvailabilityTrue ==
    []~LateConnection
        => /\ <>[](main = "gone") => <>[](availability # "online")
           /\ <>[](link = "up" /\ main # "disconnect") => <>[](availability = "online")
=============================================================================
